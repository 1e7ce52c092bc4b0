------------------------ MODULE RequestPipelineProofs ------------------------
(***************************************************************************)
(* Safety of the request pipeline - the order of the nodes of a DAG, what  *)
(* the engine leaves undone, and the final status - for any requests,      *)
(* plans, dependencies, retries and number of threads, and whatever raises *)
(* in the engine's reports or in the verifier.                             *)
(***************************************************************************)
EXTENDS RequestPipeline, FiniteSetTheorems, SequenceTheorems, TLAPS

CallState == {"running", "ok", "failed"}
Result == {"pending", "running", "ok", "failed", "cancelled"}
Place == {"none", "queued", "steps", "attempt", "retrying", "resuming", "calling", "dag",
          "ending", "done", "died"}
Engine == {"off", "on", "ended", "broken"}

(* The steps and what is known of them are functions of their own per      *)
(* request.                                                                *)
Types ==
  /\ status \in [Requests -> Status \cup {"NONE"}]
  /\ pc \in [Requests -> Place]
  /\ writing \in [Requests -> Status \cup {"NONE"}]
  /\ cancelling \in [Requests -> BOOLEAN]
  /\ engine \in [Requests -> Engine]
  /\ DOMAIN outcome = Requests /\ DOMAIN calls = Requests
  /\ DOMAIN completed = Requests /\ DOMAIN failed = Requests
  /\ \A r \in Requests :
       /\ outcome[r] \in [Steps(r) -> Result]
       /\ calls[r] \in [Steps(r) -> Seq(CallState)]
       /\ completed[r] \subseteq Steps(r) /\ failed[r] \subseteq Steps(r)

HasOk(r, s) == \E k \in DOMAIN calls[r][s] : calls[r][s][k] = "ok"

(* The status a thread has checked and may still have to assign, and those *)
(* it can find behind the assignment, its own or cancel_task()'s.          *)
Outstanding(p) ==
  CASE p \in {"steps", "dag", "resuming"} -> {"RUNNING"}
    [] p = "retrying"                     -> {"RETRYING"}
    [] p = "done"                         -> {"SUCCESS", "FAILED"}
    [] OTHER                              -> {}

Assigned(p) ==
  CASE p = "none"     -> {"NONE"}
    [] p = "queued"   -> {"PENDING", "CANCELLED"}
    [] p = "retrying" -> {"RETRYING", "CANCELLED"}
    [] p = "done"     -> Terminal
    [] OTHER          -> {"RUNNING", "CANCELLED"}

Follows(r) ==
  /\ IF writing[r] = "NONE" THEN status[r] \in Assigned(pc[r])
                            ELSE writing[r] \in Outstanding(pc[r])
  /\ status[r] = "NONE" => pc[r] = "none" /\ ~cancelling[r]
  /\ engine[r] # "off" => pc[r] = "done" \/ (pc[r] = "dag" /\ writing[r] = "NONE")

StatusFollows == \A r \in Requests : Follows(r)

(* A DAG is left to the engine, and the engine knows no cancelled node.    *)
EngineAlone ==
  \A r \in Dags :
    /\ pc[r] \in {"none", "queued", "dag", "done"}
    /\ \A s \in Steps(r) : outcome[r][s] # "cancelled"

(* What the engine's sets tell: a node with the status COMPLETED is in     *)
(* completed, where one that was taken back is too; failed holds exactly   *)
(* the nodes with the status FAILED; a completed node had a success; and a *)
(* node that was called has all it depends on in completed.                *)
SetsTell ==
  \A r \in Dags : \A s \in Steps(r) :
    /\ outcome[r][s] = "ok" => s \in completed[r]
    /\ outcome[r][s] = "failed" <=> s \in failed[r]
    /\ s \in completed[r] => HasOk(r, s)
    /\ calls[r][s] # <<>> => Deps[r][s] \subseteq completed[r]

Inv == Types /\ StatusFollows /\ EngineAlone /\ SetsTell /\ NothingRunnableIsLeft

-------------------------------------------------------------------------------
(* The calls *)

(* A call that is begun comes behind the earlier ones.                     *)
LEMMA Begun ==
  ASSUME Types, NEW r \in Requests, NEW S, Begin(r, S)
  PROVE  /\ DOMAIN calls' = Requests
         /\ \A q \in Requests : q # r => calls'[q] = calls[q]
         /\ calls'[r] \in [Steps(r) -> Seq(CallState)]
         /\ \A s \in Steps(r) : s \notin S => calls'[r][s] = calls[r][s]
         /\ \A s \in Steps(r) : HasOk(r, s) => HasOk(r, s)'
<1>1. /\ DOMAIN calls' = Requests
      /\ \A q \in Requests : q # r => calls'[q] = calls[q]
      /\ calls'[r] = [s \in Steps(r) |-> IF s \in S THEN Append(calls[r][s], "running")
                                        ELSE calls[r][s]]
  BY DEF Begin, Types
<1>2. \A s \in Steps(r) : calls[r][s] \in Seq(CallState) /\ "running" \in CallState
  BY DEF Types, CallState
<1>3. \A s \in Steps(r) : Append(calls[r][s], "running") \in Seq(CallState)
  BY <1>2, AppendProperties
<1>4. ASSUME NEW s \in Steps(r), HasOk(r, s)
      PROVE  HasOk(r, s)'
  <2> DEFINE old == calls[r][s]
  <2>1. CASE s \in S
    <3>1. calls'[r][s] = Append(old, "running")
      BY <1>1, <2>1
    <3>2. /\ DOMAIN Append(old, "running") = 1 .. Len(old) + 1
          /\ \A i \in 1 .. Len(old) : Append(old, "running")[i] = old[i]
          /\ DOMAIN old = 1 .. Len(old) /\ Len(old) \in Nat
      BY <1>2, LenProperties DEF CallState
    <3>3. PICK k \in DOMAIN old : old[k] = "ok"
      BY <1>4 DEF HasOk
    <3>4. k \in DOMAIN calls'[r][s] /\ calls'[r][s][k] = "ok"
      BY <3>1, <3>2, <3>3
    <3> QED
      BY <3>4 DEF HasOk
  <2>2. CASE s \notin S
    BY <1>1, <1>4, <2>2 DEF HasOk
  <2> QED
    BY <2>1, <2>2
<1> QED
  BY <1>1, <1>2, <1>3, <1>4

(* A call that is answered takes its result, and no other one is touched.  *)
LEMMA Answered ==
  ASSUME Types, NEW r \in Requests, NEW s \in Steps(r), NEW ok \in BOOLEAN, Answer(r, s, ok)
  PROVE  /\ DOMAIN calls' = Requests
         /\ \A q \in Requests : q # r => calls'[q] = calls[q]
         /\ calls'[r] \in [Steps(r) -> Seq(CallState)]
         /\ \A n \in Steps(r) : calls'[r][n] # <<>> => calls[r][n] # <<>>
         /\ \A n \in Steps(r) : HasOk(r, n) => HasOk(r, n)'
         /\ ok => HasOk(r, s)'
<1> DEFINE old  == calls[r][s]
           last == Len(old)
           new  == IF ok THEN "ok" ELSE "failed"
<1>1. /\ DOMAIN calls' = Requests
      /\ \A q \in Requests : q # r => calls'[q] = calls[q]
      /\ calls'[r] = [calls[r] EXCEPT ![s] = [old EXCEPT ![last] = new]]
      /\ old # <<>> /\ old[last] = "running"
  BY DEF Answer, LastCall, Types
<1>2. \A n \in Steps(r) : n # s => calls'[r][n] = calls[r][n]
  BY <1>1 DEF Types
<1>3. calls'[r][s] = [old EXCEPT ![last] = new]
  BY <1>1 DEF Types
<1>4. old \in Seq(CallState) /\ new \in CallState
  BY DEF Types, CallState
<1>5. /\ last \in 1 .. last /\ DOMAIN old = 1 .. last
  <2>1. last \in Nat /\ DOMAIN old = 1 .. last
    BY <1>4, LenProperties
  <2>2. last # 0
    BY <1>1, <1>4, EmptySeq
  <2> QED
    BY <2>1, <2>2
<1>6. calls'[r][s] \in Seq(CallState)
  BY <1>3, <1>4, <1>5, ExceptSeq
<1>7. calls'[r] \in [Steps(r) -> Seq(CallState)]
  <2>1. \A n \in Steps(r) : calls'[r][n] \in Seq(CallState)
    BY <1>2, <1>6 DEF Types
  <2>2. calls'[r] = [n \in Steps(r) |-> calls'[r][n]]
    BY <1>1 DEF Types
  <2> QED
    BY <2>1, <2>2
<1>8. HasOk(r, s) => HasOk(r, s)'
  <2> SUFFICES ASSUME NEW k \in DOMAIN old, old[k] = "ok"
               PROVE  HasOk(r, s)'
    BY DEF HasOk
  <2>1. k # last
    BY <1>1
  <2>2. k \in DOMAIN calls'[r][s] /\ calls'[r][s][k] = "ok"
    BY <1>3, <2>1
  <2> QED
    BY <2>2 DEF HasOk
<1>9. ok => HasOk(r, s)'
  <2> SUFFICES ASSUME ok PROVE HasOk(r, s)'
    OBVIOUS
  <2>1. last \in DOMAIN calls'[r][s] /\ calls'[r][s][last] = "ok"
    BY <1>3, <1>5
  <2> QED
    BY <2>1 DEF HasOk
<1>10. \A n \in Steps(r) : HasOk(r, n) => HasOk(r, n)'
  BY <1>2, <1>8 DEF HasOk
<1>11. \A n \in Steps(r) : calls'[r][n] # <<>> => calls[r][n] # <<>>
  BY <1>1, <1>2
<1> QED
  BY <1>1, <1>7, <1>9, <1>10, <1>11

-------------------------------------------------------------------------------
(* The parts of a step *)

(* A checked transition leaves one well-typed status to assign, or none.   *)
LEMMA Checked ==
  ASSUME Types, NEW r \in Requests, NEW next \in Place, NEW target \in Status,
         Check(r, target, next)
  PROVE  /\ writing' \in [Requests -> Status \cup {"NONE"}]
         /\ pc' \in [Requests -> Place]
         /\ \A q \in Requests : q # r => writing'[q] = writing[q] /\ pc'[q] = pc[q]
         /\ pc'[r] = next
         /\ writing'[r] = IF target \in ValidTransitions(status[r]) THEN target ELSE "NONE"
BY DEF Check, Types

(* What a step of a request's thread makes of its outcomes.                *)
LEMMA Settled ==
  ASSUME Types, NEW r \in Requests, NEW s, NEW result \in Result, Settle(r, s, result)
  PROVE  /\ DOMAIN outcome' = Requests
         /\ outcome'[r] \in [Steps(r) -> Result]
         /\ \A q \in Requests : q # r => outcome'[q] = outcome[q]
<1>1. /\ DOMAIN outcome' = Requests
      /\ \A q \in Requests : q # r => outcome'[q] = outcome[q]
      /\ outcome'[r] = [outcome[r] EXCEPT ![s] = result]
  BY DEF Settle, Types
<1>2. outcome'[r] \in [Steps(r) -> Result]
  BY <1>1 DEF Types
<1> QED
  BY <1>1, <1>2 DEF Types

(* A step of the engine leaves the thread that waits for it where it is,   *)
(* or sends it on to its final status.                                     *)
LEMMA EngineMoves ==
  ASSUME Types, StatusFollows, NEW r \in Requests,
         \/ Launch(r) \/ ReturnDag(r) \/ GiveUp(r) \/ Start(r)
         \/ \E s \in Steps(r), ok \in BOOLEAN : Collect(r, s, ok)
  PROVE  /\ UNCHANGED <<status, cancelling>>
         /\ engine' \in [Requests -> Engine]
         /\ \A q \in Requests : q # r => engine'[q] = engine[q]
         /\ engine'[r] = engine[r] \/ engine'[r] \in {"on", "broken"} \/ ReturnDag(r)
         /\ \/ UNCHANGED <<pc, writing>>
            \/ /\ pc[r] = "dag"
               /\ \E target \in {"SUCCESS", "FAILED"} : Check(r, target, "done")
         /\ pc[r] = "done" \/ (pc[r] = "dag" /\ writing[r] = "NONE")
<1> DEFINE Stays == UNCHANGED <<engine, pc, writing>>
           Ends(how, target) == EngineStops(r, how, target)
<1>1. engine[r] \in Engine /\ Follows(r)
  BY DEF Types, StatusFollows
<1>2. UNCHANGED <<status, cancelling>>
  BY DEF Launch, ReturnDag, GiveUp, Start, Collect
<1>3. pc[r] = "done" \/ (pc[r] = "dag" /\ writing[r] = "NONE")
  BY <1>1 DEF Launch, ReturnDag, GiveUp, Start, Collect, At, Follows
<1>4. \/ Stays
      \/ Break(r)
      \/ Start(r) /\ engine' = [engine EXCEPT ![r] = "on"] /\ UNCHANGED <<pc, writing>>
      \/ ReturnDag(r) /\ \E target \in {"SUCCESS", "FAILED"} : Ends("ended", target)
      \/ GiveUp(r) /\ Check(r, "FAILED", "done") /\ UNCHANGED engine
  <2>1. CASE Launch(r) \/ Start(r) \/ GiveUp(r)
    BY <2>1 DEF Launch, Start, GiveUp
  <2>2. CASE ReturnDag(r)
    BY <2>2 DEF ReturnDag
  <2>3. ASSUME NEW s \in Steps(r), NEW ok \in BOOLEAN, Collect(r, s, ok)
        PROVE  Stays \/ Break(r)
    BY <2>3 DEF Collect, Complete, Miss
  <2> QED
    BY <2>1, <2>2, <2>3
<1>5. ASSUME NEW how \in {"ended", "broken"}, NEW target \in {"SUCCESS", "FAILED"},
             Ends(how, target)
      PROVE  /\ engine' = [engine EXCEPT ![r] = how]
             /\ UNCHANGED <<pc, writing>> \/ (pc[r] = "dag" /\ Check(r, target, "done"))
  BY <1>5 DEF EngineStops
<1>6. CASE Stays
  BY <1>1, <1>2, <1>3, <1>6 DEF Types
<1>7. CASE Break(r)
  BY <1>2, <1>3, <1>5, <1>7 DEF Break, Types, Engine
<1>8. CASE Start(r) /\ engine' = [engine EXCEPT ![r] = "on"] /\ UNCHANGED <<pc, writing>>
  BY <1>2, <1>3, <1>8 DEF Types, Engine
<1>9. CASE ReturnDag(r) /\ \E target \in {"SUCCESS", "FAILED"} : Ends("ended", target)
  BY <1>2, <1>3, <1>5, <1>9 DEF Types, Engine
<1>10. CASE GiveUp(r) /\ Check(r, "FAILED", "done") /\ UNCHANGED engine
  <2>1. pc[r] = "dag"
    BY <1>10 DEF GiveUp, At
  <2> QED
    BY <1>2, <1>3, <1>10, <2>1 DEF Types
<1> QED
  BY <1>4, <1>6, <1>7, <1>8, <1>9, <1>10

(* What a launch makes of the nodes.                                       *)
LEMMA Launched ==
  ASSUME Types, NEW r \in Requests, Launch(r)
  PROVE  /\ DOMAIN outcome' = Requests
         /\ \A q \in Requests : q # r => outcome'[q] = outcome[q]
         /\ outcome'[r] \in [Steps(r) -> Result]
         /\ \A s \in Steps(r) : \/ outcome'[r][s] = outcome[r][s]
                                \/ s \in Ready(r) /\ outcome'[r][s] = "running"
<1>1. PICK S : S \subseteq Ready(r) /\ MarkRunning(r, S)
  <2>1. CASE MarkRunning(r, Ready(r))
    BY <2>1
  <2>2. ASSUME NEW last \in Ready(r), MarkRunning(r, {s \in Ready(r) : s <= last})
        PROVE  \E S : S \subseteq Ready(r) /\ MarkRunning(r, S)
    BY <2>2
  <2> QED
    BY <2>1, <2>2 DEF Launch
<1>2. /\ DOMAIN outcome' = Requests
      /\ \A q \in Requests : q # r => outcome'[q] = outcome[q]
      /\ outcome'[r] = [s \in Steps(r) |-> IF s \in S THEN "running" ELSE outcome[r][s]]
  BY <1>1 DEF MarkRunning, Types
<1> QED
  BY <1>1, <1>2 DEF Types, Result

(* What collecting a node makes of the nodes and the sets: the node is     *)
(* completed, pending or failed, others fail only if they were pending,    *)
(* and who is counted stays so.                                            *)
LEMMA Collected ==
  ASSUME Types, NEW r \in Requests, NEW s \in Steps(r), NEW ok \in BOOLEAN, Collect(r, s, ok)
  PROVE  /\ DOMAIN outcome' = Requests /\ DOMAIN completed' = Requests
         /\ DOMAIN failed' = Requests
         /\ \A q \in Requests : q # r =>
              outcome'[q] = outcome[q] /\ completed'[q] = completed[q] /\ failed'[q] = failed[q]
         /\ outcome'[r] \in [Steps(r) -> Result] /\ failed'[r] \subseteq Steps(r)
         /\ completed'[r] \in {completed[r], completed[r] \cup {s}}
         /\ completed'[r] # completed[r] => ok
         /\ outcome'[r][s] = "ok" => s \in completed'[r]
         /\ \E S \in SUBSET Steps(r) :
              /\ failed'[r] = failed[r] \cup S
              /\ \A n \in S : n = s \/ outcome[r][n] = "pending"
              /\ \A n \in Steps(r) :
                   outcome'[r][n] = IF n \in S THEN "failed"
                                    ELSE IF n = s THEN outcome'[r][s] ELSE outcome[r][n]
              /\ s \notin S => outcome'[r][s] \in {"ok", "pending"}
<1>1. CASE ok /\ Complete(r, s)
  <2>1. /\ DOMAIN outcome' = Requests /\ DOMAIN completed' = Requests
        /\ failed' = failed
        /\ \A q \in Requests : q # r => outcome'[q] = outcome[q] /\ completed'[q] = completed[q]
        /\ outcome'[r] = [outcome[r] EXCEPT ![s] = "ok"]
        /\ completed'[r] = completed[r] \cup {s}
    BY <1>1 DEF Complete, Types
  <2>2. outcome'[r] \in [Steps(r) -> Result] /\ outcome'[r][s] = "ok"
        /\ \A n \in Steps(r) : n # s => outcome'[r][n] = outcome[r][n]
    BY <2>1 DEF Types, Result
  <2>3. /\ {} \in SUBSET Steps(r) /\ failed'[r] = failed[r] \cup {}
    BY <2>1
  <2> QED
    BY <1>1, <2>1, <2>2, <2>3 DEF Types
<1>2. CASE Miss(r, s, ok)
  <2>1. /\ DOMAIN completed' = Requests
        /\ \A q \in Requests : q # r => completed'[q] = completed[q]
        /\ completed'[r] = IF ok THEN completed[r] \cup {s} ELSE completed[r]
    BY <1>2 DEF Miss, Types
  <2>2. CASE outcome' = [outcome EXCEPT ![r][s] = "pending"] /\ UNCHANGED failed
    <3>1. /\ DOMAIN outcome' = Requests
          /\ \A q \in Requests : q # r => outcome'[q] = outcome[q]
          /\ outcome'[r] = [outcome[r] EXCEPT ![s] = "pending"]
      BY <2>2 DEF Types
    <3>2. outcome'[r] \in [Steps(r) -> Result] /\ outcome'[r][s] = "pending"
          /\ \A n \in Steps(r) : n # s => outcome'[r][n] = outcome[r][n]
      BY <3>1 DEF Types, Result
    <3>3. {} \in SUBSET Steps(r) /\ failed'[r] = failed[r] \cup {}
      BY <2>2
    <3> QED
      BY <2>1, <2>2, <3>1, <3>2, <3>3 DEF Types
  <2>3. ASSUME NEW D, D \subseteq Dependents(r, s), Fail(r, {s} \cup D)
        PROVE  /\ DOMAIN outcome' = Requests /\ DOMAIN failed' = Requests
               /\ \A q \in Requests : q # r => outcome'[q] = outcome[q] /\ failed'[q] = failed[q]
               /\ outcome'[r] \in [Steps(r) -> Result]
               /\ outcome'[r][s] # "ok" /\ failed'[r] \subseteq Steps(r)
               /\ \E S \in SUBSET Steps(r) :
                    /\ failed'[r] = failed[r] \cup S
                    /\ \A n \in S : n = s \/ outcome[r][n] = "pending"
                    /\ \A n \in Steps(r) :
                         outcome'[r][n] = IF n \in S THEN "failed"
                                          ELSE IF n = s THEN outcome'[r][s] ELSE outcome[r][n]
                    /\ s \notin S => outcome'[r][s] \in {"ok", "pending"}
    <3> DEFINE S == {s} \cup D
    <3>1. S \in SUBSET Steps(r) /\ \A n \in S : n = s \/ outcome[r][n] = "pending"
      BY <2>3 DEF Dependents
    <3>2. /\ DOMAIN outcome' = Requests /\ DOMAIN failed' = Requests
          /\ \A q \in Requests : q # r => outcome'[q] = outcome[q] /\ failed'[q] = failed[q]
          /\ outcome'[r] = [n \in Steps(r) |-> IF n \in S THEN "failed" ELSE outcome[r][n]]
          /\ failed'[r] = failed[r] \cup S
      BY <2>3 DEF Fail, Types
    <3>3. outcome'[r] \in [Steps(r) -> Result] /\ outcome'[r][s] = "failed"
      BY <3>2 DEF Types, Result
    <3>5. failed'[r] \subseteq Steps(r)
      BY <3>1, <3>2 DEF Types
    <3>4. \A n \in Steps(r) :
            outcome'[r][n] = IF n \in S THEN "failed"
                             ELSE IF n = s THEN outcome'[r][s] ELSE outcome[r][n]
      BY <3>2
    <3> HIDE DEF S
    <3>6. s \in S
      BY DEF S
    <3> QED
      BY <3>1, <3>2, <3>3, <3>4, <3>5, <3>6
  <2>4. \/ outcome' = [outcome EXCEPT ![r][s] = "pending"] /\ UNCHANGED failed
        \/ \E D : D \subseteq Dependents(r, s) /\ Fail(r, {s} \cup D)
    <3>1. ASSUME NEW last \in 0 .. Plan[r],
                 Fail(r, {s} \cup {d \in Dependents(r, s) : d <= last})
          PROVE  \E D : D \subseteq Dependents(r, s) /\ Fail(r, {s} \cup D)
      BY <3>1
    <3> QED
      BY <1>2, <3>1 DEF Miss
  <2> QED
    BY <2>1, <2>2, <2>3, <2>4
<1> QED
  BY <1>1, <1>2 DEF Collect

-------------------------------------------------------------------------------
(* Types *)

(* The actions in groups that move the same variables.                     *)
LEMMA Cases ==
  ASSUME Next
  PROVE  \E r \in Requests :
           \/ \E blocked \in BOOLEAN : Submit(r, blocked)
           \/ CancelCheck(r) \/ CancelAssign(r)
           \/ Assign(r) \/ Acquire(r) \/ NextStep(r) \/ Attempt(r) \/ Retry(r) \/ Resume(r)
           \/ End(r) \/ Die(r) \/ \E ok \in BOOLEAN : Return(r, ok)
           \/ Launch(r) \/ ReturnDag(r) \/ GiveUp(r) \/ Start(r)
           \/ \E s \in Steps(r), ok \in BOOLEAN : Collect(r, s, ok)
BY DEF Next, Work, Dispatch

(* The calls stay sequences of calls.                                      *)
LEMMA NextCallType ==
  ASSUME Types, [Next]_vars
  PROVE  /\ DOMAIN calls' = Requests
         /\ \A r \in Requests : calls'[r] \in [Steps(r) -> Seq(CallState)]
<1>1. CASE UNCHANGED calls
  BY <1>1 DEF Types
<1>2. ASSUME NEW r \in Requests, NEW S, Begin(r, S)
      PROVE  /\ DOMAIN calls' = Requests
             /\ \A q \in Requests : calls'[q] \in [Steps(q) -> Seq(CallState)]
  BY <1>2, Begun DEF Types
<1>3. ASSUME NEW r \in Requests, NEW s, NEW ok \in BOOLEAN, Answer(r, s, ok)
      PROVE  /\ DOMAIN calls' = Requests
             /\ \A q \in Requests : calls'[q] \in [Steps(q) -> Seq(CallState)]
  <2>1. CASE s \in Steps(r)
    <3>1. /\ DOMAIN calls' = Requests
          /\ \A q \in Requests : q # r => calls'[q] = calls[q]
          /\ calls'[r] \in [Steps(r) -> Seq(CallState)]
      BY <1>3, <2>1, Answered
    <3> QED
      BY <3>1 DEF Types
  <2>2. CASE s \notin Steps(r)
    <3>1. /\ DOMAIN calls' = Requests
          /\ \A q \in Requests : q # r => calls'[q] = calls[q]
          /\ \E v : calls'[r] = [calls[r] EXCEPT ![s] = v]
      BY <1>3 DEF Answer, Types
    <3>2. calls'[r] = calls[r]
      BY <2>2, <3>1 DEF Types
    <3> QED
      BY <3>1, <3>2 DEF Types
  <2> QED
    BY <2>1, <2>2
<1>4. \/ UNCHANGED calls
      \/ \E r \in Requests : \E S : Begin(r, S)
      \/ \E r \in Requests : \E s : \E ok \in BOOLEAN : Answer(r, s, ok)
  <2>1. CASE UNCHANGED vars
    BY <2>1 DEF vars
  <2>2. CASE Next
    <3>1. PICK r \in Requests :
           \/ \E blocked \in BOOLEAN : Submit(r, blocked)
           \/ CancelCheck(r) \/ CancelAssign(r)
           \/ Assign(r) \/ Acquire(r) \/ NextStep(r) \/ Attempt(r) \/ Retry(r) \/ Resume(r)
           \/ End(r) \/ Die(r) \/ \E ok \in BOOLEAN : Return(r, ok)
           \/ Launch(r) \/ ReturnDag(r) \/ GiveUp(r) \/ Start(r)
           \/ \E s \in Steps(r), ok \in BOOLEAN : Collect(r, s, ok)
      BY <2>2, Cases
    <3>2. CASE \/ \E blocked \in BOOLEAN : Submit(r, blocked)
               \/ CancelCheck(r) \/ CancelAssign(r) \/ Assign(r) \/ Acquire(r) \/ NextStep(r)
               \/ Retry(r) \/ End(r) \/ ReturnDag(r) \/ GiveUp(r) \/ Start(r)
      BY <3>2 DEF Submit, CancelCheck, CancelAssign, Assign, Acquire, NextStep, Retry, End,
                  ReturnDag, GiveUp, Start
    <3>3. CASE Attempt(r) \/ Resume(r) \/ Launch(r)
      BY <3>3 DEF Attempt, Resume, Launch
    <3>4. CASE Die(r) \/ \E ok \in BOOLEAN : Return(r, ok)
      <4>1. \E ok \in BOOLEAN : Answer(r, step[r], ok)
        BY <3>4 DEF Die, Return
      <4> QED
        BY <4>1
    <3>5. ASSUME NEW s \in Steps(r), NEW ok \in BOOLEAN, Collect(r, s, ok)
          PROVE  \E q \in Requests : \E n : \E b \in BOOLEAN : Answer(q, n, b)
      <4>1. Answer(r, s, ok)
        BY <3>5 DEF Collect
      <4> QED
        BY <4>1
    <3> QED
      BY <3>1, <3>2, <3>3, <3>4, <3>5
  <2> QED
    BY <2>1, <2>2
<1> QED
  BY <1>1, <1>2, <1>3, <1>4

(* No step leaves the types.                                               *)
LEMMA NextTypes ==
  ASSUME Types, StatusFollows, [Next]_vars
  PROVE  Types'
<1>1. CASE UNCHANGED vars
  BY <1>1 DEF Types, vars, worker, counted
<1>2. CASE Next
  <2>1. PICK r \in Requests :
           \/ \E blocked \in BOOLEAN : Submit(r, blocked)
           \/ CancelCheck(r) \/ CancelAssign(r)
           \/ Assign(r) \/ Acquire(r) \/ NextStep(r) \/ Attempt(r) \/ Retry(r) \/ Resume(r)
           \/ End(r) \/ Die(r) \/ \E ok \in BOOLEAN : Return(r, ok)
           \/ Launch(r) \/ ReturnDag(r) \/ GiveUp(r) \/ Start(r)
           \/ \E s \in Steps(r), ok \in BOOLEAN : Collect(r, s, ok)
    BY <1>2, Cases
  <2> DEFINE Thread == /\ status' \in [Requests -> Status \cup {"NONE"}]
                       /\ pc' \in [Requests -> Place]
                       /\ writing' \in [Requests -> Status \cup {"NONE"}]
                       /\ cancelling' \in [Requests -> BOOLEAN]
                       /\ engine' \in [Requests -> Engine]
             Outcomes == /\ DOMAIN outcome' = Requests
                         /\ \A q \in Requests : outcome'[q] \in [Steps(q) -> Result]
             Sets == /\ DOMAIN completed' = Requests /\ DOMAIN failed' = Requests
                     /\ \A q \in Requests : /\ completed'[q] \subseteq Steps(q)
                                            /\ failed'[q] \subseteq Steps(q)
  <2>2. SUFFICES Thread /\ Outcomes /\ Sets
    BY NextCallType DEF Types
  <2>3. UNCHANGED outcome => Outcomes
    BY DEF Types
  <2>4. UNCHANGED counted => Sets
    BY DEF Types, counted
  <2>5. {"RUNNING", "RETRYING", "SUCCESS", "FAILED", "PENDING", "CANCELLED"} \subseteq Status
    BY DEF Status, Terminal
  <2>6. CASE \E blocked \in BOOLEAN : Submit(r, blocked)
    BY <2>3, <2>4, <2>5, <2>6 DEF Submit, Types, Place
  <2>7. CASE CancelCheck(r) \/ CancelAssign(r)
    <3>1. UNCHANGED <<pc, writing, outcome, engine, counted>>
      BY <2>7 DEF CancelCheck, CancelAssign, worker
    <3>2. \E b \in BOOLEAN : cancelling' = [cancelling EXCEPT ![r] = b]
      BY <2>7 DEF CancelCheck, CancelAssign
    <3>3. UNCHANGED status \/ status' = [status EXCEPT ![r] = "CANCELLED"]
      BY <2>7 DEF CancelCheck, CancelAssign
    <3> QED
      BY <2>3, <2>4, <2>5, <3>1, <3>2, <3>3 DEF Types
  <2>8. CASE Assign(r)
    BY <2>3, <2>4, <2>8 DEF Assign, Types
  <2>9. CASE Acquire(r) \/ Retry(r) \/ End(r)
    <3>1. UNCHANGED <<status, cancelling, outcome, engine, counted>>
      BY <2>9 DEF Acquire, Retry, End
    <3>2. \/ \E next \in Place, target \in Status : Check(r, target, next)
          \/ pc' = [pc EXCEPT ![r] = "done"] /\ UNCHANGED writing
      BY <2>5, <2>9 DEF Acquire, Retry, End, Place
    <3>3. writing' \in [Requests -> Status \cup {"NONE"}] /\ pc' \in [Requests -> Place]
      BY <3>2, Checked DEF Types, Place
    <3> QED
      BY <2>3, <2>4, <3>1, <3>3 DEF Types
  <2>10. CASE NextStep(r) \/ Resume(r) \/ Die(r)
    BY <2>3, <2>4, <2>10 DEF NextStep, Resume, Die, Types, Place
  <2>11. CASE Attempt(r) \/ \E ok \in BOOLEAN : Return(r, ok)
    <3>1. UNCHANGED <<status, cancelling, engine, counted>>
      BY <2>11 DEF Attempt, Return
    <3>2. \/ \E s : \E result \in Result : Settle(r, s, result) /\ UNCHANGED writing
          \/ Check(r, "RETRYING", "retrying") /\ UNCHANGED outcome
          \/ \E next \in {"calling", "attempt"} :
               pc' = [pc EXCEPT ![r] = next] /\ UNCHANGED <<writing, outcome>>
      BY <2>11 DEF Attempt, Return, Result
    <3>3. CASE \E s : \E result \in Result : Settle(r, s, result) /\ UNCHANGED writing
      <4>1. Outcomes
        BY <3>3, Settled DEF Types
      <4>2. pc' \in [Requests -> Place]
        BY <3>3 DEF Settle, Types, Place
      <4> QED
        BY <2>4, <3>1, <3>3, <4>1, <4>2 DEF Types
    <3>4. CASE Check(r, "RETRYING", "retrying") /\ UNCHANGED outcome
      <4>1. writing' \in [Requests -> Status \cup {"NONE"}] /\ pc' \in [Requests -> Place]
        BY <2>5, <3>4, Checked DEF Place
      <4> QED
        BY <2>3, <2>4, <3>1, <3>4, <4>1 DEF Types
    <3>5. CASE \E next \in {"calling", "attempt"} :
                 pc' = [pc EXCEPT ![r] = next] /\ UNCHANGED <<writing, outcome>>
      BY <2>3, <2>4, <3>1, <3>5 DEF Types, Place
    <3> QED
      BY <3>2, <3>3, <3>4, <3>5
  <2>12. CASE \/ Launch(r) \/ ReturnDag(r) \/ GiveUp(r) \/ Start(r)
              \/ \E s \in Steps(r), ok \in BOOLEAN : Collect(r, s, ok)
    <3>1. Thread
      <4>1. /\ UNCHANGED <<status, cancelling>> /\ engine' \in [Requests -> Engine]
            /\ \/ UNCHANGED <<pc, writing>>
               \/ \E target \in {"SUCCESS", "FAILED"} : Check(r, target, "done")
        BY <2>12, EngineMoves
      <4>2. writing' \in [Requests -> Status \cup {"NONE"}] /\ pc' \in [Requests -> Place]
        BY <2>5, <4>1, Checked DEF Types, Place
      <4> QED
        BY <4>1, <4>2 DEF Types
    <3>2. Outcomes /\ Sets
      <4>1. CASE ReturnDag(r) \/ GiveUp(r) \/ Start(r)
        BY <2>3, <2>4, <4>1 DEF ReturnDag, GiveUp, Start
      <4>2. CASE Launch(r)
        <5>1. UNCHANGED counted
          BY <4>2 DEF Launch
        <5>2. Outcomes
          BY <4>2, Launched DEF Types
        <5> QED
          BY <2>4, <5>1, <5>2
      <4>3. ASSUME NEW s \in Steps(r), NEW ok \in BOOLEAN, Collect(r, s, ok)
            PROVE  Outcomes /\ Sets
        <5>1. /\ DOMAIN outcome' = Requests /\ DOMAIN completed' = Requests
              /\ DOMAIN failed' = Requests
              /\ \A q \in Requests : q # r =>
                   /\ outcome'[q] = outcome[q] /\ completed'[q] = completed[q]
                   /\ failed'[q] = failed[q]
              /\ outcome'[r] \in [Steps(r) -> Result]
              /\ completed'[r] \in {completed[r], completed[r] \cup {s}}
          BY <4>3, Collected
        <5>4. failed'[r] \subseteq Steps(r)
          BY <4>3, Collected
        <5>2. /\ completed[r] \subseteq Steps(r) /\ failed[r] \subseteq Steps(r)
              /\ \A q \in Requests : /\ completed[q] \subseteq Steps(q)
                                     /\ failed[q] \subseteq Steps(q)
                                     /\ outcome[q] \in [Steps(q) -> Result]
          BY DEF Types
        <5>3. completed'[r] \subseteq Steps(r) /\ failed'[r] \subseteq Steps(r)
          BY <5>1, <5>2, <5>4
        <5> QED
          BY <5>1, <5>2, <5>3
      <4> QED
        BY <2>12, <4>1, <4>2, <4>3
    <3> QED
      BY <3>1, <3>2
  <2> QED
    BY <2>1, <2>6, <2>7, <2>8, <2>9, <2>10, <2>11, <2>12
<1> QED
  BY <1>1, <1>2

-------------------------------------------------------------------------------
(* The status *)

(* Only its own steps and a cancellation move a request's status.          *)
LEMMA NextStatus ==
  ASSUME Types, StatusFollows, [Next]_vars
  PROVE  StatusFollows'
<1>1. CASE UNCHANGED vars
  BY <1>1 DEF StatusFollows, Follows, vars, worker
<1>2. CASE Next
  <2>1. PICK r \in Requests :
           \/ \E blocked \in BOOLEAN : Submit(r, blocked)
           \/ CancelCheck(r) \/ CancelAssign(r)
           \/ Assign(r) \/ Acquire(r) \/ NextStep(r) \/ Attempt(r) \/ Retry(r) \/ Resume(r)
           \/ End(r) \/ Die(r) \/ \E ok \in BOOLEAN : Return(r, ok)
           \/ Launch(r) \/ ReturnDag(r) \/ GiveUp(r) \/ Start(r)
           \/ \E s \in Steps(r), ok \in BOOLEAN : Collect(r, s, ok)
    BY <1>2, Cases
  <2> DEFINE EngineStep ==
        \/ Launch(r) \/ ReturnDag(r) \/ GiveUp(r) \/ Start(r)
        \/ \E s \in Steps(r), ok \in BOOLEAN : Collect(r, s, ok)
  <2>2. \A q \in Requests : Follows(q)
    BY DEF StatusFollows
  <2>3. ASSUME NEW q \in Requests, q # r
        PROVE  /\ status'[q] = status[q] /\ pc'[q] = pc[q] /\ writing'[q] = writing[q]
               /\ cancelling'[q] = cancelling[q] /\ engine'[q] = engine[q]
    <3>1. CASE \/ \E blocked \in BOOLEAN : Submit(r, blocked)
               \/ CancelCheck(r) \/ CancelAssign(r)
      BY <2>3, <3>1 DEF Submit, CancelCheck, CancelAssign, Types, worker
    <3>2. CASE \/ Assign(r) \/ Acquire(r) \/ NextStep(r) \/ Attempt(r) \/ Retry(r) \/ Resume(r)
               \/ End(r) \/ Die(r) \/ \E ok \in BOOLEAN : Return(r, ok)
      BY <2>3, <3>2 DEF Assign, Acquire, NextStep, Attempt, Retry, Resume, End, Die, Return,
                        Check, Settle, Types
    <3>3. CASE EngineStep
      <4>1. /\ UNCHANGED <<status, cancelling>> /\ engine'[q] = engine[q]
            /\ \/ UNCHANGED <<pc, writing>>
               \/ \E target \in {"SUCCESS", "FAILED"} : Check(r, target, "done")
        BY <2>3, <3>3, EngineMoves
      <4> QED
        BY <2>3, <4>1 DEF Check, Types
    <3> QED
      BY <2>1, <3>1, <3>2, <3>3
  <2>4. Follows(r)'
    <3> USE DEF Types
    <3>0. Follows(r)
      BY <2>2
    <3>1. CASE \E blocked \in BOOLEAN : Submit(r, blocked)
      BY <3>0, <3>1 DEF Submit, Follows, Outstanding, Assigned, Terminal
    <3>2. CASE CancelCheck(r)
      BY <3>0, <3>2 DEF CancelCheck, Follows, worker
    <3>3. CASE CancelAssign(r)
      BY <3>0, <3>3 DEF CancelAssign, Follows, worker, Assigned, Terminal
    <3>4. CASE Assign(r)
      BY <3>0, <3>4 DEF Assign, Follows, Assigned, Outstanding, Terminal
    <3>5. CASE Acquire(r)
      <4>1. pc[r] = "queued" /\ writing[r] = "NONE" /\ status[r] \in {"PENDING", "CANCELLED"}
        BY <3>0, <3>5 DEF Acquire, At, Follows, Assigned
      <4>2. writing'[r] = IF status[r] = "PENDING" THEN "RUNNING" ELSE "NONE"
        BY <3>5, <4>1 DEF Acquire, Check, ValidTransitions
      <4>3. pc'[r] \in {"steps", "dag"}
        BY <3>5 DEF Acquire, Check
      <4>4. UNCHANGED <<status, cancelling, engine>>
        BY <3>5 DEF Acquire
      <4>5. engine[r] = "off"
        BY <3>0, <4>1 DEF Follows
      <4> QED
        BY <4>1, <4>2, <4>3, <4>4, <4>5 DEF Follows, Assigned, Outstanding
    <3>6. CASE Retry(r)
      BY <3>0, <3>6 DEF Retry, Check, At, Follows, ValidTransitions, Assigned, Outstanding
    <3>7. CASE End(r)
      BY <3>0, <3>7 DEF End, Check, At, Follows, ValidTransitions, Assigned, Outstanding, Terminal
    <3>8. CASE NextStep(r) \/ Resume(r) \/ Die(r)
      BY <3>0, <3>8 DEF NextStep, Resume, Die, At, Follows, Assigned
    <3>9. CASE Attempt(r)
      BY <3>0, <3>9 DEF Attempt, Settle, Check, At, Follows, ValidTransitions, Assigned, Outstanding
    <3>10. CASE \E ok \in BOOLEAN : Return(r, ok)
      BY <3>0, <3>10 DEF Return, Settle, At, Follows, Assigned
    <3>11. CASE EngineStep
      <4>0. /\ UNCHANGED <<status, cancelling>>
            /\ pc[r] = "done" \/ (pc[r] = "dag" /\ writing[r] = "NONE")
            /\ \/ UNCHANGED <<pc, writing>>
               \/ /\ pc[r] = "dag"
                  /\ \E target \in {"SUCCESS", "FAILED"} : Check(r, target, "done")
        BY <3>11, EngineMoves
      <4>1. CASE UNCHANGED <<pc, writing>>
        BY <3>0, <4>0, <4>1 DEF Follows
      <4>2. ASSUME pc[r] = "dag", NEW target \in {"SUCCESS", "FAILED"}, Check(r, target, "done")
            PROVE  Follows(r)'
        <5>1. writing[r] = "NONE" /\ status[r] \in {"RUNNING", "CANCELLED"}
          BY <3>0, <4>0, <4>2 DEF Follows, Assigned
        <5>2. pc'[r] = "done" /\ (status[r] = "CANCELLED" => writing'[r] = "NONE")
              /\ (status[r] = "RUNNING" => writing'[r] \in {"SUCCESS", "FAILED"})
          BY <4>2, <5>1 DEF Check, ValidTransitions
        <5>3. status'[r] = status[r] /\ status'[r] # "NONE"
          BY <4>0, <5>1
        <5>4. CASE status[r] = "CANCELLED"
          BY <5>2, <5>3, <5>4 DEF Follows, Assigned, Terminal
        <5>5. CASE status[r] = "RUNNING"
          BY <5>2, <5>3, <5>5 DEF Follows, Outstanding
        <5> QED
          BY <5>1, <5>4, <5>5
      <4> QED
        BY <4>0, <4>1, <4>2
    <3> QED
      BY <2>1, <3>1, <3>2, <3>3, <3>4, <3>5, <3>6, <3>7, <3>8, <3>9, <3>10, <3>11
  <2>5. \A q \in Requests : Follows(q)'
    <3> SUFFICES ASSUME NEW q \in Requests PROVE Follows(q)'
      OBVIOUS
    <3>1. CASE q = r
      BY <2>4, <3>1
    <3>2. CASE q # r
      <4>1. Follows(q)
        BY <2>2
      <4> QED
        BY <2>3, <3>2, <4>1 DEF Follows
    <3> QED
      BY <3>1, <3>2
  <2> QED
    BY <2>5 DEF StatusFollows
<1> QED
  BY <1>1, <1>2

-------------------------------------------------------------------------------
(* The engine *)

(* What can happen to a DAG: the thread takes it to the engine and leaves, *)
(* the engine starts, launches, collects and returns, or its nodes stay as *)
(* they are.                                                               *)
LEMMA DagMoves ==
  ASSUME PipelineAssumption, Types, StatusFollows, EngineAlone, [Next]_vars, NEW r \in Dags
  PROVE  /\ pc'[r] \in {"none", "queued", "dag", "done"}
         /\ \/ Launch(r) /\ engine'[r] # "ended"
            \/ /\ \E s \in Steps(r), ok \in BOOLEAN : Collect(r, s, ok)
               /\ engine'[r] # "ended"
            \/ /\ outcome'[r] = outcome[r] /\ calls'[r] = calls[r]
               /\ completed'[r] = completed[r] /\ failed'[r] = failed[r]
               /\ engine'[r] = engine[r] \/ engine'[r] # "ended" \/ ReturnDag(r)
<1> DEFINE Quiet == /\ outcome'[r] = outcome[r] /\ calls'[r] = calls[r]
                    /\ completed'[r] = completed[r] /\ failed'[r] = failed[r]
<1>0. r \in Requests /\ pc[r] \in {"none", "queued", "dag", "done"}
  BY DEF PipelineAssumption, EngineAlone
<1>1. CASE UNCHANGED vars
  BY <1>0, <1>1 DEF vars, worker, counted
<1>2. CASE Next
  <2>1. PICK q \in Requests :
           \/ \E blocked \in BOOLEAN : Submit(q, blocked)
           \/ CancelCheck(q) \/ CancelAssign(q)
           \/ Assign(q) \/ Acquire(q) \/ NextStep(q) \/ Attempt(q) \/ Retry(q) \/ Resume(q)
           \/ End(q) \/ Die(q) \/ \E ok \in BOOLEAN : Return(q, ok)
           \/ Launch(q) \/ ReturnDag(q) \/ GiveUp(q) \/ Start(q)
           \/ \E s \in Steps(q), ok \in BOOLEAN : Collect(q, s, ok)
    BY <1>2, Cases
  <2>2. CASE q # r
    <3>1. CASE \/ Launch(q) \/ ReturnDag(q) \/ GiveUp(q) \/ Start(q)
               \/ \E s \in Steps(q), ok \in BOOLEAN : Collect(q, s, ok)
      <4>1. /\ engine'[r] = engine[r]
            /\ \/ UNCHANGED <<pc, writing>>
               \/ \E target \in {"SUCCESS", "FAILED"} : Check(q, target, "done")
        BY <1>0, <2>2, <3>1, EngineMoves
      <4>2. pc'[r] = pc[r]
        BY <1>0, <2>2, <4>1 DEF Check, Types
      <4>3. CASE ReturnDag(q) \/ GiveUp(q) \/ Start(q)
        BY <1>0, <4>1, <4>2, <4>3 DEF ReturnDag, GiveUp, Start, counted
      <4>4. CASE Launch(q)
        <5>1. outcome'[r] = outcome[r]
          BY <1>0, <2>2, <4>4, Launched
        <5>2. calls'[r] = calls[r]
          <6>1. Begin(q, Ready(q))
            BY <4>4 DEF Launch
          <6> QED
            BY <1>0, <2>2, <6>1, Begun
        <5> QED
          BY <1>0, <4>1, <4>2, <4>4, <5>1, <5>2 DEF Launch, counted
      <4>5. ASSUME NEW s \in Steps(q), NEW ok \in BOOLEAN, Collect(q, s, ok)
            PROVE  Quiet
        <5>1. /\ outcome'[r] = outcome[r] /\ completed'[r] = completed[r]
              /\ failed'[r] = failed[r]
          BY <1>0, <2>2, <4>5, Collected
        <5>2. Answer(q, s, ok)
          BY <4>5 DEF Collect
        <5>3. calls'[r] = calls[r]
          BY <1>0, <2>2, <5>2, Answered
        <5> QED
          BY <5>1, <5>3
      <4> QED
        BY <1>0, <3>1, <4>1, <4>2, <4>3, <4>4, <4>5
    <3>2. CASE \/ \E blocked \in BOOLEAN : Submit(q, blocked)
               \/ CancelCheck(q) \/ CancelAssign(q)
               \/ Assign(q) \/ Acquire(q) \/ NextStep(q) \/ Retry(q) \/ End(q)
      BY <1>0, <2>2, <3>2 DEF Submit, CancelCheck, CancelAssign, Assign, Acquire, NextStep,
                              Retry, End, Check, Types, worker, counted
    <3>3. CASE Attempt(q) \/ Resume(q) \/ Die(q) \/ \E ok \in BOOLEAN : Return(q, ok)
      <4>1. pc'[r] = pc[r] /\ UNCHANGED <<engine, counted>>
        BY <1>0, <2>2, <3>3 DEF Attempt, Resume, Die, Return, Check, Settle, Types
      <4>2. outcome'[r] = outcome[r]
        BY <1>0, <2>2, <3>3 DEF Attempt, Resume, Die, Return, Settle, Types
      <4>3. calls'[r] = calls[r]
        BY <1>0, <2>2, <3>3 DEF Attempt, Resume, Die, Return, Begin, Answer, Types
      <4> QED
        BY <1>0, <4>1, <4>2, <4>3 DEF counted
    <3> QED
      BY <2>1, <3>1, <3>2, <3>3
  <2>3. CASE q = r
    <3>1. CASE \E blocked \in BOOLEAN : Submit(r, blocked)
      BY <1>0, <3>1 DEF Submit, Types, counted
    <3>2. CASE CancelCheck(r) \/ CancelAssign(r) \/ Assign(r)
      BY <1>0, <3>2 DEF CancelCheck, CancelAssign, Assign, worker, counted
    <3>3. CASE Acquire(r)
      BY <1>0, <3>3 DEF Acquire, Check, Types, counted
    <3>4. CASE \/ NextStep(r) \/ Attempt(r) \/ Retry(r) \/ Resume(r) \/ End(r) \/ Die(r)
               \/ \E ok \in BOOLEAN : Return(r, ok)
      BY <1>0, <3>4 DEF NextStep, Attempt, Retry, Resume, End, Die, Return, At
    <3>5. CASE \/ Launch(r) \/ ReturnDag(r) \/ GiveUp(r) \/ Start(r)
               \/ \E s \in Steps(r), ok \in BOOLEAN : Collect(r, s, ok)
      <4>1. /\ engine'[r] = engine[r] \/ engine'[r] \in {"on", "broken"} \/ ReturnDag(r)
            /\ \/ UNCHANGED <<pc, writing>>
               \/ \E target \in {"SUCCESS", "FAILED"} : Check(r, target, "done")
        BY <1>0, <3>5, EngineMoves
      <4>2. pc'[r] \in {"none", "queued", "dag", "done"}
        BY <1>0, <4>1 DEF Check, Types
      <4>3. CASE ReturnDag(r) \/ GiveUp(r) \/ Start(r)
        BY <4>1, <4>2, <4>3 DEF ReturnDag, GiveUp, Start, counted
      <4>4. ASSUME Launch(r) \/ \E s \in Steps(r), ok \in BOOLEAN : Collect(r, s, ok)
            PROVE  engine'[r] # "ended"
        <5>1. engine[r] = "on"
          BY <4>4 DEF Launch, Collect
        <5>2. engine' = engine \/ Break(r)
          <6>1. CASE Launch(r)
            BY <6>1 DEF Launch
          <6>2. ASSUME NEW s \in Steps(r), NEW ok \in BOOLEAN, Collect(r, s, ok)
                PROVE  engine' = engine \/ Break(r)
            BY <6>2 DEF Collect, Complete, Miss
          <6> QED
            BY <4>4, <6>1, <6>2
        <5> QED
          BY <1>0, <5>1, <5>2 DEF Break, EngineStops, Types
      <4> QED
        BY <3>5, <4>2, <4>3, <4>4
    <3> QED
      BY <2>1, <2>3, <3>1, <3>2, <3>3, <3>4, <3>5
  <2> QED
    BY <2>2, <2>3
<1> QED
  BY <1>1, <1>2

(* Only its own thread, which leaves DAGs to the engine, cancels a node.   *)
LEMMA NextEngineAlone ==
  ASSUME PipelineAssumption, Inv, [Next]_vars
  PROVE  EngineAlone'
<1> SUFFICES ASSUME NEW r \in Dags
             PROVE  /\ pc'[r] \in {"none", "queued", "dag", "done"}
                    /\ \A s \in Steps(r) : outcome'[r][s] # "cancelled"
  BY DEF EngineAlone
<1>1. r \in Requests /\ Types /\ StatusFollows /\ EngineAlone
  BY DEF PipelineAssumption, Inv
<1>2. pc'[r] \in {"none", "queued", "dag", "done"}
  BY <1>1, DagMoves
<1>3. \A s \in Steps(r) : outcome[r][s] # "cancelled"
  BY <1>1 DEF EngineAlone
<1>4. CASE Launch(r)
  BY <1>1, <1>2, <1>3, <1>4, Launched
<1>5. ASSUME NEW s \in Steps(r), NEW ok \in BOOLEAN, Collect(r, s, ok), NEW n \in Steps(r)
      PROVE  outcome'[r][n] # "cancelled"
  <2>1. PICK S \in SUBSET Steps(r) :
          /\ \A m \in Steps(r) :
               outcome'[r][m] = IF m \in S THEN "failed"
                                ELSE IF m = s THEN outcome'[r][s] ELSE outcome[r][m]
          /\ s \notin S => outcome'[r][s] \in {"ok", "pending"}
    BY <1>1, <1>5, Collected
  <2> QED
    BY <1>3, <2>1
<1>6. CASE outcome'[r] = outcome[r]
  BY <1>2, <1>3, <1>6
<1> QED
  BY <1>1, <1>2, <1>4, <1>5, <1>6, DagMoves

(* A launched node is ready; a node is counted as completed behind a call  *)
(* that ended well; and nothing is taken out of the sets.                  *)
LEMMA NextSets ==
  ASSUME PipelineAssumption, Inv, [Next]_vars
  PROVE  SetsTell'
<1> SUFFICES ASSUME NEW r \in Dags, NEW n \in Steps(r)
             PROVE  /\ outcome'[r][n] = "ok" => n \in completed'[r]
                    /\ outcome'[r][n] = "failed" <=> n \in failed'[r]
                    /\ n \in completed'[r] => HasOk(r, n)'
                    /\ calls'[r][n] # <<>> => Deps[r][n] \subseteq completed'[r]
  BY DEF SetsTell
<1>1. r \in Requests /\ Types /\ StatusFollows /\ EngineAlone
  BY DEF PipelineAssumption, Inv
<1>2. /\ outcome[r][n] = "ok" => n \in completed[r]
      /\ outcome[r][n] = "failed" <=> n \in failed[r]
      /\ n \in completed[r] => HasOk(r, n)
      /\ calls[r][n] # <<>> => Deps[r][n] \subseteq completed[r]
  BY DEF Inv, SetsTell
<1>3. CASE Launch(r)
  <2>1. UNCHANGED counted /\ Begin(r, Ready(r))
    BY <1>3 DEF Launch
  <2>2. completed'[r] = completed[r] /\ failed'[r] = failed[r]
    BY <2>1 DEF counted
  <2>3. \/ outcome'[r][n] = outcome[r][n]
        \/ outcome[r][n] = "pending" /\ outcome'[r][n] = "running"
    BY <1>1, <1>3, Launched DEF Ready
  <2>4. HasOk(r, n) => HasOk(r, n)'
    BY <1>1, <2>1, Begun
  <2>5. calls'[r][n] = calls[r][n] \/ Deps[r][n] \subseteq completed[r]
    <3>1. CASE n \in Ready(r)
      BY <3>1 DEF Ready, AllCompleted
    <3>2. CASE n \notin Ready(r)
      BY <1>1, <2>1, <3>2, Begun
    <3> QED
      BY <3>1, <3>2
  <2> QED
    BY <1>2, <2>2, <2>3, <2>4, <2>5
<1>4. ASSUME NEW s \in Steps(r), NEW ok \in BOOLEAN, Collect(r, s, ok)
      PROVE  /\ outcome'[r][n] = "ok" => n \in completed'[r]
             /\ outcome'[r][n] = "failed" <=> n \in failed'[r]
             /\ n \in completed'[r] => HasOk(r, n)'
             /\ calls'[r][n] # <<>> => Deps[r][n] \subseteq completed'[r]
  <2>1. /\ completed'[r] \in {completed[r], completed[r] \cup {s}}
        /\ completed'[r] # completed[r] => ok
        /\ outcome'[r][s] = "ok" => s \in completed'[r]
    BY <1>1, <1>4, Collected
  <2>2. PICK S \in SUBSET Steps(r) :
          /\ failed'[r] = failed[r] \cup S
          /\ \A m \in S : m = s \/ outcome[r][m] = "pending"
          /\ \A m \in Steps(r) :
               outcome'[r][m] = IF m \in S THEN "failed"
                                ELSE IF m = s THEN outcome'[r][s] ELSE outcome[r][m]
          /\ s \notin S => outcome'[r][s] \in {"ok", "pending"}
    BY <1>1, <1>4, Collected
  <2>3. outcome[r][s] = "running" /\ Answer(r, s, ok)
    BY <1>4 DEF Collect
  <2>4. /\ HasOk(r, n) => HasOk(r, n)'
        /\ calls'[r][n] # <<>> => calls[r][n] # <<>>
        /\ ok => HasOk(r, s)'
    BY <1>1, <2>3, Answered
  <2>5. outcome'[r][n] = "ok" => n \in completed'[r]
    BY <1>2, <2>1, <2>2
  <2>6. outcome'[r][n] = "failed" <=> n \in failed'[r]
    BY <1>2, <2>2, <2>3
  <2>7. n \in completed'[r] => HasOk(r, n)'
    <3>1. CASE n \in completed[r]
      BY <1>2, <2>4, <3>1
    <3>2. CASE n \notin completed[r] /\ n \in completed'[r]
      <4>1. n = s /\ completed'[r] # completed[r]
        BY <2>1, <3>2
      <4> QED
        BY <2>1, <2>4, <4>1
    <3> QED
      BY <3>1, <3>2
  <2> QED
    BY <1>2, <2>1, <2>4, <2>5, <2>6, <2>7
<1>5. CASE /\ outcome'[r] = outcome[r] /\ calls'[r] = calls[r]
           /\ completed'[r] = completed[r] /\ failed'[r] = failed[r]
  BY <1>2, <1>5 DEF HasOk
<1> QED
  BY <1>1, <1>3, <1>4, <1>5, DagMoves

(* Two numbers neither of which exceeds the other.                         *)
LEMMA BetweenEquals ==
  ASSUME NEW a \in Nat, NEW b \in Nat, a <= b, a >= b
  PROVE  a = b
OBVIOUS

(* The loop ends when as many nodes are counted as there are, or none runs *)
(* and none is ready; behind its end nobody touches the nodes.             *)
LEMMA NextNothingLeft ==
  ASSUME PipelineAssumption, Inv, [Next]_vars
  PROVE  NothingRunnableIsLeft'
<1> SUFFICES ASSUME NEW r \in Dags, engine'[r] = "ended",
                    \A s \in completed'[r] : outcome'[r][s] = "ok",
                    NEW s \in Steps(r)
             PROVE  outcome'[r][s] \in {"ok", "failed"}
                      \/ \E d \in Deps[r][s] : outcome'[r][d] # "ok"
  BY DEF NothingRunnableIsLeft
<1>1. r \in Requests /\ Types /\ StatusFollows /\ EngineAlone /\ SetsTell
  BY DEF PipelineAssumption, Inv
<1>2. /\ outcome'[r] = outcome[r] /\ completed'[r] = completed[r] /\ failed'[r] = failed[r]
      /\ engine'[r] = engine[r] \/ ReturnDag(r)
  BY <1>1, DagMoves
<1>3. CASE engine'[r] = engine[r]
  BY <1>2, <1>3 DEF Inv, NothingRunnableIsLeft
<1>4. CASE ReturnDag(r)
  <2>1. outcome[r][s] \in Result \ {"cancelled"}
    BY <1>1 DEF Types, EngineAlone
  <2>2. CASE ~More(r)
    <3> DEFINE C == completed[r]
               F == failed[r]
    <3>1. C \subseteq Steps(r) /\ F \subseteq Steps(r) /\ C \cap F = {}
      BY <1>1, <1>2 DEF Types, SetsTell
    <3>2. IsFiniteSet(Steps(r)) /\ Cardinality(Steps(r)) = Plan[r] /\ Plan[r] \in Nat
      <4>1. Plan[r] \in Nat \ {0}
        BY <1>1 DEF PipelineAssumption
      <4>2. /\ IsFiniteSet(1 .. Plan[r])
            /\ Cardinality(1 .. Plan[r]) = IF 1 > Plan[r] THEN 0 ELSE Plan[r] - 1 + 1
        BY <4>1, FS_Interval, Plan[r] \in Int, 1 \in Int
      <4> QED
        BY <4>1, <4>2 DEF Steps
    <3>3. IsFiniteSet(C) /\ IsFiniteSet(F)
      BY <3>1, <3>2, FS_Subset
    <3>4. Cardinality(C) \in Nat /\ Cardinality(F) \in Nat /\ Cardinality(C \cap F) = 0
      <4>1. Cardinality(C \cap F) = 0
        BY <3>1, FS_EmptySet
      <4> QED
        BY <3>3, <4>1, FS_CardinalityType
    <3>5. Cardinality(C \cup F) = Cardinality(C) + Cardinality(F)
      <4>1. Cardinality(C \cup F) = Cardinality(C) + Cardinality(F) - Cardinality(C \cap F)
        BY <3>3, FS_Union
      <4> HIDE DEF C, F
      <4> QED
        BY <3>4, <4>1
    <3>6. C \cup F \in SUBSET Steps(r)
      BY <3>1
    <3>7. Cardinality(C) + Cardinality(F) >= Plan[r]
      BY <2>2, <3>2, <3>4 DEF More
    <3>8. Cardinality(C \cup F) <= Plan[r]
          /\ (Cardinality(Steps(r)) = Cardinality(C \cup F) => Steps(r) = C \cup F)
      BY <3>2, <3>6, FS_Subset
    <3>9. s \in C \cup F
      <4>1. Cardinality(C \cup F) \in Nat
        BY <3>4, <3>5
      <4>2. Cardinality(C \cup F) = Plan[r]
        BY <3>2, <3>5, <3>7, <3>8, <4>1, BetweenEquals
      <4>3. Steps(r) = C \cup F
        BY <3>2, <3>8, <4>2
      <4> QED
        BY <4>3
    <3> QED
      BY <1>1, <1>2, <3>9 DEF SetsTell
  <2>3. CASE Idle(r)
    <3>1. outcome[r][s] # "running" /\ s \notin Ready(r)
      BY <2>3 DEF Idle, Running
    <3>2. Deps[r][s] \subseteq Steps(r)
      BY <1>1 DEF PipelineAssumption
    <3>3. CASE outcome[r][s] = "pending"
      <4>1. PICK d \in Deps[r][s] : d \notin completed[r]
        BY <3>1, <3>3 DEF Ready, AllCompleted
      <4>2. outcome[r][d] # "ok"
        BY <1>1, <3>2, <4>1 DEF SetsTell
      <4> QED
        BY <1>2, <4>2
    <3> QED
      BY <1>2, <2>1, <3>1, <3>3 DEF Result
  <2> QED
    BY <1>4, <2>2, <2>3 DEF ReturnDag
<1> QED
  BY <1>2, <1>3, <1>4

-------------------------------------------------------------------------------
(* The theorems *)

(* Nothing has been submitted yet.                                         *)
LEMMA InitInv == PipelineAssumption /\ Init => Inv
<1> SUFFICES ASSUME PipelineAssumption, Init PROVE Inv
  OBVIOUS
<1>1. Types
  <2>1. <<>> \in Seq(CallState)
    OBVIOUS
  <2> QED
    BY <2>1 DEF Init, Types, Result, Status, Place, Engine
<1>2. StatusFollows
  BY DEF Init, StatusFollows, Follows, Assigned
<1>3. EngineAlone
  BY DEF Init, EngineAlone, PipelineAssumption
<1>4. SetsTell /\ NothingRunnableIsLeft
  BY DEF Init, SetsTell, NothingRunnableIsLeft, PipelineAssumption
<1> QED
  BY <1>1, <1>2, <1>3, <1>4 DEF Inv

(* The invariant of the pipeline holds in every state.                     *)
LEMMA InvHolds == Spec => []Inv
<1>1. Inv /\ [Next]_vars => Inv'
  <2> SUFFICES ASSUME Inv, [Next]_vars PROVE Inv'
    OBVIOUS
  <2>1. Types /\ StatusFollows
    BY DEF Inv
  <2> QED
    BY <2>1, PipelineAssumption, NextTypes, NextStatus, NextEngineAlone, NextSets,
       NextNothingLeft DEF Inv
<1> QED
  BY <1>1, InitInv, PipelineAssumption, PTL DEF Spec

(* execute_dag() calls no node before all it depends on has succeeded, for *)
(* any dependencies, retries and timeouts, and whichever report raises.    *)
THEOREM DependenciesComeFirst == Spec => []DependenciesFirst
<1>1. Inv => DependenciesFirst
  <2> SUFFICES ASSUME Inv, NEW r \in Dags, NEW s \in Steps(r), calls[r][s] # <<>>,
                      NEW d \in Deps[r][s]
               PROVE  HasOk(r, d)
    BY DEF DependenciesFirst, HasOk
  <2>1. d \in Steps(r)
    BY PipelineAssumption DEF PipelineAssumption
  <2> QED
    BY <2>1 DEF Inv, SetsTell
<1> QED
  BY <1>1, InvHolds, PTL

(* The loop of execute_dag() does not come to its end before every node    *)
(* that could run has run, unless it has taken a counted success back.     *)
THEOREM EngineFinishes == Spec => []NothingRunnableIsLeft
<1>1. Inv => NothingRunnableIsLeft
  BY DEF Inv
<1> QED
  BY <1>1, InvHolds, PTL

(* A thread that is through with its request leaves a final status behind, *)
(* however cancel_task() and its own unlocked transitions interleave, and  *)
(* one that an exception ended leaves no success or failure.               *)
THEOREM DoneStaysFinal == Spec => []DoneIsFinal
<1>1. Inv => DoneIsFinal
  <2> SUFFICES ASSUME Inv, NEW r \in Requests
               PROVE  /\ pc[r] = "done" /\ writing[r] = "NONE" => status[r] \in Terminal
                      /\ pc[r] = "died" => status[r] \in {"RUNNING", "CANCELLED"}
    BY DEF DoneIsFinal
  <2>1. Follows(r)
    BY DEF Inv, StatusFollows
  <2> QED
    BY <2>1 DEF Follows, Assigned, Outstanding
<1> QED
  BY <1>1, InvHolds, PTL
===============================================================================
