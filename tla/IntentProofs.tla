------------------------------ MODULE IntentProofs -----------------------------
(***************************************************************************)
(* The execution core: the recovery journal and the worker lane each       *)
(* alone, type correctness, the order of journal and effect, what COMPLETED *)
(* proves, what callers are told, what becomes of a published success, and *)
(* that the kernel keeps what IntentPromise promises.                      *)
(***************************************************************************)
EXTENDS IntentRuntime, SequenceTheorems, TLAPS

-------------------------------------------------------------------------------
(***************************************************************************)
(* The two halves the execution core is composed of, each on its own and   *)
(* for any number of intents, files, workers and failures: what a record   *)
(* of the recovery journal does to the file, whoever writes it, and that   *)
(* the worker lane stays well-typed and performs only what was sent.       *)
(***************************************************************************)

(* The recovery journal: one log_transition() *)

(* A lineage that is extended keeps the records it had.                    *)
LEMMA ExtendedKeepsRecords ==
  ASSUME NEW l \in Seq(IntentExecutionState), NEW e \in Seq(IntentExecutionState),
         NEW s, HasRecord(l, s)
  PROVE  HasRecord(l \o e, s)
<1>1. PICK k \in DOMAIN l : l[k] = s
  BY DEF HasRecord
<1>2. k \in DOMAIN (l \o e) /\ (l \o e)[k] = s
  BY <1>1, ConcatProperties
<1> QED
  BY <1>2 DEF HasRecord

(* The last state of an extension is one of the records.                   *)
LEMMA ExtensionIsRecorded ==
  ASSUME NEW l \in Seq(IntentExecutionState), NEW e \in Seq(IntentExecutionState),
         NEW s \in IntentExecutionState
  PROVE  HasRecord(l \o Append(e, s), s)
<1> DEFINE out == Append(e, s)
           k   == Len(l) + Len(out)
<1>1. out \in Seq(IntentExecutionState) /\ Len(out) = Len(e) + 1 /\ out[Len(out)] = s
  BY AppendProperties
<1>2. Len(l) \in Nat /\ Len(e) \in Nat
  BY LenProperties
<1>3. k \in DOMAIN (l \o out) /\ (l \o out)[k] = s
  BY <1>1, <1>2, ConcatProperties
<1> QED
  BY <1>3 DEF HasRecord

(* What is outgoing is a lineage extension for every intent.               *)
LEMMA OutgoingType ==
  ASSUME JournalTypeOK, NEW i \in Intents, NEW s \in IntentExecutionState
  PROVE  Outgoing(i, s) \in [Intents -> Seq(IntentExecutionState)]
BY AppendProperties DEF JournalTypeOK, Outgoing

(* A flush only adds to the lineages, in each of its outcomes.             *)
LEMMA FlushExtends ==
  ASSUME JournalTypeOK, NEW i \in Intents, NEW s \in IntentExecutionState,
         Flush(i, s)
  PROVE  \E e \in [Intents -> Seq(IntentExecutionState)] :
            wal' = [j \in Intents |-> wal[j] \o e[j]]
<1> DEFINE out == Outgoing(i, s)
<1>1. out \in [Intents -> Seq(IntentExecutionState)]
  BY OutgoingType
<1>2. CASE wal' = [j \in Intents |-> wal[j] \o out[j]]
  BY <1>1, <1>2
<1>3. ASSUME NEW first \in Intents, out[first] # <<>>,
             wal' = [j \in Intents |->
                       wal[j] \o IF j = first THEN Tail(out[j]) ELSE out[j]]
      PROVE  \E e \in [Intents -> Seq(IntentExecutionState)] :
                wal' = [j \in Intents |-> wal[j] \o e[j]]
  <2> DEFINE e == [j \in Intents |-> IF j = first THEN Tail(out[j]) ELSE out[j]]
  <2>1. Tail(out[first]) \in Seq(IntentExecutionState)
    BY <1>1, <1>3, HeadTailProperties
  <2>2. e \in [Intents -> Seq(IntentExecutionState)]
    BY <1>1, <2>1
  <2>3. wal' = [j \in Intents |-> wal[j] \o e[j]]
    BY <1>3
  <2> QED
    BY <2>2, <2>3
<1> QED
  BY <1>2, <1>3 DEF Flush

(* log_transition() keeps the journal well-typed, returning or raising.    *)
LEMMA LogType ==
  ASSUME WalFaultsAssumption, JournalTypeOK,
         NEW i \in Intents, NEW s \in IntentExecutionState,
         LogReturns(i, s) \/ LogRaises(i, s)
  PROVE  JournalTypeOK'
<1>1. ASSUME Flush(i, s)
      PROVE  /\ wal' \in [Intents -> Seq(IntentExecutionState)]
             /\ buffer' \in [Intents -> Seq(IntentExecutionState)]
             /\ tail' \in {"whole", "partial", "torn"}
             /\ garbled' \in BOOLEAN
  <2>1. PICK e \in [Intents -> Seq(IntentExecutionState)] :
           wal' = [j \in Intents |-> wal[j] \o e[j]]
    BY <1>1, FlushExtends
  <2>2. \A j \in Intents : wal[j] \o e[j] \in Seq(IntentExecutionState)
    BY ConcatProperties DEF JournalTypeOK
  <2>3. buffer' = NoLines /\ tail' = "whole" /\ garbled' \in {garbled, TRUE}
    BY <1>1 DEF Flush
  <2>4. NoLines \in [Intents -> Seq(IntentExecutionState)]
    BY DEF NoLines
  <2> QED
    BY <2>1, <2>2, <2>3, <2>4 DEF JournalTypeOK
<1>2. CASE LogReturns(i, s)
  BY <1>1, <1>2 DEF LogReturns, JournalTypeOK
<1>3. CASE LogRaises(i, s)
  <2>1. walFaults' \in 0 .. MaxWalFaults
    BY <1>3 DEF LogRaises, JournalTypeOK, WalFaultsAssumption
  <2>2. CASE Flush(i, s)
    BY <1>1, <2>1, <2>2 DEF JournalTypeOK
  <2>3. CASE /\ buffer' = Outgoing(i, s)
             /\ tail' \in IF tail = "torn" THEN {"torn"} ELSE {tail, "partial"}
             /\ UNCHANGED <<wal, garbled>>
    BY <2>1, <2>3, OutgoingType DEF JournalTypeOK
  <2> QED
    BY <1>3, <2>2, <2>3 DEF LogRaises
<1> QED
  BY <1>2, <1>3

(* No record is ever removed by log_transition(), returning or raising.    *)
LEMMA LogKeepsRecords ==
  ASSUME JournalTypeOK, NEW i \in Intents, NEW s \in IntentExecutionState,
         LogReturns(i, s) \/ LogRaises(i, s),
         NEW j \in Intents, NEW r, HasRecord(wal[j], r)
  PROVE  HasRecord(wal'[j], r)
<1>1. Flush(i, s) \/ UNCHANGED wal
  BY DEF LogReturns, LogRaises
<1>2. CASE Flush(i, s)
  <2>1. PICK e \in [Intents -> Seq(IntentExecutionState)] :
           wal' = [k \in Intents |-> wal[k] \o e[k]]
    BY <1>2, FlushExtends
  <2>2. wal'[j] = wal[j] \o e[j]
    BY <2>1
  <2>3. wal[j] \in Seq(IntentExecutionState) /\ e[j] \in Seq(IntentExecutionState)
    BY <2>1 DEF JournalTypeOK
  <2> QED
    BY <2>2, <2>3, ExtendedKeepsRecords
<1>3. CASE UNCHANGED wal
  BY <1>3
<1> QED
  BY <1>1, <1>2, <1>3

(* A log_transition() that returns has made its record durable, provided   *)
(* no torn line was waiting at the end of the file.                        *)
LEMMA LogIsDurable ==
  ASSUME JournalTypeOK, NEW i \in Intents, NEW s \in IntentExecutionState,
         LogReturns(i, s), tail # "torn"
  PROVE  HasRecord(wal'[i], s)
<1>1. wal' = [j \in Intents |-> wal[j] \o Outgoing(i, s)[j]]
  BY DEF LogReturns, Flush
<1>2. wal'[i] = wal[i] \o Append(buffer[i], s)
  BY <1>1 DEF Outgoing, JournalTypeOK
<1>3. wal[i] \in Seq(IntentExecutionState) /\ buffer[i] \in Seq(IntentExecutionState)
  BY DEF JournalTypeOK
<1> QED
  BY <1>2, <1>3, ExtensionIsRecorded

(* A torn line is left by a crash only: log_transition() never makes one,  *)
(* and removes it when it returns.                                         *)
LEMMA LogNeverTears ==
  ASSUME JournalTypeOK, NEW i \in Intents, NEW s \in IntentExecutionState
  PROVE  /\ LogReturns(i, s) => tail' # "torn"
         /\ LogRaises(i, s) /\ tail # "torn" => tail' # "torn"
BY DEF LogReturns, LogRaises, Flush, JournalTypeOK

(* A crash keeps the journal well-typed and every lineage as it is.        *)
LEMMA CrashType ==
  ASSUME JournalTypeOK, JournalCrash
  PROVE  JournalTypeOK' /\ wal' = wal
BY DEF JournalTypeOK, JournalCrash, NoLines

-------------------------------------------------------------------------------
(* The worker lane *)

Request == [intent : Intents, answer : Answers]

WorkerType == [state : WorkerState, alive : BOOLEAN, inbox : Seq(Intents),
               written : BOOLEAN, outbox : Seq(Request), reading : BOOLEAN]

(* The part of LaneTypeOK that the steps of the supervisor touch.          *)
LEMMA WorkersType == LaneTypeOK => workers \in [Workers -> WorkerType]
BY DEF LaneTypeOK, WorkerType, Request

(* One worker's record is replaced by a well-typed one.                    *)
LEMMA ReplaceWorker ==
  ASSUME LaneTypeOK, NEW w \in Workers, NEW r \in WorkerType,
         workers' = [workers EXCEPT ![w] = r],
         sup' \in 0 .. MaxDeaths + 1, deaths' \in 0 .. MaxDeaths,
         UNCHANGED storage
  PROVE  LaneTypeOK'
BY DEF LaneTypeOK, WorkerType, Request, storage

(* The record of a worker that was never started is one of a worker.       *)
LEMMA NoWorkerType ==
  /\ NoWorker \in WorkerType
  /\ [NoWorker EXCEPT !.state = "DEAD"] \in WorkerType
  /\ [NoWorker EXCEPT !.state = "BOOTING", !.alive = TRUE, !.reading = TRUE]
        \in WorkerType
<1>1. NoWorker \in WorkerType
  BY DEF NoWorker, WorkerType, WorkerState
<1> QED
  BY <1>1 DEF WorkerType, WorkerState

(* A worker that is launched, or fails to be, is well-typed.               *)
LEMMA LaunchType ==
  ASSUME LaneAssumption, LaneTypeOK, NEW w, Launch(w)
  PROVE  LaneTypeOK' /\ sup' \in 0 .. MaxDeaths + 1
<1>1. w \in Workers /\ sup' \in 0 .. MaxDeaths + 1
  BY DEF Launch, Workers, LaneAssumption
<1>2. deaths' \in 0 .. MaxDeaths
  BY DEF Launch, LaneTypeOK, LaneAssumption
<1>3. PICK r \in WorkerType : workers' = [workers EXCEPT ![w] = r]
  BY NoWorkerType DEF Launch
<1>4. UNCHANGED storage
  BY DEF Launch
<1> QED
  BY <1>1, <1>2, <1>3, <1>4, ReplaceWorker

(* A request put into a pipe is one of the intents.                        *)
LEMMA SendType ==
  ASSUME LaneTypeOK, NEW w, NEW i \in Intents, SendFrame(w, i),
         UNCHANGED <<sup, deaths, storage>>
  PROVE  LaneTypeOK'
<1>1. workers \in [Workers -> WorkerType]
  BY WorkersType
<1>2. CASE w \in Workers /\ workers[w].alive
  <2> DEFINE r == [workers[w] EXCEPT !.inbox = Append(@, i)]
  <2>1. Append(workers[w].inbox, i) \in Seq(Intents)
    BY <1>1, <1>2, AppendProperties DEF WorkerType
  <2>2. r \in WorkerType
    BY <1>1, <1>2, <2>1 DEF WorkerType
  <2>3. workers' = [workers EXCEPT ![w] = r]
    BY <1>1, <1>2 DEF SendFrame
  <2> QED
    BY <1>2, <2>2, <2>3, ReplaceWorker DEF LaneTypeOK
<1>3. CASE ~(w \in Workers /\ workers[w].alive)
  <2>1. workers' = workers
    BY <1>1, <1>3 DEF SendFrame
  <2> QED
    BY <2>1 DEF LaneTypeOK, storage
<1> QED
  BY <1>2, <1>3

(* The steps of supervisor and process that touch one worker's record and  *)
(* no file.                                                                *)
LEMMA SupervisionType ==
  ASSUME LaneAssumption, LaneTypeOK, NEW w \in Workers,
         \/ Handshake(w) \/ HeartbeatTimeout(w) \/ FinishStop(w)
         \/ ReadEOF(w) \/ ProcessDies(w)
  PROVE  LaneTypeOK'
<1>1. workers \in [Workers -> WorkerType]
  BY WorkersType
<1>2. UNCHANGED <<sup, storage>>
  BY DEF Handshake, HeartbeatTimeout, FinishStop, ReadEOF, ProcessDies
<1>3. sup' \in 0 .. MaxDeaths + 1 /\ deaths' \in 0 .. MaxDeaths
  BY <1>2 DEF Handshake, HeartbeatTimeout, FinishStop, ReadEOF, ProcessDies,
              LaneTypeOK, LaneAssumption
<1>4. \E r \in WorkerType : workers' = [workers EXCEPT ![w] = r]
  <2>1. CASE Handshake(w)
    <3>1. [workers[w] EXCEPT !.state = "READY"] \in WorkerType
      BY <1>1 DEF WorkerType, WorkerState
    <3> QED
      BY <2>1, <3>1 DEF Handshake
  <2>2. CASE HeartbeatTimeout(w)
    <3>1. [workers[w] EXCEPT !.state = "TERMINATING"] \in WorkerType
      BY <1>1 DEF WorkerType, WorkerState
    <3> QED
      BY <2>2, <3>1 DEF HeartbeatTimeout
  <2>3. CASE FinishStop(w)
    BY <2>3, NoWorkerType DEF FinishStop
  <2>4. CASE ReadEOF(w)
    <3>1. [workers[w] EXCEPT !.state = "DEAD", !.reading = FALSE] \in WorkerType
      BY <1>1 DEF WorkerType, WorkerState
    <3> QED
      BY <2>4, <3>1 DEF ReadEOF
  <2>5. CASE ProcessDies(w)
    <3>1. <<>> \in Seq(Intents)
      OBVIOUS
    <3>2. [workers[w] EXCEPT !.alive = FALSE, !.inbox = <<>>, !.written = FALSE]
             \in WorkerType
      BY <1>1, <3>1 DEF WorkerType
    <3> QED
      BY <2>5, <3>2 DEF ProcessDies
  <2> QED
    BY <2>1, <2>2, <2>3, <2>4, <2>5
<1> QED
  BY <1>2, <1>3, <1>4, ReplaceWorker DEF storage

(* Taking a frame leaves the rest of the pipe, and the frame is an answer  *)
(* to one of the intents.                                                  *)
LEMMA TakeFrameType ==
  ASSUME LaneTypeOK, NEW w \in Workers, TakeFrame(w)
  PROVE  LaneTypeOK' /\ Head(workers[w].outbox) \in Request
<1>1. workers \in [Workers -> WorkerType]
  BY WorkersType
<1>2. workers[w].outbox \in Seq(Request) /\ workers[w].outbox # <<>>
  BY <1>1 DEF TakeFrame, WorkerType
<1>3. /\ Head(workers[w].outbox) \in Request
      /\ Tail(workers[w].outbox) \in Seq(Request)
  BY <1>2, HeadTailProperties
<1> DEFINE r == [workers[w] EXCEPT !.outbox = Tail(@),
                                   !.reading = workers[w].state # "TERMINATING"]
<1>4. r \in WorkerType
  BY <1>1, <1>3 DEF WorkerType
<1>5. workers' = [workers EXCEPT ![w] = r]
  BY <1>1 DEF TakeFrame
<1> QED
  BY <1>3, <1>4, <1>5, ReplaceWorker DEF TakeFrame, LaneTypeOK, storage

(* What a working process has at the head of its pipe.                     *)
LEMMA WorkingOn ==
  ASSUME LaneTypeOK, NEW w \in Workers, Working(w)
  PROVE  /\ Head(workers[w].inbox) \in Intents
         /\ Head(workers[w].inbox) = workers[w].inbox[1]
         /\ 1 \in DOMAIN workers[w].inbox
         /\ Tail(workers[w].inbox) \in Seq(Intents)
<1>1. workers[w].inbox \in Seq(Intents) /\ workers[w].inbox # <<>>
  BY DEF Working, LaneTypeOK
<1> QED
  BY <1>1, HeadTailProperties, EmptySeq, LenProperties

(* An answered request leaves the pipe and an answer enters the other.     *)
LEMMA ReplyType ==
  ASSUME LaneTypeOK, NEW w \in Workers, Working(w), NEW r \in Answers, Reply(w, r),
         UNCHANGED <<sup, deaths, storage>>
  PROVE  LaneTypeOK'
<1>1. workers \in [Workers -> WorkerType]
  BY WorkersType
<1>2. /\ Head(workers[w].inbox) \in Intents
      /\ Tail(workers[w].inbox) \in Seq(Intents)
  BY WorkingOn
<1> DEFINE m   == [intent |-> Head(workers[w].inbox), answer |-> r]
           new == [workers[w] EXCEPT !.inbox = Tail(@), !.written = FALSE,
                                     !.outbox = Append(@, m)]
<1>3. m \in Request
  BY <1>2 DEF Request
<1>4. Append(workers[w].outbox, m) \in Seq(Request)
  BY <1>1, <1>3, AppendProperties DEF WorkerType
<1>5. new \in WorkerType
  BY <1>1, <1>2, <1>4 DEF WorkerType
<1>6. workers' = [workers EXCEPT ![w] = new]
  BY <1>1 DEF Reply
<1> QED
  BY <1>5, <1>6, ReplaceWorker DEF LaneTypeOK, storage

(* A refused request and a reported write.                                 *)
LEMMA AnswerType ==
  ASSUME LaneTypeOK, NEW w \in Workers, RefuseRequest(w) \/ ReplyToWrite(w)
  PROVE  LaneTypeOK'
<1>1. Working(w) /\ UNCHANGED <<sup, deaths, storage>>
  BY DEF RefuseRequest, ReplyToWrite
<1>2. \E r \in Answers : Reply(w, r)
  BY DEF RefuseRequest, ReplyToWrite, Answers
<1> QED
  BY <1>1, <1>2, ReplyType

(* A write leaves chunks of contents in its file.                          *)
LEMMA WriteType ==
  ASSUME LaneAssumption, LaneTypeOK, NEW w \in Workers, WriteTarget(w)
  PROVE  /\ LaneTypeOK'
         /\ performed' = performed \cup {Head(workers[w].inbox)}
         /\ workers' = [workers EXCEPT ![w].written = TRUE]
<1> DEFINE i   == Head(workers[w].inbox)
           t   == Target[i]
           now == IF i \in Appends THEN Append(file[t], Bytes[i]) ELSE <<Bytes[i]>>
<1>1. i \in Intents
  BY WorkingOn DEF WriteTarget
<1>2. t \in Paths /\ Bytes[i] \in Contents
  BY <1>1 DEF LaneAssumption
<1>3. Append(file[t], Bytes[i]) \in Seq(Contents) /\ <<Bytes[i]>> \in Seq(Contents)
  BY <1>2, AppendProperties DEF LaneTypeOK
<1>4. now \in Seq(Contents)
  BY <1>3
<1>5. /\ file' = [file EXCEPT ![t] = now]
      /\ landed' = [landed EXCEPT ![t] =
                      IF now = <<Bytes[i]>> THEN @ \cup {Bytes[i]} ELSE @]
      /\ performed' = performed \cup {i}
      /\ workers' = [workers EXCEPT ![w].written = TRUE]
      /\ UNCHANGED <<sup, deaths>>
  BY DEF WriteTarget
<1>6. file' \in [Paths -> Seq(Contents)]
  BY <1>4, <1>5 DEF LaneTypeOK
<1>7. landed' \in [Paths -> SUBSET Contents]
  <2>1. landed[t] \cup {Bytes[i]} \in SUBSET Contents
    BY <1>2 DEF LaneTypeOK
  <2> HIDE DEF t, now
  <2> QED
    BY <1>2, <1>5, <2>1 DEF LaneTypeOK
<1>8. performed' \subseteq Intents
  BY <1>1, <1>5 DEF LaneTypeOK
<1>9. workers' \in [Workers -> WorkerType]
  <2>1. workers \in [Workers -> WorkerType]
    BY WorkersType
  <2>2. [workers[w] EXCEPT !.written = TRUE] \in WorkerType
    BY <2>1 DEF WorkerType
  <2> QED
    BY <1>5, <2>1, <2>2
<1> QED
  BY <1>5, <1>6, <1>7, <1>8, <1>9 DEF LaneTypeOK, WorkerType, Request

(* The end of the kernel process leaves no worker.                         *)
LEMMA LaneCrashType ==
  ASSUME LaneAssumption, LaneTypeOK, LaneCrash
  PROVE  LaneTypeOK'
<1>1. workers' \in [Workers -> WorkerType] /\ sup' \in 0 .. MaxDeaths + 1
  BY NoWorkerType DEF LaneCrash, LaneAssumption
<1> QED
  BY <1>1 DEF LaneCrash, LaneTypeOK, WorkerType, Request, storage

-------------------------------------------------------------------------------
(* What the pipes hold *)

(* A worker starts with an empty pipe, and the other pipes stay.           *)
LEMMA LaunchKeepsPipes ==
  ASSUME LaneTypeOK, NEW u, Launch(u)
  PROVE  \A w \in Workers : workers'[w].inbox = workers[w].inbox
                             \/ workers'[w].inbox = <<>>
<1>1. workers \in [Workers -> WorkerType]
  BY WorkersType
<1>2. PICK r \in WorkerType : r.inbox = <<>> /\ workers' = [workers EXCEPT ![u] = r]
  <2>1. NoWorker.inbox = <<>>
    BY DEF NoWorker
  <2>2. [NoWorker EXCEPT !.state = "DEAD"].inbox = <<>>
    BY <2>1, NoWorkerType DEF WorkerType
  <2>3. [NoWorker EXCEPT !.state = "BOOTING", !.alive = TRUE, !.reading = TRUE].inbox = <<>>
    BY <2>1, NoWorkerType DEF WorkerType
  <2> QED
    BY <2>2, <2>3, NoWorkerType DEF Launch
<1> QED
  BY <1>1, <1>2

(* A request is appended to one pipe; no other pipe changes.               *)
LEMMA SendAddsOne ==
  ASSUME LaneTypeOK, NEW u, NEW i \in Intents, SendFrame(u, i),
         NEW w \in Workers, NEW k \in DOMAIN workers'[w].inbox
  PROVE  \/ workers'[w].inbox[k] = i
         \/ k \in DOMAIN workers[w].inbox /\ workers'[w].inbox[k] = workers[w].inbox[k]
<1>1. workers \in [Workers -> WorkerType]
  BY WorkersType
<1>2. \/ workers'[w].inbox = workers[w].inbox
      \/ workers'[w].inbox = Append(workers[w].inbox, i)
  BY <1>1 DEF SendFrame, WorkerType
<1>3. CASE workers'[w].inbox = workers[w].inbox
  BY <1>3
<1>4. CASE workers'[w].inbox = Append(workers[w].inbox, i)
  <2> DEFINE q == workers[w].inbox
  <2>1. q \in Seq(Intents)
    BY <1>1 DEF WorkerType
  <2>2. DOMAIN q = 1 .. Len(q) /\ Len(q) \in Nat
    BY <2>1, LenProperties
  <2>3. Append(q, i) \in Seq(Intents) /\ Len(Append(q, i)) = Len(q) + 1
    BY <2>1, AppendProperties
  <2>4. k \in 1 .. Len(q) + 1
    BY <1>4, <2>3, LenProperties
  <2>5. CASE k \in 1 .. Len(q)
    BY <1>4, <2>1, <2>2, <2>5, AppendProperties
  <2>6. CASE k = Len(q) + 1
    BY <1>4, <2>1, <2>6, AppendProperties
  <2> QED
    BY <2>2, <2>4, <2>5, <2>6
<1> QED
  BY <1>2, <1>3, <1>4

(* The steps of a worker and its supervisor add nothing to a pipe: what is *)
(* in it afterwards was in it before.                                      *)
LEMMA PipesOnlyShrink ==
  ASSUME LaneTypeOK, NEW u \in Workers,
         \/ Handshake(u) \/ HeartbeatTimeout(u) \/ FinishStop(u) \/ ReadEOF(u)
         \/ TakeFrame(u) \/ RefuseRequest(u) \/ WriteTarget(u) \/ ReplyToWrite(u)
         \/ ProcessDies(u),
         NEW w \in Workers
  PROVE  \/ workers'[w].inbox = workers[w].inbox
         \/ workers'[w].inbox = <<>>
         \/ workers[w].inbox # <<>> /\ workers'[w].inbox = Tail(workers[w].inbox)
<1>1. workers \in [Workers -> WorkerType]
  BY WorkersType
<1>2. CASE Handshake(u) \/ HeartbeatTimeout(u) \/ ReadEOF(u) \/ TakeFrame(u) \/ WriteTarget(u)
  <2>1. CASE Handshake(u)
    BY <1>1, <2>1 DEF Handshake, WorkerType
  <2>2. CASE HeartbeatTimeout(u)
    BY <1>1, <2>2 DEF HeartbeatTimeout, WorkerType
  <2>3. CASE ReadEOF(u)
    BY <1>1, <2>3 DEF ReadEOF, WorkerType
  <2>4. CASE TakeFrame(u)
    BY <1>1, <2>4 DEF TakeFrame, WorkerType
  <2>5. CASE WriteTarget(u)
    <3>1. workers' = [workers EXCEPT ![u].written = TRUE]
      BY <2>5 DEF WriteTarget
    <3> QED
      BY <1>1, <3>1 DEF WorkerType
  <2> QED
    BY <1>2, <2>1, <2>2, <2>3, <2>4, <2>5
<1>3. CASE FinishStop(u)
  <2>1. NoWorker.inbox = <<>>
    BY DEF NoWorker
  <2>2. [NoWorker EXCEPT !.state = "DEAD"].inbox = <<>>
    BY <2>1, NoWorkerType DEF WorkerType
  <2> QED
    BY <1>1, <1>3, <2>2 DEF FinishStop
<1>4. CASE ProcessDies(u)
  BY <1>1, <1>4 DEF ProcessDies, WorkerType
<1>5. CASE RefuseRequest(u) \/ ReplyToWrite(u)
  <2>1. Working(u) /\ \E r \in Answers : Reply(u, r)
    BY <1>5 DEF RefuseRequest, ReplyToWrite, Answers
  <2> QED
    BY <1>1, <2>1 DEF Working, Reply, WorkerType
<1> QED
  BY <1>2, <1>3, <1>4, <1>5

-------------------------------------------------------------------------------
(***************************************************************************)
(* Type correctness of IntentRuntime, and the order of journal and effect, *)
(* for any intents, files, workers and bounds on the faults, and whether   *)
(* or not recovery and dispatch are kept apart.                            *)
(***************************************************************************)

Steps == {"idle"} \cup InCall \cup Ended

USE DEF Steps

-------------------------------------------------------------------------------
(* Types of the calls *)

(* A journaled transition of a call keeps every variable well-typed.       *)
LEMMA TransitionType ==
  ASSUME DispatchTypeOK, NEW i \in Intents, NEW from,
         NEW s \in IntentExecutionState, NEW next \in Steps, NEW onRaise \in Steps,
         Transition(i, from, s, next, onRaise)
  PROVE  DispatchTypeOK'
<1>1. LogReturns(i, s) \/ LogRaises(i, s)
  BY DEF Transition
<1>2. JournalTypeOK'
  BY <1>1, LogType, WalFaultsAssumption DEF DispatchTypeOK
<1>3. pc' \in [Intents -> Steps]
  BY DEF Transition, Goto, DispatchTypeOK, CallTypeOK
<1>4. mem' \in [Intents -> IntentExecutionState]
  BY DEF Transition, DispatchTypeOK, CallTypeOK
<1>5. UNCHANGED <<laneVars, via, answer, attested, emitFaults>>
  BY DEF Transition
<1> QED
  BY <1>2, <1>3, <1>4, <1>5
  DEF DispatchTypeOK, CallTypeOK, LaneTypeOK, laneVars

(* A failing bus is counted within its bound.                              *)
LEMMA EmitRaisesType ==
  ASSUME CallTypeOK, EmitRaises
  PROVE  emitFaults' \in 0 .. MaxEmitFaults
BY DispatchAssumption DEF EmitRaises, CallTypeOK, DispatchAssumption

(* So does an event it publishes.                                          *)
LEMMA EmitType ==
  ASSUME DispatchTypeOK, NEW i \in Intents, NEW from,
         NEW next \in Steps, NEW onRaise \in Steps,
         Emit(i, from, next, onRaise)
  PROVE  DispatchTypeOK'
<1>1. UNCHANGED <<journalVars, laneVars, mem, via, answer, attested>>
  BY DEF Emit, EmitRaises
<1>2. pc' \in [Intents -> Steps]
  BY DEF Emit, Goto, DispatchTypeOK, CallTypeOK
<1>3. emitFaults' \in 0 .. MaxEmitFaults
  BY EmitRaisesType DEF Emit, DispatchTypeOK, CallTypeOK
<1> QED
  BY <1>1, <1>2, <1>3
  DEF DispatchTypeOK, CallTypeOK, LaneTypeOK, laneVars, JournalTypeOK, journalVars

(* And so does a verification event.                                       *)
LEMMA EmitVerificationType ==
  ASSUME DispatchTypeOK, NEW i \in Intents, NEW from, NEW success \in BOOLEAN,
         NEW next \in Steps, NEW onRaise \in Steps,
         EmitVerification(i, from, success, next, onRaise)
  PROVE  DispatchTypeOK'
<1>1. UNCHANGED <<journalVars, laneVars, mem, via, answer>>
  BY DEF EmitVerification
<1>2. pc' \in [Intents -> Steps]
  BY DEF EmitVerification, Goto, DispatchTypeOK, CallTypeOK
<1>3. emitFaults' \in 0 .. MaxEmitFaults
  BY EmitRaisesType DEF EmitVerification, DispatchTypeOK, CallTypeOK
<1>4. attested' \in [Intents -> SUBSET BOOLEAN]
  <2>1. attested[i] \cup {success} \in SUBSET BOOLEAN
    BY DEF DispatchTypeOK, CallTypeOK
  <2> QED
    BY <2>1 DEF EmitVerification, EmitRaises, DispatchTypeOK, CallTypeOK
<1> QED
  BY <1>1, <1>2, <1>3, <1>4
  DEF DispatchTypeOK, CallTypeOK, LaneTypeOK, laneVars, JournalTypeOK, journalVars

(* A step that only moves the call on.                                     *)
LEMMA MoveType ==
  ASSUME DispatchTypeOK, NEW i \in Intents, NEW from, NEW to \in Steps,
         Goto(i, from, to), UNCHANGED <<callRest, laneVars, answer, via>>
  PROVE  DispatchTypeOK'
<1>1. pc' \in [Intents -> Steps]
  BY DEF Goto, DispatchTypeOK, CallTypeOK
<1> QED
  BY <1>1 DEF DispatchTypeOK, CallTypeOK, LaneTypeOK, laneVars,
              JournalTypeOK, journalVars, callRest

(* The start of a call.                                                    *)
LEMMA StartType ==
  ASSUME DispatchTypeOK, NEW i \in Intents, Refuse(i) \/ EncodeFails(i) \/ Submit(i)
  PROVE  DispatchTypeOK'
<1>1. CASE Refuse(i)
  BY <1>1, TransitionType DEF Refuse, InCall, Ended, IntentExecutionState
<1>2. CASE Submit(i)
  BY <1>2, TransitionType DEF Submit, InCall, Ended, IntentExecutionState
<1>3. CASE EncodeFails(i)
  BY <1>3, MoveType DEF EncodeFails, Ended
<1> QED
  BY <1>1, <1>2, <1>3

(* Each later step of a call.                                              *)
LEMMA ContinueType ==
  ASSUME DispatchTypeOK, NEW i \in Intents, Continue(i)
  PROVE  DispatchTypeOK'
<1> USE DEF InCall, Ended, IntentExecutionState
<1>1. CASE Dispatch(i)
  BY <1>1, TransitionType DEF Dispatch
<1>2. CASE Announce(i)
  BY <1>2, EmitType DEF Announce
<1>3. CASE Run(i)
  BY <1>3, TransitionType DEF Run
<1>4. CASE EnsureWorker(i)
  <2>1. pc' \in [Intents -> Steps]
    BY <1>4 DEF EnsureWorker, Goto, DispatchTypeOK, CallTypeOK
  <2>2. LaneTypeOK' /\ sup' \in 0 .. MaxDeaths + 1
    <3>1. CASE UNCHANGED laneVars
      BY <3>1 DEF laneVars, LaneTypeOK, DispatchTypeOK
    <3>2. CASE Launch(sup + 1)
      BY <3>2, LaunchType, LaneAssumption DEF DispatchTypeOK
    <3> QED
      BY <1>4, <3>1, <3>2 DEF EnsureWorker
  <2>3. via' \in [Intents -> 0 .. MaxDeaths + 1]
    BY <1>4, <2>2 DEF EnsureWorker, DispatchTypeOK, CallTypeOK
  <2>4. UNCHANGED <<callRest, answer>>
    BY <1>4 DEF EnsureWorker
  <2> QED
    BY <2>1, <2>2, <2>3, <2>4
    DEF DispatchTypeOK, CallTypeOK, JournalTypeOK, journalVars, callRest
<1>5. CASE SendRequest(i)
  <2>1. pc' \in [Intents -> Steps]
    BY <1>5 DEF SendRequest, Goto, DispatchTypeOK, CallTypeOK
  <2>2. LaneTypeOK'
    BY <1>5, SendType DEF SendRequest, DispatchTypeOK
  <2>3. UNCHANGED <<callRest, answer, via>>
    BY <1>5 DEF SendRequest
  <2> QED
    BY <2>1, <2>2, <2>3
    DEF DispatchTypeOK, CallTypeOK, JournalTypeOK, journalVars, callRest
<1>6. CASE SeesDeath(i)
  BY <1>6, MoveType DEF SeesDeath
<1>7. CASE TimesOut(i)
  BY <1>7, MoveType DEF TimesOut
<1>8. CASE GotResult(i)
  BY <1>8, MoveType DEF GotResult
<1>9. CASE CallAdapter(i)
  <2>1. pc' \in [Intents -> Steps]
    BY <1>9 DEF CallAdapter, Goto, DispatchTypeOK, CallTypeOK
  <2>2. performed' \subseteq Intents
    BY <1>9 DEF CallAdapter, DispatchTypeOK, LaneTypeOK
  <2> QED
    BY <1>9, <2>1, <2>2
    DEF CallAdapter, DispatchTypeOK, CallTypeOK, LaneTypeOK, JournalTypeOK,
        journalVars, callRest
<1>10. CASE AdapterReturns(i)
  BY <1>10, MoveType DEF AdapterReturns
<1>11. CASE Verify(i)
  BY <1>11, TransitionType DEF Verify
<1>12. CASE EmitMutated(i)
  BY <1>12, EmitType DEF EmitMutated
<1>13. CASE Observe(i)
  BY <1>13, EmitType DEF Observe
<1>14. CASE Attest(i)
  BY <1>14, EmitVerificationType DEF Attest
<1>15. CASE Complete(i)
  BY <1>15, TransitionType DEF Complete
<1>16. CASE Deny(i)
  BY <1>16, EmitVerificationType DEF Deny
<1>17. CASE Diverge(i)
  BY <1>17, TransitionType DEF Diverge
<1>18. CASE MarkFailed(i)
  <2>1. CASE mem[i] \in TERMINAL_STATES
    BY <1>18, <2>1, MoveType DEF MarkFailed
  <2>2. CASE mem[i] \notin TERMINAL_STATES
    BY <1>18, <2>2, TransitionType DEF MarkFailed
  <2> QED
    BY <2>1, <2>2
<1>19. CASE ReportFailure(i)
  BY <1>19, EmitVerificationType DEF ReportFailure
<1>20. CASE MarkOrphaned(i)
  BY <1>20, TransitionType DEF MarkOrphaned
<1>21. CASE Invalidate(i)
  BY <1>21, EmitType DEF Invalidate
<1>22. CASE FoundReady(i)
  BY <1>22, MoveType DEF FoundReady
<1>23. CASE TakeLock(i)
  BY <1>23, MoveType DEF TakeLock
<1> QED
  BY <1>1, <1>2, <1>3, <1>4, <1>5, <1>6, <1>7, <1>8, <1>9, <1>10, <1>11, <1>12,
     <1>13, <1>14, <1>15, <1>16, <1>17, <1>18, <1>19, <1>20, <1>21, <1>22,
     <1>23
  DEF Continue

(* A step of a worker or of its supervisor.                                *)
LEMMA WorkerStepType ==
  ASSUME DispatchTypeOK, NEW w \in Workers, WorkerStep(w)
  PROVE  DispatchTypeOK'
<1>1. CASE DeliverResult(w)
  <2> DEFINE m == Head(workers[w].outbox)
  <2>1. LaneTypeOK' /\ m \in Request
    BY <1>1, TakeFrameType DEF DeliverResult, DispatchTypeOK
  <2>2. m.intent \in Intents /\ m.answer \in Answers
    BY <2>1 DEF Request
  <2>3. answer' \in [Intents -> Answers \cup {"none"}]
    <3>1. answer' = IF pc[m.intent] = "wait"
                      THEN [answer EXCEPT ![m.intent] = m.answer] ELSE answer
      BY <1>1 DEF DeliverResult
    <3> HIDE DEF m
    <3> QED
      BY <2>2, <3>1 DEF DispatchTypeOK, CallTypeOK
  <2>4. UNCHANGED <<callRest, pc, via>>
    BY <1>1 DEF DeliverResult
  <2> QED
    BY <2>1, <2>3, <2>4
    DEF DispatchTypeOK, CallTypeOK, JournalTypeOK, journalVars, callRest
<1>2. CASE /\ \/ Handshake(w) \/ HeartbeatTimeout(w) \/ FinishStop(w) \/ ReadEOF(w)
              \/ RefuseRequest(w) \/ WriteTarget(w) \/ ReplyToWrite(w)
              \/ ProcessDies(w)
           /\ UNCHANGED <<journalVars, callVars>>
  <2>1. LaneTypeOK'
    BY <1>2, SupervisionType, AnswerType, WriteType, LaneAssumption
    DEF DispatchTypeOK
  <2> QED
    BY <1>2, <2>1
    DEF DispatchTypeOK, CallTypeOK, callVars, JournalTypeOK, journalVars
<1> QED
  BY <1>1, <1>2 DEF WorkerStep

-------------------------------------------------------------------------------
(* Types of the recovery and of the kernel process *)

(* A record of the recovery keeps every variable well-typed.               *)
LEMMA RecoveryLogsType ==
  ASSUME DispatchTypeOK, NEW i \in Intents, NEW s \in IntentExecutionState,
         NEW next \in RecoverySteps, RecoveryLogs(i, s, next)
  PROVE  DispatchTypeOK' /\ rec' \in RecoverySteps
<1>1. LogReturns(i, s) \/ LogRaises(i, s)
  BY DEF RecoveryLogs
<1>2. JournalTypeOK'
  BY <1>1, LogType, WalFaultsAssumption DEF DispatchTypeOK
<1>3. UNCHANGED <<laneVars, callVars>> /\ rec' \in {next, "off"}
  BY DEF RecoveryLogs
<1> QED
  BY <1>2, <1>3 DEF DispatchTypeOK, CallTypeOK, callVars, LaneTypeOK, laneVars,
                    RecoverySteps

(* Nor does a step that leaves journal, lane and calls alone matter.       *)
LEMMA SameDispatchType ==
  ASSUME DispatchTypeOK, UNCHANGED dispatchVars
  PROVE  DispatchTypeOK'
BY DEF DispatchTypeOK, dispatchVars, CallTypeOK, callVars, LaneTypeOK, laneVars,
       JournalTypeOK, journalVars

(* Each step of the recovery.                                              *)
LEMMA RecoverType ==
  ASSUME TypeOK, Recover, UNCHANGED <<up, crashes>>
  PROVE  TypeOK'
<1> USE DEF RecoverySteps, IntentExecutionState
<1>1. ASSUME NEW i \in Intents, OrphanRunning(i) PROVE TypeOK'
  BY <1>1, RecoveryLogsType DEF OrphanRunning, TypeOK
<1>2. ASSUME NEW i \in Intents, AbortUnsent(i) PROVE TypeOK'
  BY <1>2, RecoveryLogsType DEF AbortUnsent, TypeOK
<1>3. ASSUME NEW i \in Intents, Reconcile(i) PROVE TypeOK'
  BY <1>3, SameDispatchType DEF Reconcile, ReconcileFrom, TypeOK
<1>4. CASE Scan
  <2>1. seen' \in [Intents -> Seq(IntentExecutionState)]
    BY <1>4 DEF Scan, TypeOK, DispatchTypeOK, JournalTypeOK
  <2>2. todo' \subseteq Intents
    BY <1>4 DEF Scan
  <2> QED
    BY <1>4, <2>1, <2>2, SameDispatchType DEF Scan, TypeOK
<1>5. CASE PublishInvalidated
  <2>1. emitFaults' \in 0 .. MaxEmitFaults /\ UNCHANGED attested
    BY <1>5, EmitRaisesType
    DEF PublishInvalidated, RecoveryEmits, EmitRaises, TypeOK, DispatchTypeOK, CallTypeOK
  <2>2. UNCHANGED <<journalVars, laneVars, pc, mem, via, answer>>
    BY <1>5 DEF PublishInvalidated, RecoveryEmits
  <2>3. DispatchTypeOK'
    BY <2>1, <2>2 DEF TypeOK, DispatchTypeOK, CallTypeOK, LaneTypeOK, laneVars,
                      JournalTypeOK, journalVars
  <2> QED
    BY <1>5, <2>3 DEF PublishInvalidated, RecoveryEmits, TypeOK
<1>6. CASE ScanEnds
  BY <1>6, SameDispatchType DEF ScanEnds, TypeOK
<1>7. CASE LogRecovering
  BY <1>7, RecoveryLogsType DEF LogRecovering, TypeOK
<1>8. CASE ObserveEffect
  BY <1>8, SameDispatchType DEF ObserveEffect, TypeOK
<1>9. CASE PublishVerdict
  <2>1. emitFaults' \in 0 .. MaxEmitFaults
    BY <1>9, EmitRaisesType DEF PublishVerdict, TypeOK, DispatchTypeOK, CallTypeOK
  <2>2. attested' \in [Intents -> SUBSET BOOLEAN]
    <3>1. attested[who] \cup {matched} \in SUBSET BOOLEAN
      BY DEF TypeOK, DispatchTypeOK, CallTypeOK
    <3> QED
      BY <1>9, <3>1 DEF PublishVerdict, EmitRaises, TypeOK, DispatchTypeOK, CallTypeOK
  <2>3. UNCHANGED <<journalVars, laneVars, pc, mem, via, answer>>
    BY <1>9 DEF PublishVerdict
  <2>4. DispatchTypeOK'
    BY <2>1, <2>2, <2>3 DEF TypeOK, DispatchTypeOK, CallTypeOK, LaneTypeOK, laneVars,
                            JournalTypeOK, journalVars
  <2> QED
    BY <1>9, <2>4 DEF PublishVerdict, TypeOK
<1>10. CASE SettleOrphan
  BY <1>10, RecoveryLogsType DEF SettleOrphan, TypeOK
<1> QED
  BY <1>1, <1>2, <1>3, <1>4, <1>5, <1>6, <1>7, <1>8, <1>9, <1>10 DEF Recover

(* The death of the kernel process.                                        *)
LEMMA CrashKeepsType ==
  ASSUME TypeOK, Crash
  PROVE  TypeOK'
<1>1. JournalTypeOK' /\ LaneTypeOK'
  BY CrashType, LaneCrashType, LaneAssumption DEF Crash, TypeOK, DispatchTypeOK
<1>2. CallTypeOK'
  BY LaneAssumption
  DEF Crash, TypeOK, DispatchTypeOK, CallTypeOK, Ended, IntentExecutionState,
      LaneAssumption
<1>3. crashes' \in 0 .. MaxCrashes
  BY RuntimeAssumption DEF Crash, TypeOK, RuntimeAssumption
<1>4. seen' \in [Intents -> Seq(IntentExecutionState)]
  BY DEF Crash, NoLines
<1> QED
  BY <1>1, <1>2, <1>3, <1>4 DEF Crash, TypeOK, DispatchTypeOK, RecoverySteps

-------------------------------------------------------------------------------
(* The initial state is well-typed.                                        *)
LEMMA InitType == Init => TypeOK
<1> SUFFICES ASSUME Init PROVE TypeOK
  OBVIOUS
<1>1. 0 \in 0 .. MaxWalFaults /\ 0 \in 0 .. MaxDeaths + 1 /\ 0 \in 0 .. MaxDeaths
      /\ 0 \in 0 .. MaxCrashes
  BY WalFaultsAssumption, LaneAssumption, RuntimeAssumption
  DEF WalFaultsAssumption, LaneAssumption, RuntimeAssumption
<1>2. JournalInit /\ LaneInit
  BY DEF Init, DispatchInit
<1>3. NoLines \in [Intents -> Seq(IntentExecutionState)]
  BY DEF NoLines
<1>4. JournalTypeOK
  BY <1>1, <1>2, <1>3 DEF JournalInit, JournalTypeOK
<1>5. LaneTypeOK
  <2>1. file \in [Paths -> Seq(Contents)]
    BY <1>2, LaneAssumption DEF LaneInit, LaneAssumption
  <2>2. workers \in [Workers -> WorkerType]
    BY <1>2, NoWorkerType DEF LaneInit
  <2> QED
    BY <1>1, <1>2, <2>1, <2>2 DEF LaneInit, LaneTypeOK, WorkerType, Request
<1>6. CallTypeOK
  BY LaneAssumption, DispatchAssumption
  DEF Init, DispatchInit, CallTypeOK, LaneAssumption, DispatchAssumption,
      IntentExecutionState
<1> QED
  BY <1>1, <1>3, <1>4, <1>5, <1>6 DEF Init, TypeOK, DispatchTypeOK, RecoverySteps

(* Every step keeps the type.                                              *)
LEMMA NextType == TypeOK /\ [Next]_vars => TypeOK'
<1> SUFFICES ASSUME TypeOK, [Next]_vars PROVE TypeOK'
  OBVIOUS
<1>1. CASE CallStep
  <2>1. DispatchTypeOK'
    BY <1>1, StartType, ContinueType, WorkerStepType DEF CallStep, Start, TypeOK
  <2> QED
    BY <1>1, <2>1 DEF CallStep, TypeOK, recVars
<1>2. CASE Recover /\ UNCHANGED <<up, crashes>>
  BY <1>2, RecoverType
<1>3. CASE Crash
  BY <1>3, CrashKeepsType
<1>4. CASE Restart
  BY <1>4, SameDispatchType DEF Restart, TypeOK, recVars
<1>5. CASE UNCHANGED vars
  BY <1>5, SameDispatchType DEF vars, recVars, TypeOK
<1> QED
  BY <1>1, <1>2, <1>3, <1>4, <1>5 DEF Next

(* The kernel's variables keep their types: calls, journal, workers, files *)
(* and recovery, through any crashes and faults.                           *)
THEOREM TypeCorrect == Spec => []TypeOK
BY InitType, NextType, PTL DEF Spec

-------------------------------------------------------------------------------
(* The journal is ahead of the effects *)

(* The facts a step has to establish again.  Records are never removed, so *)
(* it is enough to look at what the step adds.                             *)
LEMMA KeepsAnnounced ==
  ASSUME AnnouncedBeforeEffect,
         \A j \in Intents : HasRecord(wal[j], "RUNNING") => HasRecord(wal'[j], "RUNNING"),
         \A j \in Intents :
            pc'[j] \in Exposed => pc[j] \in Exposed \/ HasRecord(wal'[j], "RUNNING"),
         \A w \in Workers : \A k \in DOMAIN workers'[w].inbox :
            /\ workers'[w].inbox[k] \in Intents
            /\ HasRecord(wal[workers'[w].inbox[k]], "RUNNING"),
         performed' \subseteq Intents,
         \A j \in performed' : HasRecord(wal[j], "RUNNING"),
         tail' = "torn" => \A j \in Intents : pc'[j] \notin InCall
  PROVE  AnnouncedBeforeEffect'
BY DEF AnnouncedBeforeEffect, EffectWasAnnounced, Workers

(* What the lane holds before a step that leaves it alone.                 *)
LEMMA LaneIsAnnounced ==
  ASSUME LaneTypeOK, AnnouncedBeforeEffect
  PROVE  /\ \A w \in Workers : \A k \in DOMAIN workers[w].inbox :
               /\ workers[w].inbox[k] \in Intents
               /\ HasRecord(wal[workers[w].inbox[k]], "RUNNING")
         /\ performed \subseteq Intents
         /\ \A j \in performed : HasRecord(wal[j], "RUNNING")
<1>1. \A w \in Workers : workers[w].inbox \in Seq(Intents)
  BY DEF LaneTypeOK
<1>2. \A w \in Workers : \A k \in DOMAIN workers[w].inbox : workers[w].inbox[k] \in Intents
  BY <1>1, ElementOfSeq
<1> QED
  BY <1>2 DEF LaneTypeOK, AnnouncedBeforeEffect, EffectWasAnnounced

(* A journaled transition of a call.  It may lead past Run only from there *)
(* or by writing the RUNNING record itself; and a call that is under way,  *)
(* or gets under way, rules out a torn line.                               *)
LEMMA TransitionAnnounces ==
  ASSUME DispatchTypeOK, AnnouncedBeforeEffect, NEW i \in Intents, NEW from,
         NEW s \in IntentExecutionState, NEW next, NEW onRaise,
         Transition(i, from, s, next, onRaise),
         next \in Exposed => from \in Exposed \/ (s = "RUNNING" /\ from \in InCall),
         onRaise \in Exposed => from \in Exposed,
         onRaise \in InCall => from \in InCall
  PROVE  AnnouncedBeforeEffect'
<1>1. JournalTypeOK /\ LaneTypeOK /\ CallTypeOK
  BY DEF DispatchTypeOK
<1>2. pc[i] = from /\ UNCHANGED laneVars
  BY DEF Transition, Goto
<1>3. \/ LogReturns(i, s) /\ pc' = [pc EXCEPT ![i] = next]
      \/ LogRaises(i, s) /\ pc' = [pc EXCEPT ![i] = onRaise]
  BY DEF Transition, Goto
<1>4. \A j \in Intents : HasRecord(wal[j], "RUNNING") => HasRecord(wal'[j], "RUNNING")
  BY <1>1, <1>3, LogKeepsRecords
<1>5. tail = "torn" => \A j \in Intents : pc[j] \notin InCall
  BY DEF AnnouncedBeforeEffect
<1>6. \A j \in Intents :
         pc'[j] \in Exposed => pc[j] \in Exposed \/ HasRecord(wal'[j], "RUNNING")
  <2>1. CASE LogReturns(i, s) /\ pc' = [pc EXCEPT ![i] = next]
    <3>1. s = "RUNNING" /\ from \in InCall => HasRecord(wal'[i], "RUNNING")
      BY <1>1, <1>2, <1>5, <2>1, LogIsDurable
    <3> QED
      BY <1>1, <1>2, <2>1, <3>1 DEF CallTypeOK
  <2>2. CASE LogRaises(i, s) /\ pc' = [pc EXCEPT ![i] = onRaise]
    BY <1>1, <1>2, <2>2 DEF CallTypeOK
  <2> QED
    BY <1>3, <2>1, <2>2
<1>7. tail' = "torn" => \A j \in Intents : pc'[j] \notin InCall
  BY <1>1, <1>2, <1>3, <1>5, LogNeverTears DEF CallTypeOK
<1>8. UNCHANGED <<workers, performed>>
  BY <1>2 DEF laneVars
<1> QED
  BY <1>1, <1>4, <1>6, <1>7, <1>8, LaneIsAnnounced, KeepsAnnounced

(* A step of a call that writes no record and touches no worker.           *)
LEMMA MoveAnnounces ==
  ASSUME DispatchTypeOK, AnnouncedBeforeEffect, NEW i \in Intents, NEW from, NEW to,
         Goto(i, from, to), from \in InCall, to \in Exposed => from \in Exposed,
         UNCHANGED <<wal, tail, workers>>,
         performed' \subseteq Intents,
         \A j \in performed' : j \in performed \/ (j = i /\ from \in Exposed)
  PROVE  AnnouncedBeforeEffect'
<1>1. LaneTypeOK /\ CallTypeOK
  BY DEF DispatchTypeOK
<1>2. tail # "torn"
  BY DEF AnnouncedBeforeEffect, Goto
<1>3. \A j \in Intents : pc'[j] \in Exposed => pc[j] \in Exposed
  BY <1>1 DEF Goto, CallTypeOK
<1>4. \A j \in performed' : HasRecord(wal[j], "RUNNING")
  BY DEF AnnouncedBeforeEffect, EffectWasAnnounced, Goto
<1> QED
  BY <1>1, <1>2, <1>3, <1>4, LaneIsAnnounced, KeepsAnnounced

(* A step of a call that changes the pipes of the workers only.            *)
LEMMA PipesAnnounce ==
  ASSUME DispatchTypeOK, AnnouncedBeforeEffect, NEW i \in Intents,
         NEW from \in Exposed, NEW to, pc[i] = from, pc' = [pc EXCEPT ![i] = to],
         UNCHANGED <<wal, tail, performed>>,
         \A w \in Workers : \A k \in DOMAIN workers'[w].inbox :
            /\ workers'[w].inbox[k] \in Intents
            /\ HasRecord(wal[workers'[w].inbox[k]], "RUNNING")
  PROVE  AnnouncedBeforeEffect'
<1>1. LaneTypeOK /\ CallTypeOK
  BY DEF DispatchTypeOK
<1>2. tail # "torn"
  BY DEF AnnouncedBeforeEffect, Exposed
<1>3. \A j \in Intents : pc'[j] \in Exposed => pc[j] \in Exposed
  BY <1>1 DEF CallTypeOK
<1>4. performed' \subseteq Intents /\ \A j \in performed' : HasRecord(wal[j], "RUNNING")
  BY <1>1, LaneIsAnnounced
<1> QED
  BY <1>2, <1>3, <1>4, KeepsAnnounced

(* The start of a call.                                                    *)
LEMMA StartAnnounces ==
  ASSUME DispatchTypeOK, AnnouncedBeforeEffect, NEW i \in Intents,
         Refuse(i) \/ EncodeFails(i) \/ Submit(i)
  PROVE  AnnouncedBeforeEffect'
<1> USE DEF InCall, Exposed, IntentExecutionState
<1>1. CASE Refuse(i)
  BY <1>1, TransitionAnnounces DEF Refuse
<1>2. CASE Submit(i)
  BY <1>2, TransitionAnnounces DEF Submit
<1>3. CASE EncodeFails(i)
  <2>1. UNCHANGED <<wal, tail, workers, performed>>
    BY <1>3 DEF EncodeFails, callRest, journalVars, laneVars
  <2>2. \A j \in Intents : pc'[j] \in InCall => pc[j] \in InCall /\ pc'[j] = pc[j]
    BY <1>3 DEF EncodeFails, Goto, DispatchTypeOK, CallTypeOK
  <2>3. LaneTypeOK
    BY DEF DispatchTypeOK
  <2> QED
    BY <2>1, <2>2, <2>3, LaneIsAnnounced, KeepsAnnounced DEF AnnouncedBeforeEffect
<1> QED
  BY <1>1, <1>2, <1>3

(* Each later step of a call.                                              *)
LEMMA ContinueAnnounces ==
  ASSUME DispatchTypeOK, AnnouncedBeforeEffect, NEW i \in Intents, Continue(i)
  PROVE  AnnouncedBeforeEffect'
<1> USE DEF InCall, Exposed, IntentExecutionState
<1>a. LaneTypeOK /\ performed \subseteq Intents
  BY DEF DispatchTypeOK, LaneTypeOK
<1>1. CASE Dispatch(i)
  BY <1>1, TransitionAnnounces DEF Dispatch
<1>2. CASE Announce(i)
  BY <1>a, <1>2, MoveAnnounces DEF Announce, Emit, journalVars, laneVars
<1>3. CASE Run(i)
  BY <1>3, TransitionAnnounces DEF Run
<1>4. CASE EnsureWorker(i)
  <2>1. workers' = workers \/ Launch(sup + 1)
    BY <1>4 DEF EnsureWorker, laneVars
  <2>2. \A w \in Workers : \A k \in DOMAIN workers'[w].inbox :
           /\ workers'[w].inbox[k] \in Intents
           /\ HasRecord(wal[workers'[w].inbox[k]], "RUNNING")
    BY <1>a, <2>1, LaneIsAnnounced, LaunchKeepsPipes
  <2>3. UNCHANGED <<wal, tail, performed>>
    BY <1>4 DEF EnsureWorker, Launch, callRest, journalVars, laneVars, storage
  <2>4. pc[i] = "execute" /\ pc' = [pc EXCEPT ![i] = "boot"]
    BY <1>4 DEF EnsureWorker, Goto
  <2> QED
    BY <1>a, <2>2, <2>3, <2>4, PipesAnnounce
<1>5. CASE SendRequest(i)
  <2>1. SendFrame(via[i], i) /\ pc[i] = "send" /\ pc' = [pc EXCEPT ![i] = "wait"]
    BY <1>5 DEF SendRequest, Goto
  <2>2. HasRecord(wal[i], "RUNNING")
    BY <2>1 DEF AnnouncedBeforeEffect
  <2>3. \A w \in Workers : \A k \in DOMAIN workers'[w].inbox :
           /\ workers'[w].inbox[k] \in Intents
           /\ HasRecord(wal[workers'[w].inbox[k]], "RUNNING")
    BY <1>a, <2>1, <2>2, LaneIsAnnounced, SendAddsOne
  <2>4. UNCHANGED <<wal, tail, performed>>
    BY <1>5 DEF SendRequest, callRest, journalVars, storage
  <2> QED
    BY <1>a, <2>1, <2>3, <2>4, PipesAnnounce
<1>6. CASE SeesDeath(i)
  BY <1>a, <1>6, MoveAnnounces DEF SeesDeath, callRest, journalVars, laneVars
<1>7. CASE TimesOut(i)
  BY <1>a, <1>7, MoveAnnounces DEF TimesOut, callRest, journalVars, laneVars
<1>8. CASE GotResult(i)
  BY <1>a, <1>8, MoveAnnounces DEF GotResult, callRest, journalVars, laneVars
<1>9. CASE CallAdapter(i)
  BY <1>a, <1>9, MoveAnnounces DEF CallAdapter, callRest, journalVars
<1>10. CASE AdapterReturns(i)
  BY <1>a, <1>10, MoveAnnounces DEF AdapterReturns, callRest, journalVars, laneVars
<1>11. CASE Verify(i)
  BY <1>11, TransitionAnnounces DEF Verify
<1>12. CASE EmitMutated(i)
  BY <1>a, <1>12, MoveAnnounces DEF EmitMutated, Emit, journalVars, laneVars
<1>13. CASE Observe(i)
  BY <1>a, <1>13, MoveAnnounces DEF Observe, Emit, journalVars, laneVars
<1>14. CASE Attest(i)
  BY <1>a, <1>14, MoveAnnounces DEF Attest, EmitVerification, journalVars, laneVars
<1>15. CASE Complete(i)
  BY <1>15, TransitionAnnounces DEF Complete
<1>16. CASE Deny(i)
  BY <1>a, <1>16, MoveAnnounces DEF Deny, EmitVerification, journalVars, laneVars
<1>17. CASE Diverge(i)
  BY <1>17, TransitionAnnounces DEF Diverge
<1>18. CASE MarkFailed(i)
  <2>1. CASE mem[i] \in TERMINAL_STATES
    BY <1>a, <1>18, <2>1, MoveAnnounces DEF MarkFailed, callRest, journalVars, laneVars
  <2>2. CASE mem[i] \notin TERMINAL_STATES
    BY <1>18, <2>2, TransitionAnnounces DEF MarkFailed
  <2> QED
    BY <2>1, <2>2
<1>19. CASE ReportFailure(i)
  BY <1>a, <1>19, MoveAnnounces DEF ReportFailure, EmitVerification, journalVars, laneVars
<1>20. CASE MarkOrphaned(i)
  BY <1>20, TransitionAnnounces DEF MarkOrphaned
<1>21. CASE Invalidate(i)
  BY <1>a, <1>21, MoveAnnounces DEF Invalidate, Emit, journalVars, laneVars
<1>22. CASE FoundReady(i) \/ TakeLock(i)
  BY <1>a, <1>22, MoveAnnounces DEF FoundReady,
      TakeLock, callRest, journalVars, laneVars
<1> QED
  BY <1>1, <1>2, <1>3, <1>4, <1>5, <1>6, <1>7, <1>8, <1>9, <1>10, <1>11, <1>12,
     <1>13, <1>14, <1>15, <1>16, <1>17, <1>18, <1>19, <1>20, <1>21, <1>22
  DEF Continue

(* A step of a worker or of its supervisor: a pipe only loses requests,    *)
(* and what is written was at the head of one.                             *)
LEMMA WorkerStepAnnounces ==
  ASSUME DispatchTypeOK, AnnouncedBeforeEffect, NEW w \in Workers, WorkerStep(w)
  PROVE  AnnouncedBeforeEffect'
<1>1. LaneTypeOK
  BY DEF DispatchTypeOK
<1>2. UNCHANGED <<wal, tail, pc>>
  BY DEF WorkerStep, DeliverResult, callRest, callVars, journalVars
<1>3. \/ Handshake(w) \/ HeartbeatTimeout(w) \/ FinishStop(w) \/ ReadEOF(w)
      \/ TakeFrame(w) \/ RefuseRequest(w) \/ WriteTarget(w) \/ ReplyToWrite(w)
      \/ ProcessDies(w)
  BY DEF WorkerStep, DeliverResult
<1>4. \A u \in Workers : \A k \in DOMAIN workers'[u].inbox :
         /\ workers'[u].inbox[k] \in Intents
         /\ HasRecord(wal[workers'[u].inbox[k]], "RUNNING")
  <2> SUFFICES ASSUME NEW u \in Workers, NEW k \in DOMAIN workers'[u].inbox
               PROVE  \E n \in DOMAIN workers[u].inbox :
                         workers'[u].inbox[k] = workers[u].inbox[n]
    BY <1>1, LaneIsAnnounced
  <2> DEFINE q == workers[u].inbox
  <2>1. q \in Seq(Intents)
    BY <1>1 DEF LaneTypeOK
  <2>2. CASE workers'[u].inbox = q
    BY <2>2
  <2>3. CASE workers'[u].inbox = <<>>
    BY <2>3
  <2>4. CASE q # <<>> /\ workers'[u].inbox = Tail(q)
    <3>1. /\ Tail(q) \in Seq(Intents)
          /\ Len(Tail(q)) = Len(q) - 1
          /\ \A n \in 1 .. Len(Tail(q)) : Tail(q)[n] = q[n + 1]
      BY <2>1, <2>4, HeadTailProperties
    <3>2. k \in 1 .. Len(q) - 1 /\ DOMAIN q = 1 .. Len(q) /\ Len(q) \in Nat
      BY <2>1, <2>4, <3>1, LenProperties
    <3>3. k + 1 \in DOMAIN q /\ Tail(q)[k] = q[k + 1]
      BY <3>1, <3>2
    <3> QED
      BY <2>4, <3>3
  <2> QED
    BY <1>1, <1>3, <2>2, <2>3, <2>4, PipesOnlyShrink
<1>5. performed' \subseteq Intents /\ \A j \in performed' : HasRecord(wal[j], "RUNNING")
  <2>1. CASE WriteTarget(w)
    <3>1. /\ performed' = performed \cup {Head(workers[w].inbox)}
          /\ Working(w)
      BY <1>1, <2>1, WriteType, LaneAssumption DEF WriteTarget
    <3>2. /\ Head(workers[w].inbox) \in Intents
          /\ HasRecord(wal[Head(workers[w].inbox)], "RUNNING")
      BY <1>1, <3>1, WorkingOn, LaneIsAnnounced
    <3> QED
      BY <1>1, <3>1, <3>2, LaneIsAnnounced
  <2>2. CASE UNCHANGED performed
    BY <1>1, <2>2, LaneIsAnnounced
  <2> QED
    BY <1>3, <2>1, <2>2
    DEF Handshake, HeartbeatTimeout, FinishStop, ReadEOF, TakeFrame,
        RefuseRequest, ReplyToWrite, ProcessDies, storage
<1>6. tail' = "torn" => \A j \in Intents : pc'[j] \notin InCall
  BY <1>2 DEF AnnouncedBeforeEffect
<1> QED
  BY <1>2, <1>4, <1>5, <1>6, KeepsAnnounced

-------------------------------------------------------------------------------
(* The recovery: it adds records, and makes no torn line *)

(* The recovery keeps every announcement.                                  *)
LEMMA RecoverAnnounces ==
  ASSUME TypeOK, AnnouncedBeforeEffect, Recover
  PROVE  AnnouncedBeforeEffect'
<1>1. JournalTypeOK /\ LaneTypeOK
  BY DEF TypeOK, DispatchTypeOK
<1>2. UNCHANGED <<pc, workers, performed>>
  <2>1. ASSUME NEW i, NEW s, NEW next, RecoveryLogs(i, s, next)
        PROVE  UNCHANGED <<pc, workers, performed>>
    BY <2>1 DEF RecoveryLogs, laneVars, callVars
  <2> QED
    BY <2>1
    DEF Recover, OrphanRunning, AbortUnsent, LogRecovering, SettleOrphan, Scan, ScanEnds,
        Reconcile, ReconcileFrom, PublishInvalidated, RecoveryEmits, ObserveEffect,
        PublishVerdict, dispatchVars, laneVars, callVars
<1>3. \/ UNCHANGED <<wal, tail>>
      \/ \E i \in Intents, s \in IntentExecutionState : LogReturns(i, s) \/ LogRaises(i, s)
  <2> USE DEF IntentExecutionState
  <2>1. CASE \E i \in Intents : OrphanRunning(i) \/ AbortUnsent(i)
    BY <2>1 DEF OrphanRunning, AbortUnsent, RecoveryLogs
  <2>2. CASE LogRecovering \/ SettleOrphan
    BY <2>2 DEF LogRecovering, SettleOrphan, RecoveryLogs, TypeOK
  <2>3. CASE \/ \E i \in Intents : Reconcile(i)
             \/ Scan \/ PublishInvalidated \/ ScanEnds \/ ObserveEffect \/ PublishVerdict
    BY <2>3
    DEF Scan, ScanEnds, Reconcile, ReconcileFrom, PublishInvalidated, RecoveryEmits,
        ObserveEffect, PublishVerdict, dispatchVars, journalVars
  <2> QED
    BY <2>1, <2>2, <2>3 DEF Recover
<1>4. \A j \in Intents : HasRecord(wal[j], "RUNNING") => HasRecord(wal'[j], "RUNNING")
  BY <1>1, <1>3, LogKeepsRecords
<1>5. tail' = "torn" => tail = "torn"
  BY <1>1, <1>3, LogNeverTears
<1>6. tail' = "torn" => \A j \in Intents : pc'[j] \notin InCall
  BY <1>2, <1>5 DEF AnnouncedBeforeEffect
<1> QED
  BY <1>1, <1>2, <1>4, <1>6, LaneIsAnnounced, KeepsAnnounced

(* A crash may tear a line, but ends every call and empties every pipe.    *)
LEMMA CrashAnnounces ==
  ASSUME TypeOK, AnnouncedBeforeEffect, Crash
  PROVE  AnnouncedBeforeEffect'
<1>1. JournalTypeOK /\ LaneTypeOK /\ CallTypeOK
  BY DEF TypeOK, DispatchTypeOK
<1>2. wal' = wal /\ UNCHANGED performed
  BY <1>1, CrashType DEF Crash, LaneCrash, storage
<1>3. \A j \in Intents : pc'[j] \notin InCall
  BY DEF Crash, InCall
<1>4. \A w \in Workers : workers'[w].inbox = <<>>
  BY DEF Crash, LaneCrash, NoWorker
<1> QED
  BY <1>1, <1>2, <1>3, <1>4, LaneIsAnnounced, KeepsAnnounced DEF Exposed

-------------------------------------------------------------------------------
(* At first nobody has acted or is about to.                               *)
LEMMA InitAnnounces == Init => AnnouncedBeforeEffect
<1> SUFFICES ASSUME Init PROVE AnnouncedBeforeEffect
  OBVIOUS
<1>1. /\ \A i \in Intents : pc[i] = "idle"
      /\ \A w \in Workers : workers[w].inbox = <<>>
      /\ performed = {}
      /\ tail = "whole"
  BY DEF Init, DispatchInit, JournalInit, LaneInit, NoWorker
<1> QED
  BY <1>1 DEF AnnouncedBeforeEffect, EffectWasAnnounced, Exposed, InCall

(* Every step keeps the journal ahead of the effects.                      *)
LEMMA NextAnnounces ==
  TypeOK /\ AnnouncedBeforeEffect /\ [Next]_vars => AnnouncedBeforeEffect'
<1> SUFFICES ASSUME TypeOK, AnnouncedBeforeEffect, [Next]_vars
             PROVE  AnnouncedBeforeEffect'
  OBVIOUS
<1>1. CASE CallStep
  BY <1>1, StartAnnounces, ContinueAnnounces, WorkerStepAnnounces
  DEF CallStep, Start, TypeOK
<1>2. CASE Recover /\ UNCHANGED <<up, crashes>>
  BY <1>2, RecoverAnnounces
<1>3. CASE Crash
  BY <1>3, CrashAnnounces
<1>4. CASE Restart \/ UNCHANGED vars
  <2>1. UNCHANGED <<wal, tail, pc, workers, performed>>
    BY <1>4 DEF Restart, vars, dispatchVars, journalVars, laneVars, callVars
  <2> QED
    BY <2>1 DEF AnnouncedBeforeEffect, EffectWasAnnounced
<1> QED
  BY <1>1, <1>2, <1>3, <1>4 DEF Next

(* The inductive form: calls past Run, requests in the pipes and writes    *)
(* all have their RUNNING record, and no call runs behind a torn line.     *)
THEOREM JournalIsAhead == Spec => []AnnouncedBeforeEffect
BY InitType, NextType, InitAnnounces, NextAnnounces, PTL DEF Spec

(* WAL before effect: no write reaches the disk, and no in-process adapter *)
(* acts, unless a durable RUNNING record was there first, however journal, *)
(* bus, workers and kernel fail, and whether or not recovery runs beside   *)
(* dispatch.                                                               *)
THEOREM WalBeforeEffect == Spec => []EffectWasAnnounced
<1>1. AnnouncedBeforeEffect => EffectWasAnnounced
  BY DEF AnnouncedBeforeEffect
<1> QED
  BY <1>1, JournalIsAhead, PTL

-------------------------------------------------------------------------------
(***************************************************************************)
(* COMPLETED is proved: for any intents, files, workers and bounds on the  *)
(* faults, and whether or not recovery and dispatch are kept apart.        *)
(***************************************************************************)

(* What COMPLETED says of an intent of the worker lane.                    *)
Proved(i) == i \in performed /\ Bytes[i] \in landed[Target[i]] /\ TRUE \in attested[i]

(* A digest is only ever computed behind the write it is about: while a    *)
(* worker is at work on a written request, in an answer that is on its way,*)
(* and in an answer that has been correlated to its call.                  *)
Sincere(r, done) ==
  /\ r.written => r.inbox # <<>> /\ Head(r.inbox) \in done
  /\ \A k \in DOMAIN r.outbox : r.outbox[k].answer # "error" => r.outbox[k].intent \in done

AnswersAreOfWrites ==
  /\ \A w \in Workers : Sincere(workers[w], performed)
  /\ \A i \in Intents : answer[i] \in {"match", "differs"} => i \in performed

(* What a file holds as a whole has landed in it.                          *)
HeldHasLanded == \A p \in Paths, c \in Contents : file[p] = <<c>> => c \in landed[p]

(* A call collects the proof step by step on its way to COMPLETED.         *)
CallsCollectProof ==
  \A i \in Intents \ InProcess :
    /\ pc[i] # "adapter"
    /\ pc[i] \in {"verify", "mutated", "observe", "attest", "complete"} => i \in performed
    /\ pc[i] \in {"attest", "complete"} => Bytes[i] \in landed[Target[i]]
    /\ pc[i] = "complete" => TRUE \in attested[i]

(* A record COMPLETED, in the file or still in the buffer of the file      *)
(* object, from where a later record takes it along.                       *)
Written(i, s) == HasRecord(wal[i], s) \/ HasRecord(buffer[i], s)

RecordsAreProved == \A i \in Intents \ InProcess : Written(i, "COMPLETED") => Proved(i)

Evidence == AnswersAreOfWrites /\ HeldHasLanded /\ CallsCollectProof /\ RecordsAreProved

-------------------------------------------------------------------------------
(* The evidence *)

(* A recovery leaves lane and calls alone; what it publishes is added.     *)
LEMMA RecoverLeavesLane ==
  ASSUME CallTypeOK, Recover
  PROVE  /\ UNCHANGED <<laneVars, pc, mem, answer>>
         /\ \A i \in Intents : attested[i] \subseteq attested'[i]
<1>1. ASSUME NEW i, NEW s, NEW next, RecoveryLogs(i, s, next)
      PROVE  UNCHANGED <<laneVars, pc, mem, answer, attested>>
  BY <1>1 DEF RecoveryLogs, callVars
<1>2. CASE PublishVerdict
  BY <1>2 DEF PublishVerdict, EmitRaises, CallTypeOK
<1>3. CASE ~PublishVerdict
  BY <1>1, <1>3
  DEF Recover, OrphanRunning, AbortUnsent, LogRecovering, SettleOrphan, Scan, ScanEnds,
      Reconcile, ReconcileFrom, PublishInvalidated, RecoveryEmits, EmitRaises,
      ObserveEffect, dispatchVars, callVars
<1> QED
  BY <1>2, <1>3

(* What was written, landed and was attested is never taken back.          *)
LEMMA EvidenceStays ==
  ASSUME TypeOK, [Next]_vars
  PROVE  /\ performed \subseteq performed'
         /\ \A p \in Paths : landed[p] \subseteq landed'[p]
         /\ \A i \in Intents : attested[i] \subseteq attested'[i]
<1>1. DispatchTypeOK /\ LaneTypeOK /\ CallTypeOK
  BY DEF TypeOK, DispatchTypeOK
<1>2. CASE \E i \in Intents : Start(i)
  BY <1>2 DEF Start, Refuse, EncodeFails, Submit, Transition, callRest, laneVars
<1>3. CASE \E i \in Intents : Continue(i)
  <2>1. PICK i \in Intents : Continue(i)
    BY <1>3
  <2>2. CASE EnsureWorker(i) \/ FoundReady(i)
             \/ TakeLock(i) \/ SendRequest(i) \/ CallAdapter(i)
    BY <2>2 DEF EnsureWorker, FoundReady,
                TakeLock, SendRequest, CallAdapter, Launch, storage, callRest, laneVars
  <2>3. CASE Attest(i) \/ Deny(i) \/ ReportFailure(i)
    BY <1>1, <2>3
    DEF Attest, Deny, ReportFailure, EmitVerification, EmitRaises, laneVars, CallTypeOK
  <2>4. CASE Dispatch(i) \/ Run(i) \/ Verify(i) \/ Complete(i) \/ Diverge(i)
             \/ MarkOrphaned(i)
    BY <2>4
    DEF Dispatch, Run, Verify, Complete, Diverge, MarkOrphaned, Transition, laneVars
  <2>5. CASE Announce(i) \/ EmitMutated(i) \/ Observe(i) \/ Invalidate(i)
    BY <2>5 DEF Announce, EmitMutated, Observe, Invalidate, Emit, EmitRaises, laneVars
  <2>6. CASE SeesDeath(i) \/ TimesOut(i) \/ GotResult(i) \/ AdapterReturns(i)
    BY <2>6 DEF SeesDeath, TimesOut, GotResult, AdapterReturns, callRest, laneVars
  <2>7. CASE MarkFailed(i)
    BY <2>7 DEF MarkFailed, Transition, callRest, laneVars
  <2> QED
    BY <2>1, <2>2, <2>3, <2>4, <2>5, <2>6, <2>7 DEF Continue
<1>4. CASE \E w \in Workers : WorkerStep(w)
  <2>1. PICK w \in Workers : WorkerStep(w)
    BY <1>4
  <2>2. CASE WriteTarget(w)
    <3>1. UNCHANGED attested
      BY <2>1, <2>2 DEF WorkerStep, DeliverResult, callRest, callVars
    <3> QED
      BY <1>1, <2>2, <3>1 DEF WriteTarget, LaneTypeOK
  <2>3. CASE UNCHANGED storage
    BY <2>1, <2>3 DEF storage, WorkerStep, DeliverResult, callRest, callVars
  <2> QED
    BY <2>1, <2>2, <2>3
    DEF WorkerStep, DeliverResult, TakeFrame, Handshake, HeartbeatTimeout, FinishStop,
        ReadEOF, RefuseRequest, ReplyToWrite, ProcessDies
<1>5. CASE Recover
  BY <1>1, <1>5, RecoverLeavesLane DEF laneVars
<1>6. CASE Crash
  BY <1>6 DEF Crash, LaneCrash, storage
<1>7. CASE Restart \/ UNCHANGED vars
  BY <1>7 DEF Restart, vars, dispatchVars, laneVars, callVars
<1> QED
  BY <1>2, <1>3, <1>4, <1>5, <1>6, <1>7 DEF Next, CallStep

-------------------------------------------------------------------------------
(* The lane: answers and files *)

(* One worker's record is replaced by a sincere one.                       *)
LEMMA SincereReplaced ==
  ASSUME LaneTypeOK, \A w \in Workers : Sincere(workers[w], performed),
         performed \subseteq performed',
         NEW w \in Workers, NEW r, workers' = [workers EXCEPT ![w] = r],
         Sincere(r, performed')
  PROVE  \A v \in Workers : Sincere(workers'[v], performed')
<1> SUFFICES ASSUME NEW v \in Workers PROVE Sincere(workers'[v], performed')
  OBVIOUS
<1>1. workers \in [Workers -> WorkerType]
  BY WorkersType
<1>2. CASE v = w
  BY <1>1, <1>2
<1>3. CASE v # w
  <2>1. workers'[v] = workers[v]
    BY <1>1, <1>3
  <2> QED
    BY <2>1 DEF Sincere
<1> QED
  BY <1>2, <1>3

(* A process that has just been spawned, or failed to be, is sincere.      *)
LEMMA NewWorkerSincere ==
  /\ Sincere(NoWorker, performed')
  /\ Sincere([NoWorker EXCEPT !.state = "DEAD"], performed')
  /\ Sincere([NoWorker EXCEPT !.state = "BOOTING", !.alive = TRUE, !.reading = TRUE],
             performed')
BY DEF NoWorker, Sincere

(* A launch replaces one worker by a new one.                              *)
LEMMA LaunchSincere ==
  ASSUME LaneTypeOK, \A w \in Workers : Sincere(workers[w], performed), NEW u, Launch(u)
  PROVE  \A w \in Workers : Sincere(workers'[w], performed')
<1>1. PICK r : Sincere(r, performed') /\ workers' = [workers EXCEPT ![u] = r]
  BY NewWorkerSincere DEF Launch
<1>2. u \in Workers /\ performed' = performed
  BY DEF Launch, storage
<1> QED
  BY <1>1, <1>2, SincereReplaced

(* A sequence with one more element at its end.                            *)
LEMMA AppendHead ==
  ASSUME NEW S, NEW q \in Seq(S), NEW e \in S
  PROVE  /\ Append(q, e) # <<>>
         /\ q # <<>> => Head(Append(q, e)) = Head(q)
<1>1. Len(q) \in Nat /\ (q # <<>> => Len(q) # 0)
  BY LenProperties, EmptySeq
<1>2. /\ Append(q, e) \in Seq(S) /\ Len(Append(q, e)) = Len(q) + 1
      /\ \A k \in 1 .. Len(q) : Append(q, e)[k] = q[k]
  BY AppendProperties
<1>3. Append(q, e) # <<>>
  BY AppendProperties
<1>4. q # <<>> => Append(q, e)[1] = q[1]
  BY <1>1, <1>2
<1> QED
  BY <1>2, <1>3, <1>4

(* Each element of it was there, or is the new one.                        *)
LEMMA AppendElement ==
  ASSUME NEW S, NEW q \in Seq(S), NEW e \in S, NEW k \in DOMAIN Append(q, e)
  PROVE  \/ k \in DOMAIN q /\ Append(q, e)[k] = q[k]
         \/ Append(q, e)[k] = e
<1>1. /\ Append(q, e) \in Seq(S) /\ Len(Append(q, e)) = Len(q) + 1
      /\ \A n \in 1 .. Len(q) : Append(q, e)[n] = q[n]
      /\ Append(q, e)[Len(q) + 1] = e
  BY AppendProperties
<1>2. Len(q) \in Nat /\ DOMAIN q = 1 .. Len(q) /\ k \in 1 .. Len(q) + 1
  BY <1>1, LenProperties
<1> QED
  BY <1>1, <1>2

(* A request is put behind the one the worker is working on.               *)
LEMMA SendSincere ==
  ASSUME LaneTypeOK, \A w \in Workers : Sincere(workers[w], performed),
         NEW u, NEW i \in Intents, SendFrame(u, i), UNCHANGED performed
  PROVE  \A w \in Workers : Sincere(workers'[w], performed')
<1>1. workers \in [Workers -> WorkerType]
  BY WorkersType
<1>2. CASE u \in Workers /\ workers[u].alive
  <2> DEFINE q == workers[u].inbox
             r == [workers[u] EXCEPT !.inbox = Append(@, i)]
  <2>1. q \in Seq(Intents) /\ workers[u] \in WorkerType
    BY <1>1, <1>2 DEF WorkerType
  <2>2. /\ Append(q, i) # <<>>
        /\ q # <<>> => Head(Append(q, i)) = Head(q)
    BY <2>1, AppendHead
  <2>3. /\ r.inbox = Append(q, i) /\ r.outbox = workers[u].outbox
        /\ r.written = workers[u].written
    BY <2>1 DEF WorkerType
  <2>4. Sincere(workers[u], performed)
    BY <1>2
  <2>5. Sincere(r, performed')
    BY <2>2, <2>3, <2>4 DEF Sincere
  <2>6. workers' = [workers EXCEPT ![u] = r]
    BY <1>1, <1>2 DEF SendFrame, WorkerType
  <2> QED
    BY <1>2, <2>5, <2>6, SincereReplaced
<1>3. CASE ~(u \in Workers /\ workers[u].alive)
  <2>1. \A w \in Workers : workers'[w].written = workers[w].written
                            /\ workers'[w].inbox = workers[w].inbox
                            /\ workers'[w].outbox = workers[w].outbox
    BY <1>1, <1>3 DEF SendFrame
  <2> QED
    BY <2>1 DEF Sincere
<1> QED
  BY <1>2, <1>3

(* What the supervisor and the death of the process change of a worker     *)
(* carries no new answer.                                                  *)
LEMMA SupervisionSincere ==
  ASSUME LaneTypeOK, \A w \in Workers : Sincere(workers[w], performed), NEW w \in Workers,
         \/ Handshake(w) \/ HeartbeatTimeout(w) \/ FinishStop(w) \/ ReadEOF(w)
         \/ ProcessDies(w)
  PROVE  \A v \in Workers : Sincere(workers'[v], performed')
<1>1. workers \in [Workers -> WorkerType] /\ workers[w] \in WorkerType
  BY WorkersType
<1>2. UNCHANGED performed
  BY DEF Handshake, HeartbeatTimeout, FinishStop, ReadEOF, ProcessDies, storage
<1>3. Sincere(workers[w], performed)
  OBVIOUS
<1>4. CASE FinishStop(w)
  BY <1>2, <1>4, NewWorkerSincere, SincereReplaced DEF FinishStop
<1>5. CASE ~FinishStop(w)
  <2>1. PICK r \in WorkerType :
           /\ workers' = [workers EXCEPT ![w] = r]
           /\ r.outbox = workers[w].outbox
           /\ r.written => r.written = workers[w].written /\ r.inbox = workers[w].inbox
    <3>1. CASE Handshake(w) \/ HeartbeatTimeout(w)
      <4>1. PICK s \in {"READY", "TERMINATING"} : workers' = [workers EXCEPT ![w].state = s]
        BY <3>1 DEF Handshake, HeartbeatTimeout
      <4> DEFINE r == [workers[w] EXCEPT !.state = s]
      <4>2. r \in WorkerType /\ r.outbox = workers[w].outbox
            /\ r.written = workers[w].written /\ r.inbox = workers[w].inbox
        BY <1>1 DEF WorkerType, WorkerState
      <4>3. workers' = [workers EXCEPT ![w] = r]
        BY <1>1, <4>1 DEF WorkerType
      <4> QED
        BY <4>2, <4>3
    <3>2. CASE ReadEOF(w)
      <4> DEFINE r == [workers[w] EXCEPT !.state = "DEAD", !.reading = FALSE]
      <4>1. r \in WorkerType /\ r.outbox = workers[w].outbox
            /\ r.written = workers[w].written /\ r.inbox = workers[w].inbox
        BY <1>1 DEF WorkerType, WorkerState
      <4>2. workers' = [workers EXCEPT ![w] = r]
        BY <1>1, <3>2 DEF ReadEOF, WorkerType
      <4> QED
        BY <4>1, <4>2
    <3>3. CASE ProcessDies(w)
      <4> DEFINE r == [workers[w] EXCEPT !.alive = FALSE, !.inbox = <<>>, !.written = FALSE]
      <4>1. r.outbox = workers[w].outbox /\ r.written = FALSE /\ r \in WorkerType
        BY <1>1, EmptySeq DEF WorkerType
      <4>2. workers' = [workers EXCEPT ![w] = r]
        BY <1>1, <3>3 DEF ProcessDies, WorkerType
      <4> QED
        BY <4>1, <4>2
    <3> QED
      BY <1>5, <3>1, <3>2, <3>3
  <2>2. Sincere(r, performed')
    BY <1>2, <1>3, <2>1 DEF Sincere
  <2> QED
    BY <1>2, <2>1, <2>2, SincereReplaced
<1> QED
  BY <1>4, <1>5

(* A reply is about the request at the head of the pipe; unless it is an   *)
(* error, that request has been written.                                   *)
LEMMA ReplySincere ==
  ASSUME LaneTypeOK, \A w \in Workers : Sincere(workers[w], performed),
         NEW w \in Workers, NEW a \in Answers, Working(w), Reply(w, a),
         UNCHANGED performed, a # "error" => workers[w].written
  PROVE  \A v \in Workers : Sincere(workers'[v], performed')
<1> DEFINE m == [intent |-> Head(workers[w].inbox), answer |-> a]
           old == workers[w].outbox
           r == [workers[w] EXCEPT !.inbox = Tail(@), !.written = FALSE,
                                   !.outbox = Append(@, m)]
<1>1. workers \in [Workers -> WorkerType] /\ workers[w] \in WorkerType
  BY WorkersType
<1>2. Head(workers[w].inbox) \in Intents
  BY WorkingOn
<1>3. m \in Request /\ old \in Seq(Request)
  BY <1>1, <1>2 DEF WorkerType, Request
<1>4. r.written = FALSE /\ r.outbox = Append(old, m)
  BY <1>1 DEF WorkerType
<1>5. workers' = [workers EXCEPT ![w] = r]
  BY <1>1 DEF Reply, WorkerType
<1>6. Sincere(workers[w], performed)
  OBVIOUS
<1>7. ASSUME NEW k \in DOMAIN Append(old, m), Append(old, m)[k].answer # "error"
      PROVE  Append(old, m)[k].intent \in performed
  <2>1. \/ k \in DOMAIN old /\ Append(old, m)[k] = old[k]
        \/ Append(old, m)[k] = m
    BY <1>3, <1>7, AppendElement
  <2> QED
    BY <1>6, <1>7, <2>1 DEF Sincere
<1>8. Sincere(r, performed')
  BY <1>4, <1>7 DEF Sincere
<1> QED
  BY <1>5, <1>8, SincereReplaced

(* A write makes the request at the head of the pipe a performed one.      *)
LEMMA WriteSincere ==
  ASSUME LaneTypeOK, \A w \in Workers : Sincere(workers[w], performed),
         NEW w \in Workers, WriteTarget(w)
  PROVE  \A v \in Workers : Sincere(workers'[v], performed')
<1> DEFINE r == [workers[w] EXCEPT !.written = TRUE]
<1>1. workers \in [Workers -> WorkerType] /\ workers[w] \in WorkerType
  BY WorkersType
<1>2. /\ performed' = performed \cup {Head(workers[w].inbox)}
      /\ workers' = [workers EXCEPT ![w] = r]
      /\ workers[w].inbox # <<>>
  BY WriteType, LaneAssumption, <1>1 DEF WriteTarget, Working
<1>3. r.inbox = workers[w].inbox /\ r.outbox = workers[w].outbox
  BY <1>1 DEF WorkerType
<1>4. Sincere(r, performed')
  BY <1>2, <1>3 DEF Sincere
<1> QED
  BY <1>2, <1>4, SincereReplaced

(* The answer the IO thread takes was in the pipe; it is correlated, or    *)
(* dropped.                                                                *)
LEMMA DeliverSincere ==
  ASSUME DispatchTypeOK, AnswersAreOfWrites, NEW w \in Workers, DeliverResult(w)
  PROVE  AnswersAreOfWrites'
<1> DEFINE q == workers[w].outbox
           r == [workers[w] EXCEPT !.outbox = Tail(@),
                                   !.reading = workers[w].state # "TERMINATING"]
<1>1. /\ workers \in [Workers -> WorkerType] /\ workers[w] \in WorkerType
      /\ LaneTypeOK /\ CallTypeOK
  BY WorkersType DEF DispatchTypeOK
<1>2. q \in Seq(Request) /\ q # <<>> /\ UNCHANGED performed
  BY <1>1 DEF DeliverResult, TakeFrame, WorkerType, storage
<1>3. /\ Tail(q) \in Seq(Request) /\ Len(Tail(q)) = Len(q) - 1 /\ Len(q) \in Nat \ {0}
      /\ \A k \in 1 .. Len(Tail(q)) : Tail(q)[k] = q[k + 1]
      /\ DOMAIN Tail(q) = 1 .. Len(Tail(q)) /\ DOMAIN q = 1 .. Len(q)
      /\ Head(q) = q[1] /\ Head(q) \in Request
  BY <1>2, HeadTailProperties, LenProperties, EmptySeq
<1>4. \A k \in DOMAIN q : q[k].answer # "error" => q[k].intent \in performed
  BY DEF AnswersAreOfWrites, Sincere
<1>5. /\ r.outbox = Tail(q) /\ r.written = workers[w].written
      /\ r.inbox = workers[w].inbox
  BY <1>1 DEF WorkerType
<1>6. workers' = [workers EXCEPT ![w] = r]
  BY <1>1 DEF DeliverResult, TakeFrame, WorkerType
<1>7. Sincere(r, performed')
  <2>1. \A k \in DOMAIN Tail(q) : k + 1 \in DOMAIN q /\ Tail(q)[k] = q[k + 1]
    BY <1>3
  <2>2. \A k \in DOMAIN Tail(q) :
           Tail(q)[k].answer # "error" => Tail(q)[k].intent \in performed
    BY <1>4, <2>1
  <2> QED
    BY <1>2, <1>5, <2>2 DEF AnswersAreOfWrites, Sincere
<1>8. \A v \in Workers : Sincere(workers'[v], performed')
  BY <1>1, <1>2, <1>6, <1>7, SincereReplaced DEF AnswersAreOfWrites
<1>9. ASSUME NEW i \in Intents, answer'[i] \in {"match", "differs"}
      PROVE  i \in performed'
  <2> DEFINE m == Head(q)
  <2>1. m.answer # "error" => m.intent \in performed
    BY <1>3, <1>4
  <2>2. m.intent \in Intents
    BY <1>3 DEF Request
  <2>3. answer' = answer \/ answer' = [answer EXCEPT ![m.intent] = m.answer]
    BY DEF DeliverResult
  <2> HIDE DEF m
  <2> QED
    BY <1>1, <1>2, <1>9, <2>1, <2>2, <2>3 DEF AnswersAreOfWrites, CallTypeOK
<1> QED
  BY <1>8, <1>9 DEF AnswersAreOfWrites

(* The steps that matter to the lane.                                      *)
LEMMA LaneSteps ==
  ASSUME TypeOK, [Next]_vars
  PROVE  \/ UNCHANGED <<workers, file, answer>>
         \/ \E u : Launch(u) /\ UNCHANGED answer
         \/ \E u : \E i \in Intents :
              pc[i] = "send" /\ SendFrame(u, i) /\ UNCHANGED <<answer, storage>>
         \/ \E w \in Workers : WorkerStep(w)
         \/ Crash
<1>1. CASE \E i \in Intents : Start(i)
  BY <1>1 DEF Start, Refuse, EncodeFails, Submit, Transition, laneVars
<1>2. CASE \E i \in Intents : Continue(i)
  <2>1. PICK i \in Intents : Continue(i)
    BY <1>2
  <2>2. CASE EnsureWorker(i) \/ FoundReady(i)
             \/ TakeLock(i) \/ SendRequest(i) \/ CallAdapter(i)
    BY <2>2 DEF EnsureWorker, FoundReady,
                TakeLock, SendRequest, CallAdapter, Goto, storage, laneVars
  <2>3. CASE Attest(i) \/ Deny(i) \/ ReportFailure(i)
    BY <2>3 DEF Attest, Deny, ReportFailure, EmitVerification, laneVars
  <2>4. CASE Dispatch(i) \/ Run(i) \/ Verify(i) \/ Complete(i) \/ Diverge(i)
             \/ MarkOrphaned(i)
    BY <2>4
    DEF Dispatch, Run, Verify, Complete, Diverge, MarkOrphaned, Transition, laneVars
  <2>5. CASE Announce(i) \/ EmitMutated(i) \/ Observe(i) \/ Invalidate(i)
    BY <2>5 DEF Announce, EmitMutated, Observe, Invalidate, Emit, laneVars
  <2>6. CASE SeesDeath(i) \/ TimesOut(i) \/ GotResult(i) \/ AdapterReturns(i)
    BY <2>6 DEF SeesDeath, TimesOut, GotResult, AdapterReturns, laneVars
  <2>7. CASE MarkFailed(i)
    BY <2>7 DEF MarkFailed, Transition, laneVars
  <2> QED
    BY <2>1, <2>2, <2>3, <2>4, <2>5, <2>6, <2>7 DEF Continue
<1>3. CASE Recover
  BY <1>3, RecoverLeavesLane DEF TypeOK, DispatchTypeOK, laneVars
<1>4. CASE Restart \/ UNCHANGED vars
  BY <1>4 DEF Restart, vars, dispatchVars, laneVars, callVars
<1> QED
  BY <1>1, <1>2, <1>3, <1>4 DEF Next, CallStep

(* Every step keeps answers behind their writes.                           *)
LEMMA NextSincere ==
  ASSUME TypeOK, AnswersAreOfWrites, [Next]_vars
  PROVE  AnswersAreOfWrites'
<1>1. DispatchTypeOK /\ LaneTypeOK /\ performed \subseteq performed'
  BY EvidenceStays DEF TypeOK, DispatchTypeOK
<1>2. CASE UNCHANGED <<workers, file, answer>>
  BY <1>1, <1>2 DEF AnswersAreOfWrites, Sincere
<1>3. CASE \E u : Launch(u) /\ UNCHANGED answer
  BY <1>1, <1>3, LaunchSincere DEF AnswersAreOfWrites
<1>4. CASE \E u : \E i \in Intents :
              pc[i] = "send" /\ SendFrame(u, i) /\ UNCHANGED <<answer, storage>>
  BY <1>1, <1>4, SendSincere DEF AnswersAreOfWrites, storage
<1>5. CASE \E w \in Workers : WorkerStep(w)
  <2>1. PICK w \in Workers : WorkerStep(w)
    BY <1>5
  <2>2. CASE DeliverResult(w)
    BY <1>1, <2>2, DeliverSincere
  <2>3. CASE ~DeliverResult(w)
    <3>1. UNCHANGED answer
      BY <2>1, <2>3 DEF WorkerStep, callVars
    <3>2. \A v \in Workers : Sincere(workers[v], performed)
      BY DEF AnswersAreOfWrites
    <3>3. CASE RefuseRequest(w)
      <4>1. "error" \in Answers /\ Working(w) /\ Reply(w, "error") /\ UNCHANGED performed
        BY <3>3 DEF RefuseRequest, Answers, storage
      <4>2. \A v \in Workers : Sincere(workers'[v], performed')
        BY <1>1, <3>2, <4>1, ReplySincere
      <4> QED
        BY <1>1, <3>1, <4>2 DEF AnswersAreOfWrites
    <3>4. CASE ReplyToWrite(w)
      <4>1. PICK a \in Answers : Reply(w, a)
        BY <3>4 DEF ReplyToWrite, Answers
      <4>2. Working(w) /\ workers[w].written /\ UNCHANGED performed
        BY <3>4 DEF ReplyToWrite, storage
      <4>3. \A v \in Workers : Sincere(workers'[v], performed')
        BY <1>1, <3>2, <4>1, <4>2, ReplySincere
      <4> QED
        BY <1>1, <3>1, <4>3 DEF AnswersAreOfWrites
    <3>5. CASE WriteTarget(w)
      BY <1>1, <3>1, <3>2, <3>5, WriteSincere DEF AnswersAreOfWrites
    <3>6. CASE \/ Handshake(w) \/ HeartbeatTimeout(w) \/ FinishStop(w) \/ ReadEOF(w)
               \/ ProcessDies(w)
      BY <1>1, <3>1, <3>2, <3>6, SupervisionSincere DEF AnswersAreOfWrites
    <3> QED
      BY <2>1, <2>3, <3>3, <3>4, <3>5, <3>6 DEF WorkerStep
  <2> QED
    BY <2>2, <2>3
<1>6. CASE Crash
  <2>1. \A w \in Workers : workers'[w] = NoWorker
    BY <1>6 DEF Crash, LaneCrash
  <2>2. \A i \in Intents : answer'[i] = "none"
    BY <1>6 DEF Crash
  <2> QED
    BY <2>1, <2>2, NewWorkerSincere DEF AnswersAreOfWrites
<1> QED
  BY <1>2, <1>3, <1>4, <1>5, <1>6, LaneSteps

(* A file that is one chunk after an append holds the appended one.        *)
LEMMA OneChunk ==
  ASSUME NEW S, NEW q \in Seq(S), NEW e \in S, NEW c, Append(q, e) = <<c>>
  PROVE  c = e
<1>1. /\ Len(Append(q, e)) = Len(q) + 1
      /\ Append(q, e)[Len(q) + 1] = e
      /\ Len(q) \in Nat
  BY AppendProperties, LenProperties
<1>2. Len(<<c>>) = 1 /\ <<c>>[1] = c
  OBVIOUS
<1>3. Len(q) + 1 = 1
  BY <1>1, <1>2, Zenon
<1> QED
  BY <1>1, <1>2, <1>3, Zenon

(* Only a write changes a file, and what it leaves there as the whole of   *)
(* it has landed.                                                          *)
LEMMA NextHeld ==
  ASSUME TypeOK, HeldHasLanded, [Next]_vars
  PROVE  HeldHasLanded'
<1>1. LaneTypeOK /\ \A p \in Paths : landed[p] \subseteq landed'[p]
  BY EvidenceStays DEF TypeOK, DispatchTypeOK
<1>2. CASE UNCHANGED file
  BY <1>1, <1>2 DEF HeldHasLanded
<1>3. ASSUME NEW w \in Workers, WriteTarget(w)
      PROVE  HeldHasLanded'
  <2> DEFINE i == Head(workers[w].inbox)
             t == Target[i]
             now == IF i \in Appends THEN Append(file[t], Bytes[i]) ELSE <<Bytes[i]>>
  <2>1. i \in Intents
    BY <1>1, <1>3, WorkingOn DEF WriteTarget
  <2>2. t \in Paths /\ Bytes[i] \in Contents /\ file[t] \in Seq(Contents)
    BY <1>1, <2>1, LaneAssumption DEF LaneTypeOK
  <2>3. /\ file' = [file EXCEPT ![t] = now]
        /\ landed' = [landed EXCEPT ![t] =
                         IF now = <<Bytes[i]>> THEN @ \cup {Bytes[i]} ELSE @]
    BY <1>3 DEF WriteTarget
  <2>4. ASSUME NEW c \in Contents, now = <<c>> PROVE c = Bytes[i]
    <3>1. CASE i \in Appends
      BY <2>2, <2>4, <3>1, OneChunk
    <3>2. CASE i \notin Appends
      BY <2>4, <3>2
    <3> QED
      BY <3>1, <3>2
  <2> HIDE DEF now, t
  <2> QED
    BY <1>1, <2>2, <2>3, <2>4 DEF HeldHasLanded, LaneTypeOK
<1>4. UNCHANGED file \/ \E w \in Workers : WriteTarget(w)
  <2>1. CASE \E w \in Workers : WorkerStep(w)
    BY <2>1
    DEF WorkerStep, DeliverResult, TakeFrame, Handshake, HeartbeatTimeout, FinishStop,
        ReadEOF, RefuseRequest, ReplyToWrite, ProcessDies, storage
  <2>2. CASE Crash \/ \E u : Launch(u)
    BY <2>2 DEF Crash, LaneCrash, Launch, storage
  <2> QED
    BY <2>1, <2>2, LaneSteps DEF storage
<1> QED
  BY <1>2, <1>3, <1>4

-------------------------------------------------------------------------------
(* The calls *)

(* A call moves on by its own steps, or the crash ends it.                 *)
LEMMA CallMoves ==
  ASSUME TypeOK, [Next]_vars, NEW j \in Intents
  PROVE  \/ Refuse(j) \/ EncodeFails(j) \/ Submit(j) \/ Continue(j)
         \/ /\ pc'[j] \in {pc[j], "gone"} /\ mem'[j] \in {mem[j], "CREATED"}
            /\ pc'[j] \in InCall => mem'[j] = mem[j]
<1>1. CallTypeOK
  BY DEF TypeOK, DispatchTypeOK
<1>2. CASE \E i \in Intents : Start(i)
  <2>1. PICK i \in Intents : Refuse(i) \/ EncodeFails(i) \/ Submit(i)
    BY <1>2 DEF Start
  <2>2. /\ \E to : pc' = [pc EXCEPT ![i] = to]
        /\ mem' = mem \/ \E s : mem' = [mem EXCEPT ![i] = s]
    BY <2>1 DEF Refuse, EncodeFails, Submit, Transition, Goto, callRest
  <2>3. i = j \/ (pc'[j] = pc[j] /\ mem'[j] = mem[j])
    BY <1>1, <2>2 DEF CallTypeOK
  <2> QED
    BY <2>1, <2>3
<1>3. CASE \E i \in Intents : Continue(i)
  <2>1. PICK i \in Intents : Continue(i)
    BY <1>3
  <2>2. /\ \E to : pc' = [pc EXCEPT ![i] = to]
        /\ mem' = mem \/ \E s : mem' = [mem EXCEPT ![i] = s]
    BY <2>1
    DEF callRest, Continue, Dispatch, Announce, Run, EnsureWorker, FoundReady,
        TakeLock, SendRequest, SeesDeath, TimesOut,
        GotResult, CallAdapter, AdapterReturns, Verify, EmitMutated, Observe, Attest,
        Complete, Deny, Diverge, MarkFailed, ReportFailure, MarkOrphaned, Invalidate,
        Transition, Emit, EmitVerification, Goto
  <2>3. i = j \/ (pc'[j] = pc[j] /\ mem'[j] = mem[j])
    BY <1>1, <2>2 DEF CallTypeOK
  <2> QED
    BY <2>1, <2>3
<1>4. CASE \E w \in Workers : WorkerStep(w)
  BY <1>4 DEF WorkerStep, DeliverResult, callRest, callVars
<1>5. CASE Recover
  BY <1>1, <1>5, RecoverLeavesLane
<1>6. CASE Crash
  BY <1>6 DEF Crash, InCall
<1>7. CASE Restart \/ UNCHANGED vars
  BY <1>7 DEF Restart, vars, dispatchVars, callVars
<1> QED
  BY <1>2, <1>3, <1>4, <1>5, <1>6, <1>7 DEF Next, CallStep

(* Where a call stands after a step of its own, and what it had to show.   *)
LEMMA NextCalls ==
  ASSUME TypeOK, AnswersAreOfWrites, HeldHasLanded, CallsCollectProof, [Next]_vars
  PROVE  CallsCollectProof'
<1> DEFINE Ok(j) ==
      /\ pc'[j] # "adapter"
      /\ pc'[j] \in {"verify", "mutated", "observe", "attest", "complete"} => j \in performed'
      /\ pc'[j] \in {"attest", "complete"} => Bytes[j] \in landed'[Target[j]]
      /\ pc'[j] = "complete" => TRUE \in attested'[j]
<1> SUFFICES ASSUME NEW j \in Intents \ InProcess PROVE Ok(j)
  BY DEF CallsCollectProof
<1>1. /\ CallTypeOK /\ performed \subseteq performed' /\ attested[j] \subseteq attested'[j]
      /\ Target[j] \in Paths /\ Bytes[j] \in Contents
      /\ landed[Target[j]] \subseteq landed'[Target[j]]
  BY EvidenceStays, LaneAssumption DEF TypeOK, DispatchTypeOK
<1>2. /\ pc[j] # "adapter"
      /\ pc[j] \in {"verify", "mutated", "observe", "attest", "complete"} => j \in performed
      /\ pc[j] \in {"attest", "complete"} => Bytes[j] \in landed[Target[j]]
      /\ pc[j] = "complete" => TRUE \in attested[j]
  BY DEF CallsCollectProof
<1>3. CASE pc'[j] = pc[j]
  BY <1>1, <1>2, <1>3
<1>4. CASE \/ Refuse(j) \/ EncodeFails(j) \/ Submit(j) \/ pc'[j] = "gone"
           \/ Dispatch(j) \/ Announce(j) \/ Run(j) \/ EnsureWorker(j) \/ FoundReady(j)
           \/ TakeLock(j) \/ SendRequest(j)
           \/ SeesDeath(j) \/ TimesOut(j) \/ Complete(j) \/ Deny(j) \/ Diverge(j)
           \/ MarkFailed(j) \/ ReportFailure(j) \/ MarkOrphaned(j) \/ Invalidate(j)
  <2>1. pc'[j] \notin {"adapter", "verify", "mutated", "observe", "attest", "complete"}
    BY <1>1, <1>4
    DEF Refuse, EncodeFails, Submit, Dispatch, Announce, Run, EnsureWorker, FoundReady,
        TakeLock, SendRequest,
        SeesDeath, TimesOut, Complete, Deny, Diverge, MarkFailed, ReportFailure,
        MarkOrphaned, Invalidate, Transition, Emit, EmitVerification, Goto, CallTypeOK
  <2> QED
    BY <2>1
<1>5. CASE GotResult(j)
  <2>1. \/ pc'[j] = "verify" /\ answer[j] \in {"match", "differs"}
        \/ pc'[j] = "fail"
    BY <1>1, <1>5 DEF GotResult, Goto, CallTypeOK
  <2> QED
    BY <1>1, <2>1 DEF AnswersAreOfWrites
<1>6. CASE CallAdapter(j) \/ AdapterReturns(j)
  BY <1>2, <1>6 DEF CallAdapter, AdapterReturns, Goto
<1>7. CASE Verify(j) \/ EmitMutated(j)
  <2>1. /\ pc[j] \in {"verify", "mutated"}
        /\ pc'[j] \in {"mutated", "observe", "fail"}
    BY <1>1, <1>7 DEF Verify, EmitMutated, Transition, Emit, Goto, CallTypeOK
  <2> QED
    BY <1>1, <1>2, <2>1
<1>8. CASE Observe(j)
  <2>1. /\ pc[j] = "observe" /\ pc'[j] \in {"attest", "deny", "fail"}
        /\ pc'[j] = "attest" => Holds(j)
    BY <1>1, <1>8 DEF Observe, Emit, Goto, CallTypeOK
  <2>2. Holds(j) => Bytes[j] \in landed[Target[j]]
    BY <1>1 DEF Holds, HeldHasLanded
  <2> QED
    BY <1>1, <1>2, <2>1, <2>2
<1>9. CASE Attest(j)
  <2>1. /\ pc[j] = "attest"
        /\ \/ pc'[j] = "complete" /\ attested' = [attested EXCEPT ![j] = @ \cup {TRUE}]
           \/ pc'[j] = "fail"
    BY <1>1, <1>9 DEF Attest, EmitVerification, Goto, CallTypeOK
  <2>2. pc'[j] = "complete" => TRUE \in attested'[j]
    BY <1>1, <2>1 DEF CallTypeOK
  <2> QED
    BY <1>1, <1>2, <2>1, <2>2
<1> QED
  BY <1>3, <1>4, <1>5, <1>6, <1>7, <1>8, <1>9, CallMoves DEF Continue

-------------------------------------------------------------------------------
(* The records *)

(* Nothing is in a journal line that was not handed to it.                 *)
LEMMA RecordOfConcat ==
  ASSUME NEW l \in Seq(IntentExecutionState), NEW e \in Seq(IntentExecutionState), NEW s,
         HasRecord(l \o e, s)
  PROVE  HasRecord(l, s) \/ HasRecord(e, s)
<1>1. PICK k \in DOMAIN (l \o e) : (l \o e)[k] = s
  BY DEF HasRecord
<1>2. /\ l \o e \in Seq(IntentExecutionState) /\ Len(l \o e) = Len(l) + Len(e)
      /\ Len(l) \in Nat /\ Len(e) \in Nat
      /\ DOMAIN l = 1 .. Len(l) /\ DOMAIN e = 1 .. Len(e)
      /\ DOMAIN (l \o e) = 1 .. Len(l) + Len(e)
      /\ \A n \in 1 .. Len(l) + Len(e) :
           (l \o e)[n] = IF n <= Len(l) THEN l[n] ELSE e[n - Len(l)]
  BY ConcatProperties, LenProperties
<1>3. CASE k <= Len(l)
  BY <1>1, <1>2, <1>3 DEF HasRecord
<1>4. CASE ~(k <= Len(l))
  <2>1. k - Len(l) \in DOMAIN e /\ e[k - Len(l)] = s
    BY <1>1, <1>2, <1>4
  <2> QED
    BY <2>1 DEF HasRecord
<1> QED
  BY <1>3, <1>4

(* The same of what is left of a line behind its first record.             *)
LEMMA RecordOfTail ==
  ASSUME NEW e \in Seq(IntentExecutionState), e # <<>>, NEW s, HasRecord(Tail(e), s)
  PROVE  HasRecord(e, s)
<1>1. PICK k \in DOMAIN Tail(e) : Tail(e)[k] = s
  BY DEF HasRecord
<1>2. /\ Tail(e) \in Seq(IntentExecutionState) /\ Len(Tail(e)) = Len(e) - 1
      /\ \A n \in 1 .. Len(Tail(e)) : Tail(e)[n] = e[n + 1]
      /\ DOMAIN Tail(e) = 1 .. Len(Tail(e)) /\ DOMAIN e = 1 .. Len(e) /\ Len(e) \in Nat
  BY HeadTailProperties, LenProperties
<1>3. k + 1 \in DOMAIN e /\ e[k + 1] = s
  BY <1>1, <1>2
<1> QED
  BY <1>3 DEF HasRecord

(* log_transition() adds its own record, now or later, and no other.       *)
LEMMA LogAddsOne ==
  ASSUME JournalTypeOK, NEW i \in Intents, NEW s \in IntentExecutionState,
         LogReturns(i, s) \/ LogRaises(i, s), NEW j \in Intents, NEW r,
         Written(j, r)'
  PROVE  Written(j, r) \/ (j = i /\ r = s)
<1> DEFINE out == Outgoing(i, s)
<1>1. out \in [Intents -> Seq(IntentExecutionState)]
  BY OutgoingType
<1>2. HasRecord(out[j], r) => Written(j, r) \/ (j = i /\ r = s)
  <2>1. CASE j = i
    <3>1. out[j] = Append(buffer[j], s) /\ buffer[j] \in Seq(IntentExecutionState)
      BY <2>1 DEF Outgoing, JournalTypeOK
    <3>2. ASSUME NEW k \in DOMAIN Append(buffer[j], s), Append(buffer[j], s)[k] = r
          PROVE  HasRecord(buffer[j], r) \/ r = s
      BY <3>1, <3>2, AppendElement DEF HasRecord
    <3> QED
      BY <2>1, <3>1, <3>2 DEF HasRecord, Written
  <2>2. CASE j # i
    BY <2>2 DEF Outgoing, JournalTypeOK, Written
  <2> QED
    BY <2>1, <2>2
<1>3. wal[j] \in Seq(IntentExecutionState)
  BY DEF JournalTypeOK
<1>4. CASE Flush(i, s)
  <2>1. ~HasRecord(buffer'[j], r)
    BY <1>4 DEF Flush, NoLines, HasRecord
  <2>2. HasRecord(wal'[j], r)
    BY <2>1 DEF Written
  <2>3. \/ wal'[j] = wal[j] \o out[j]
        \/ out[j] # <<>> /\ wal'[j] = wal[j] \o Tail(out[j])
    BY <1>4 DEF Flush
  <2>4. CASE wal'[j] = wal[j] \o out[j]
    BY <1>1, <1>2, <1>3, <2>2, <2>4, RecordOfConcat DEF Written
  <2>5. CASE out[j] # <<>> /\ wal'[j] = wal[j] \o Tail(out[j])
    <3>1. Tail(out[j]) \in Seq(IntentExecutionState)
      BY <1>1, <2>5, HeadTailProperties
    <3>2. HasRecord(wal[j], r) \/ HasRecord(Tail(out[j]), r)
      BY <1>3, <2>2, <2>5, <3>1, RecordOfConcat
    <3>3. HasRecord(Tail(out[j]), r) => HasRecord(out[j], r)
      BY <1>1, <2>5, RecordOfTail
    <3> QED
      BY <1>2, <3>2, <3>3 DEF Written
  <2> QED
    BY <2>3, <2>4, <2>5
<1>5. CASE buffer' = out /\ UNCHANGED wal
  BY <1>2, <1>5 DEF Written
<1> QED
  BY <1>4, <1>5 DEF LogReturns, LogRaises

Logs(i, s) == LogReturns(i, s) \/ LogRaises(i, s)

(* Who writes what: a call at a step of its own, which it leaves, ...      *)
CallRecord(i, s) ==
  /\ pc'[i] # pc[i]
  /\ \/ s = "REJECTED" /\ pc[i] = "idle" /\ pc'[i] = "rejected"
     \/ s = "QUEUED" /\ pc[i] = "idle"
     \/ s = "DISPATCHED" /\ pc[i] = "dispatch"
     \/ s = "RUNNING" /\ pc[i] = "run"
     \/ s = "COMPLETED" /\ pc[i] = "complete"
     \/ s = "VERIFYING" /\ pc[i] = "verify"
     \/ s = "ORPHANED" /\ pc[i] = "orphan"
     \/ s = "FAILED" /\ pc[i] \in {"diverged", "fail"}
     \/ s = "ABORTED" /\ pc[i] = "fail" /\ mem[i] = "QUEUED"

(* ... and the recovery about an intent of its scan or the one it          *)
(* reconciles.                                                             *)
RecoveryRecord(i, s) ==
  \/ /\ rec = "scan" /\ i \in todo
     /\ \/ s = "ORPHANED" /\ Current(seen[i]) = "RUNNING"
        \/ s = "ABORTED" /\ Current(seen[i]) \in {"QUEUED", "DISPATCHED"}
  \/ rec = "recover" /\ i = who /\ s = "RECOVERING"
  \/ rec = "settle" /\ i = who /\ s = IF matched THEN "RECONCILED" ELSE "FAILED"

(* The records of a step.                                                  *)
LEMMA JournalSteps ==
  ASSUME TypeOK, [Next]_vars
  PROVE  \/ UNCHANGED <<wal, buffer, tail>>
         \/ Crash /\ wal' = wal /\ buffer' = NoLines
         \/ \E i \in Intents, s \in IntentExecutionState :
               Logs(i, s) /\ (CallRecord(i, s) \/ RecoveryRecord(i, s))
<1> USE DEF IntentExecutionState, Logs
<1>1. CallTypeOK
  BY DEF TypeOK, DispatchTypeOK
<1>2. CASE \E i \in Intents : Start(i)
  <2>1. PICK i \in Intents : Refuse(i) \/ EncodeFails(i) \/ Submit(i)
    BY <1>2 DEF Start
  <2>2. CASE Refuse(i) \/ Submit(i)
    BY <1>1, <2>2 DEF Refuse, Submit, Transition, Goto, CallRecord, CallTypeOK
  <2>3. CASE EncodeFails(i)
    BY <2>3 DEF EncodeFails, callRest, journalVars
  <2> QED
    BY <2>1, <2>2, <2>3
<1>3. CASE \E i \in Intents : Continue(i)
  <2>1. PICK i \in Intents : Continue(i)
    BY <1>3
  <2>2. CASE Dispatch(i) \/ Run(i) \/ Complete(i)
    BY <1>1, <2>2 DEF Dispatch, Run, Complete, Transition, Goto, CallRecord, CallTypeOK
  <2>3. CASE Verify(i) \/ Diverge(i) \/ MarkOrphaned(i)
    BY <1>1, <2>3
    DEF Verify, Diverge, MarkOrphaned, Transition, Goto, CallRecord, CallTypeOK, Exposed, InCall
  <2>4. CASE MarkFailed(i)
    <3>1. CASE mem[i] \in TERMINAL_STATES
      BY <2>4, <3>1 DEF MarkFailed, callRest, journalVars
    <3>2. CASE mem[i] \notin TERMINAL_STATES
      <4> DEFINE s == IF mem[i] = "QUEUED" THEN "ABORTED" ELSE "FAILED"
      <4>1. Logs(i, s) /\ s \in IntentExecutionState
        BY <2>4, <3>2 DEF MarkFailed, Transition
      <4>2. CallRecord(i, s)
        BY <1>1, <2>4, <3>2
        DEF MarkFailed, Transition, Goto, CallRecord, CallTypeOK, Exposed, InCall
      <4> QED
        BY <4>1, <4>2
    <3> QED
      BY <3>1, <3>2
  <2>5. CASE ~(\/ Dispatch(i) \/ Run(i) \/ Verify(i) \/ Diverge(i) \/ MarkOrphaned(i)
               \/ Complete(i) \/ MarkFailed(i))
    BY <2>1, <2>5
    DEF Continue, Announce, EnsureWorker, FoundReady,
        TakeLock, SendRequest, SeesDeath, TimesOut, GotResult,
        CallAdapter, AdapterReturns, EmitMutated, Observe, Attest, Deny, ReportFailure,
        Invalidate, Emit, EmitVerification, callRest, journalVars
  <2> QED
    BY <2>1, <2>2, <2>3, <2>4, <2>5
<1>4. CASE \E w \in Workers : WorkerStep(w)
  BY <1>4 DEF WorkerStep, DeliverResult, callRest, journalVars
<1>5. CASE Recover
  <2>1. CASE \E i \in Intents : OrphanRunning(i) \/ AbortUnsent(i)
    BY <2>1 DEF OrphanRunning, AbortUnsent, RecoveryLogs, RecoveryRecord
  <2>2. CASE LogRecovering \/ SettleOrphan
    BY <2>2 DEF LogRecovering, SettleOrphan, RecoveryLogs, RecoveryRecord, TypeOK
  <2>3. CASE \/ \E i \in Intents : Reconcile(i)
             \/ Scan \/ PublishInvalidated \/ ScanEnds \/ ObserveEffect \/ PublishVerdict
    BY <2>3
    DEF Scan, ScanEnds, Reconcile, ReconcileFrom, PublishInvalidated, RecoveryEmits,
        ObserveEffect, PublishVerdict, dispatchVars, journalVars
  <2> QED
    BY <1>5, <2>1, <2>2, <2>3 DEF Recover
<1>6. CASE Crash \/ Restart \/ UNCHANGED vars
  BY <1>6 DEF Crash, JournalCrash, Restart, vars, dispatchVars, journalVars
<1> QED
  BY <1>2, <1>3, <1>4, <1>5, <1>6 DEF Next, CallStep

(* The record COMPLETED is written by Complete alone, which stands behind  *)
(* the evidence.                                                           *)
LEMMA NewCompleted ==
  ASSUME TypeOK, [Next]_vars, NEW j \in Intents, Written(j, "COMPLETED")'
  PROVE  Written(j, "COMPLETED") \/ pc[j] = "complete"
<1>1. CASE wal' = wal /\ (buffer' = buffer \/ buffer' = NoLines)
  BY <1>1 DEF Written, HasRecord, NoLines
<1>2. ASSUME NEW i \in Intents, NEW s \in IntentExecutionState, Logs(i, s),
             CallRecord(i, s) \/ RecoveryRecord(i, s)
      PROVE  Written(j, "COMPLETED") \/ pc[j] = "complete"
  <2>1. Written(j, "COMPLETED") \/ (j = i /\ s = "COMPLETED")
    BY <1>2, LogAddsOne DEF Logs, TypeOK, DispatchTypeOK
  <2> QED
    BY <1>2, <2>1 DEF CallRecord, RecoveryRecord
<1> QED
  BY <1>1, <1>2, JournalSteps

(* So every record COMPLETED has its evidence.                             *)
LEMMA NextRecords ==
  ASSUME TypeOK, CallsCollectProof, RecordsAreProved, [Next]_vars
  PROVE  RecordsAreProved'
<1> SUFFICES ASSUME NEW j \in Intents \ InProcess, Written(j, "COMPLETED")'
             PROVE  Proved(j)'
  BY DEF RecordsAreProved
<1>1. Proved(j)
  BY NewCompleted DEF CallsCollectProof, RecordsAreProved, Proved
<1>2. /\ performed \subseteq performed' /\ attested[j] \subseteq attested'[j]
      /\ landed[Target[j]] \subseteq landed'[Target[j]]
  BY EvidenceStays, LaneAssumption
<1> QED
  BY <1>1, <1>2 DEF Proved

-------------------------------------------------------------------------------
(* At first there is nothing to prove.                                     *)
LEMMA InitEvidence == Init => Evidence
<1> SUFFICES ASSUME Init PROVE Evidence
  OBVIOUS
<1>1. /\ \A w \in Workers : workers[w] = NoWorker
      /\ \A i \in Intents : answer[i] = "none" /\ pc[i] = "idle"
      /\ wal = NoLines /\ buffer = NoLines
      /\ \A p \in Paths, c \in Contents : file[p] = <<c>> => c \in landed[p]
  BY DEF Init, DispatchInit, JournalInit, LaneInit
<1>2. AnswersAreOfWrites
  BY <1>1 DEF AnswersAreOfWrites, Sincere, NoWorker
<1>3. HeldHasLanded /\ CallsCollectProof
  BY <1>1 DEF HeldHasLanded, CallsCollectProof
<1>4. RecordsAreProved
  BY <1>1 DEF RecordsAreProved, Written, HasRecord, NoLines
<1> QED
  BY <1>2, <1>3, <1>4 DEF Evidence

(* Every step keeps the evidence complete.                                 *)
LEMMA NextEvidence == TypeOK /\ Evidence /\ [Next]_vars => Evidence'
BY NextSincere, NextHeld, NextCalls, NextRecords DEF Evidence

(* verify_and_complete(): COMPLETED is journaled, or waits in the file     *)
(* object's buffer, only for an intent of the worker lane whose own write  *)
(* took place, left exactly the intended bytes and was attested, whatever  *)
(* fails and even if recovery runs beside dispatch.                        *)
THEOREM CompletedIsProved == Spec => []CompletedWasProved
<1>1. Evidence => CompletedWasProved
  BY DEF Evidence, RecordsAreProved, Written, Proved, CompletedWasProved
<1> QED
  BY <1>1, InitType, NextType, InitEvidence, NextEvidence, PTL DEF Spec

-------------------------------------------------------------------------------
(***************************************************************************)
(* What the journal says about an intent that was withdrawn, and what a    *)
(* caller is told: for any intents, files, workers and bounds on the       *)
(* faults, the journal's included, while recovery and dispatch are apart.  *)
(***************************************************************************)

(* No record yet, or none past DISPATCHED.                                 *)
Unsent == {"CREATED", "QUEUED", "DISPATCHED"}

(* The intent has no effect and will have none: its call is over, and no   *)
(* worker has its request.                                                 *)
Inert(i) ==
  /\ i \notin performed
  /\ pc[i] \in Ended
  /\ \A w \in Workers : \A k \in DOMAIN workers[w].inbox : workers[w].inbox[k] # i

(* While recovery runs, no call does.                                      *)
Alone == rec # "off" => Quiescent

(* What the early steps of a call have not yet written or reached.         *)
EarlyCalls ==
  \A i \in Intents :
    /\ pc[i] = "idle" => \A s \in IntentExecutionState : ~Written(i, s)
    /\ pc[i] \in {"dispatch", "announce", "run"} => ~Written(i, "RUNNING")
    /\ pc[i] \in Exposed => mem[i] # "QUEUED"

(* Behind RUNNING, neither the file nor what the file object will add to   *)
(* it ends in a state before it.                                           *)
RunningIsBehind ==
  \A i \in Intents :
    /\ HasRecord(wal[i], "RUNNING") => Current(wal[i]) \notin Unsent
    /\ Written(i, "RUNNING") /\ buffer[i] # <<>> => Current(buffer[i]) \notin Unsent

WithdrawnAreInert ==
  \A i \in Intents :
    Written(i, "ABORTED") \/ Written(i, "REJECTED") \/ pc[i] = "rejected" => Inert(i)

(* Recovery works on intents that were submitted and not completed, and    *)
(* what its scan takes for unsent is.                                      *)
RecoveryTargets ==
  /\ rec \in {"scan", "invalidate"} =>
       \A i \in todo : /\ pc[i] \notin {"idle", "completed"}
                       /\ Current(seen[i]) \in Unsent => Inert(i)
  /\ rec \in {"recover", "observe", "publish", "settle"} => pc[who] \notin {"idle", "completed"}

(* A success is the last word on its intent.                               *)
SuccessIsLast ==
  \A i \in Intents :
    pc[i] = "completed" => Current(wal[i]) = "COMPLETED" /\ buffer[i] = <<>>

Outcome ==
  /\ Alone /\ EarlyCalls /\ RunningIsBehind
  /\ WithdrawnAreInert /\ RecoveryTargets /\ SuccessIsLast

-------------------------------------------------------------------------------
(* Recovery and dispatch *)

(* A call that goes on is under way.                                       *)
LEMMA ContinueIsInCall ==
  ASSUME NEW i \in Intents, Continue(i)
  PROVE  pc[i] \in InCall
BY DEF Continue, Dispatch, Announce, Run, EnsureWorker, FoundReady,
       TakeLock, SendRequest, SeesDeath, TimesOut,
       GotResult, CallAdapter, AdapterReturns, Verify, EmitMutated, Observe, Attest,
       Complete, Deny, Diverge, MarkFailed, ReportFailure, MarkOrphaned, Invalidate,
       Transition, Emit, EmitVerification, Goto, InCall

(* While recovery runs, the calls rest.                                    *)
LEMMA CallsRest ==
  ASSUME RecoveryAlone, Alone, rec # "off", CallStep
  PROVE  UNCHANGED <<pc, mem, attested, journalVars>>
<1>1. \A i \in Intents : ~Start(i) /\ ~Continue(i)
  BY ContinueIsInCall DEF Start, MayDispatch, Alone, Quiescent
<1> QED
  BY <1>1 DEF CallStep, WorkerStep, DeliverResult, callVars, callRest, journalVars

(* A recovery begins when no call is under way, and then none begins.      *)
LEMMA NextAlone ==
  ASSUME RecoveryAlone, TypeOK, Alone, [Next]_vars
  PROVE  Alone'
<1>1. CASE CallStep
  <2>1. rec' = rec
    BY <1>1 DEF CallStep, recVars
  <2> QED
    BY <1>1, <2>1, CallsRest DEF Alone, Quiescent
<1>2. CASE Recover
  <2>1. UNCHANGED pc
    BY <1>2, RecoverLeavesLane DEF TypeOK, DispatchTypeOK
  <2>2. rec # "off" \/ Quiescent
    BY <1>2
    DEF Recover, OrphanRunning, AbortUnsent, LogRecovering, SettleOrphan, Scan, ScanEnds,
        Reconcile, ReconcileFrom, MayRecover, PublishInvalidated, ObserveEffect,
        PublishVerdict
  <2> QED
    BY <2>1, <2>2 DEF Alone, Quiescent
<1>3. CASE Crash
  BY <1>3 DEF Crash, Alone
<1>4. CASE Restart \/ UNCHANGED vars
  BY <1>4 DEF Restart, vars, dispatchVars, callVars, recVars, Alone, Quiescent
<1> QED
  BY <1>1, <1>2, <1>3, <1>4 DEF Next

-------------------------------------------------------------------------------
(* The calls *)

(* What a call is doing while it has not reached RUNNING, and what its     *)
(* state machine says behind it.                                           *)
LEMMA CallOrder ==
  ASSUME TypeOK, [Next]_vars, NEW j \in Intents
  PROVE  /\ pc'[j] = "idle" => pc[j] = "idle"
         /\ pc'[j] \in {"dispatch", "announce", "run"} =>
              pc[j] \in {"idle", "dispatch", "announce"} \/ pc'[j] = pc[j]
         /\ pc'[j] \in Exposed =>
              \/ pc[j] \in Exposed /\ (mem'[j] = mem[j] \/ mem'[j] # "QUEUED")
              \/ mem'[j] = "RUNNING"
         /\ pc[j] \in Ended => pc'[j] \in {pc[j], "gone"}
         /\ pc'[j] = "completed" /\ pc[j] # "completed" =>
              pc[j] = "complete" /\ LogReturns(j, "COMPLETED")
         /\ pc'[j] = "rejected" /\ pc[j] # "rejected" => pc[j] = "idle"
<1> USE DEF Exposed, InCall, Ended
<1>1. CallTypeOK
  BY DEF TypeOK, DispatchTypeOK
<1>2. CASE pc'[j] \in {pc[j], "gone"} /\ mem'[j] \in {mem[j], "CREATED"}
  BY <1>2
<1>3. CASE Refuse(j) \/ EncodeFails(j) \/ Submit(j)
  BY <1>1, <1>3 DEF Refuse, EncodeFails, Submit, Transition, Goto, CallTypeOK
<1>4. CASE Dispatch(j) \/ Run(j) \/ Verify(j) \/ Complete(j) \/ Diverge(j) \/ MarkOrphaned(j)
  BY <1>1, <1>4
  DEF Dispatch, Run, Verify, Complete, Diverge, MarkOrphaned, Transition, Goto, CallTypeOK
<1>5. CASE Announce(j) \/ EmitMutated(j) \/ Observe(j) \/ Attest(j) \/ Deny(j)
           \/ ReportFailure(j) \/ Invalidate(j)
  BY <1>1, <1>5
  DEF Announce, EmitMutated, Observe, Attest, Deny, ReportFailure, Invalidate, Emit,
      EmitVerification, Goto, CallTypeOK
<1>6. CASE EnsureWorker(j) \/ FoundReady(j)
           \/ TakeLock(j) \/ SendRequest(j) \/ SeesDeath(j) \/ TimesOut(j) \/ GotResult(j)
           \/ CallAdapter(j) \/ AdapterReturns(j)
  BY <1>1, <1>6
  DEF EnsureWorker, FoundReady,
      TakeLock, SendRequest, SeesDeath, TimesOut, GotResult, CallAdapter,
      AdapterReturns, callRest, Goto, CallTypeOK
<1>7. CASE MarkFailed(j)
  BY <1>1, <1>7 DEF MarkFailed, Transition, callRest, Goto, CallTypeOK
<1> QED
  BY <1>2, <1>3, <1>4, <1>5, <1>6, <1>7, CallMoves DEF Continue

(* Who acts: a call at its adapter, or the request a worker is at.         *)
LEMMA NewlyPerformed ==
  ASSUME TypeOK, [Next]_vars, NEW j \in performed'
  PROVE  \/ j \in performed
         \/ pc[j] = "execute"
         \/ \E w \in Workers : Working(w) /\ j = Head(workers[w].inbox)
<1>1. LaneTypeOK
  BY DEF TypeOK, DispatchTypeOK
<1>2. CASE \E i \in Intents : Start(i)
  BY <1>2 DEF Start, Refuse, EncodeFails, Submit, Transition, laneVars
<1>3. CASE \E i \in Intents : Continue(i)
  <2>1. PICK i \in Intents : Continue(i)
    BY <1>3
  <2>2. CASE CallAdapter(i)
    BY <2>2 DEF CallAdapter, Goto
  <2>3. CASE ~CallAdapter(i)
    BY <2>1, <2>3
    DEF Continue, Dispatch, Announce, Run, EnsureWorker, Launch, FoundReady,
        TakeLock, SendRequest, SeesDeath,
        TimesOut, GotResult, AdapterReturns, Verify, EmitMutated, Observe, Attest,
        Complete, Deny, Diverge, MarkFailed, ReportFailure, MarkOrphaned, Invalidate,
        Transition, Emit, EmitVerification, laneVars, storage
  <2> QED
    BY <2>2, <2>3
<1>4. CASE \E w \in Workers : WorkerStep(w)
  <2>1. PICK w \in Workers : WorkerStep(w)
    BY <1>4
  <2>2. CASE WriteTarget(w)
    BY <2>2 DEF WriteTarget
  <2>3. CASE ~WriteTarget(w)
    BY <2>1, <2>3
    DEF WorkerStep, DeliverResult, TakeFrame, Handshake, HeartbeatTimeout, FinishStop,
        ReadEOF, RefuseRequest, ReplyToWrite, ProcessDies, storage
  <2> QED
    BY <2>2, <2>3
<1>5. CASE Recover
  BY <1>5, RecoverLeavesLane DEF TypeOK, DispatchTypeOK, laneVars
<1>6. CASE Crash \/ Restart \/ UNCHANGED vars
  BY <1>6 DEF Crash, LaneCrash, storage, Restart, vars, dispatchVars, laneVars
<1> QED
  BY <1>2, <1>3, <1>4, <1>5, <1>6 DEF Next, CallStep

(* What is in a pipe was there before, or a call has put it there.         *)
LEMMA NewlySent ==
  ASSUME TypeOK, [Next]_vars, NEW u \in Workers, NEW k \in DOMAIN workers'[u].inbox
  PROVE  \/ \E n \in DOMAIN workers[u].inbox : workers'[u].inbox[k] = workers[u].inbox[n]
         \/ pc[workers'[u].inbox[k]] = "send"
<1> DEFINE q == workers[u].inbox
<1>1. LaneTypeOK /\ q \in Seq(Intents)
  BY DEF TypeOK, DispatchTypeOK, LaneTypeOK
<1>2. CASE workers'[u].inbox = q
  BY <1>2
<1>3. CASE workers'[u].inbox = <<>>
  BY <1>3
<1>4. CASE q # <<>> /\ workers'[u].inbox = Tail(q)
  <2>1. /\ Tail(q) \in Seq(Intents) /\ Len(Tail(q)) = Len(q) - 1
        /\ \A n \in 1 .. Len(Tail(q)) : Tail(q)[n] = q[n + 1]
    BY <1>1, <1>4, HeadTailProperties
  <2>2. k \in 1 .. Len(q) - 1 /\ DOMAIN q = 1 .. Len(q) /\ Len(q) \in Nat
    BY <1>1, <1>4, <2>1, LenProperties
  <2>3. k + 1 \in DOMAIN q /\ Tail(q)[k] = q[k + 1]
    BY <2>1, <2>2
  <2> QED
    BY <1>4, <2>3
<1>5. CASE \E v : \E i \in Intents : pc[i] = "send" /\ SendFrame(v, i)
  BY <1>1, <1>5, SendAddsOne
<1>6. CASE \E w \in Workers : WorkerStep(w)
  BY <1>1, <1>2, <1>3, <1>4, <1>6, PipesOnlyShrink DEF WorkerStep, DeliverResult
<1>7. CASE \E v : Launch(v)
  BY <1>1, <1>2, <1>3, <1>7, LaunchKeepsPipes
<1>8. CASE Crash
  BY <1>3, <1>8 DEF Crash, LaneCrash, NoWorker
<1> QED
  BY <1>2, <1>5, <1>6, <1>7, <1>8, LaneSteps

(* An inert intent stays inert.                                            *)
LEMMA InertStays ==
  ASSUME TypeOK, [Next]_vars, NEW i \in Intents, Inert(i)
  PROVE  Inert(i)'
<1>1. LaneTypeOK
  BY DEF TypeOK, DispatchTypeOK
<1>2. pc[i] \in Ended /\ pc[i] # "execute" /\ pc[i] # "send"
  BY DEF Inert, Ended
<1>3. pc'[i] \in Ended
  BY <1>2, CallOrder DEF Ended
<1>4. i \notin performed'
  <2>1. \A w \in Workers : Working(w) => i # Head(workers[w].inbox)
    BY <1>1, WorkingOn DEF Inert
  <2> QED
    BY <1>2, <2>1, NewlyPerformed DEF Inert
<1>5. ASSUME NEW w \in Workers, NEW k \in DOMAIN workers'[w].inbox
      PROVE  workers'[w].inbox[k] # i
  BY <1>2, <1>5, NewlySent DEF Inert
<1> QED
  BY <1>3, <1>4, <1>5 DEF Inert

-------------------------------------------------------------------------------
(* The journal *)

(* Where a lineage ends.                                                   *)
LEMMA CurrentOfConcat ==
  ASSUME NEW l \in Seq(IntentExecutionState), NEW e \in Seq(IntentExecutionState), e # <<>>
  PROVE  Current(l \o e) = Current(e)
<1>1. /\ l \o e \in Seq(IntentExecutionState) /\ Len(l \o e) = Len(l) + Len(e)
      /\ Len(l) \in Nat /\ Len(e) \in Nat \ {0}
      /\ \A n \in 1 .. Len(l) + Len(e) :
           (l \o e)[n] = IF n <= Len(l) THEN l[n] ELSE e[n - Len(l)]
  BY ConcatProperties, LenProperties, EmptySeq
<1>2. (l \o e)[Len(l) + Len(e)] = e[Len(e)]
  BY <1>1
<1>3. l \o e # <<>>
  BY <1>1, ConcatEqualIffEmpty
<1> QED
  BY <1>1, <1>2, <1>3 DEF Current

(* Dropping the first record does not move the end.                        *)
LEMMA CurrentOfTail ==
  ASSUME NEW e \in Seq(IntentExecutionState), e # <<>>, Tail(e) # <<>>
  PROVE  Current(Tail(e)) = Current(e)
<1>1. /\ Tail(e) \in Seq(IntentExecutionState) /\ Len(Tail(e)) = Len(e) - 1
      /\ \A n \in 1 .. Len(Tail(e)) : Tail(e)[n] = e[n + 1]
      /\ Len(e) \in Nat /\ Len(Tail(e)) \in Nat \ {0}
  BY HeadTailProperties, LenProperties, EmptySeq
<1>2. Tail(e)[Len(Tail(e))] = e[Len(e)]
  BY <1>1
<1> QED
  BY <1>2 DEF Current

(* An appended record is the end.                                          *)
LEMMA CurrentOfAppend ==
  ASSUME NEW l \in Seq(IntentExecutionState), NEW s \in IntentExecutionState
  PROVE  Current(Append(l, s)) = s
BY AppendProperties DEF Current

(* What a lineage ends in, if it is not empty, is one of its records.      *)
LEMMA CurrentIsRecord ==
  ASSUME NEW l \in Seq(IntentExecutionState), l # <<>>
  PROVE  Current(l) \in IntentExecutionState /\ HasRecord(l, Current(l))
<1>1. Len(l) \in Nat \ {0} /\ DOMAIN l = 1 .. Len(l)
  BY LenProperties, EmptySeq
<1>2. Len(l) \in DOMAIN l
  BY <1>1
<1> QED
  BY <1>2, ElementOfSeq DEF Current, HasRecord

(* Each record in the file or the buffer was written by a call or by the   *)
(* recovery.                                                               *)
LEMMA WrittenBy ==
  ASSUME TypeOK, [Next]_vars, NEW j \in Intents, NEW s, Written(j, s)'
  PROVE  \/ Written(j, s)
         \/ s \in IntentExecutionState /\ (CallRecord(j, s) \/ RecoveryRecord(j, s))
<1>1. CASE wal' = wal /\ (buffer' = buffer \/ buffer' = NoLines)
  BY <1>1 DEF Written, HasRecord, NoLines
<1>2. ASSUME NEW i \in Intents, NEW r \in IntentExecutionState, Logs(i, r),
             CallRecord(i, r) \/ RecoveryRecord(i, r)
      PROVE  Written(j, s) \/ (j = i /\ s = r)
  BY <1>2, LogAddsOne DEF Logs, TypeOK, DispatchTypeOK
<1> QED
  BY <1>1, <1>2, JournalSteps

(* A record QUEUED or DISPATCHED does not come behind RUNNING, though the  *)
(* buffer may hold one back and a torn line may swallow one.               *)
LEMMA LogBehind ==
  ASSUME JournalTypeOK, RunningIsBehind,
         NEW i \in Intents, NEW s \in IntentExecutionState, Logs(i, s),
         s \in Unsent => ~Written(i, "RUNNING")
  PROVE  RunningIsBehind'
<1> DEFINE out == Outgoing(i, s)
           Runs(j) == Written(j, "RUNNING") \/ (j = i /\ s = "RUNNING")
<1>1. out \in [Intents -> Seq(IntentExecutionState)]
  BY OutgoingType
<1>2. ASSUME NEW j \in Intents, out[j] # <<>>, Runs(j)
      PROVE  Current(out[j]) \notin Unsent
  <2>1. CASE j = i
    <3>1. out[j] = Append(buffer[j], s) /\ buffer[j] \in Seq(IntentExecutionState)
      BY <2>1 DEF Outgoing, JournalTypeOK
    <3>2. Current(out[j]) = s
      BY <3>1, CurrentOfAppend
    <3> QED
      BY <1>2, <2>1, <3>2 DEF Unsent
  <2>2. CASE j # i
    <3>1. out[j] = buffer[j]
      BY <2>2 DEF Outgoing, JournalTypeOK
    <3> QED
      BY <1>2, <2>2, <3>1 DEF RunningIsBehind
  <2> QED
    BY <2>1, <2>2
<1>3. ASSUME NEW j \in Intents, Written(j, "RUNNING")'
      PROVE  Runs(j)
  BY <1>3, LogAddsOne DEF Logs
<1>4. CASE Flush(i, s)
  <2> SUFFICES ASSUME NEW j \in Intents, HasRecord(wal'[j], "RUNNING")
               PROVE  Current(wal'[j]) \notin Unsent
    BY <1>4 DEF RunningIsBehind, Flush, NoLines
  <2>1. Runs(j)
    BY <1>3 DEF Written
  <2>2. wal[j] \in Seq(IntentExecutionState) /\ out[j] \in Seq(IntentExecutionState)
    BY <1>1 DEF JournalTypeOK
  <2>3. \/ wal'[j] = wal[j] \o out[j]
        \/ out[j] # <<>> /\ wal'[j] = wal[j] \o Tail(out[j])
    BY <1>4 DEF Flush
  <2>4. CASE wal'[j] = wal[j]
    BY <2>4 DEF RunningIsBehind
  <2>5. CASE out[j] # <<>> /\ wal'[j] = wal[j] \o out[j]
    <3>1. Current(wal'[j]) = Current(out[j])
      BY <2>2, <2>5, CurrentOfConcat
    <3> QED
      BY <1>2, <2>1, <2>5, <3>1
  <2>6. CASE out[j] # <<>> /\ Tail(out[j]) # <<>> /\ wal'[j] = wal[j] \o Tail(out[j])
    <3>1. Tail(out[j]) \in Seq(IntentExecutionState)
      BY <2>2, <2>6, HeadTailProperties
    <3>2. Current(wal'[j]) = Current(Tail(out[j]))
      BY <2>2, <2>6, <3>1, CurrentOfConcat
    <3>3. Current(Tail(out[j])) = Current(out[j])
      BY <2>2, <2>6, CurrentOfTail
    <3> QED
      BY <1>2, <2>1, <2>6, <3>2, <3>3
  <2>7. wal[j] \o <<>> = wal[j]
    BY <2>2, ConcatEmptySeq
  <2> QED
    BY <2>3, <2>4, <2>5, <2>6, <2>7
<1>5. CASE buffer' = out /\ UNCHANGED wal
  BY <1>2, <1>3, <1>5 DEF RunningIsBehind
<1> QED
  BY <1>4, <1>5 DEF Logs, LogReturns, LogRaises

-------------------------------------------------------------------------------
(* The invariant, part by part *)

(* Records come from calls that move on, and from a recovery that works on *)
(* intents already submitted and not completed.                            *)
LEMMA RecoveryIsAboutCalls ==
  ASSUME RecoveryTargets, NEW i \in Intents, NEW s, RecoveryRecord(i, s)
  PROVE  pc[i] \notin {"idle", "completed"}
BY DEF RecoveryTargets, RecoveryRecord

(* Before its first record a call has none, before RUNNING it lacks that.  *)
LEMMA NextEarly ==
  ASSUME TypeOK, EarlyCalls, RecoveryTargets, [Next]_vars
  PROVE  EarlyCalls'
<1> SUFFICES ASSUME NEW j \in Intents
             PROVE  /\ pc'[j] = "idle" => \A s \in IntentExecutionState : ~Written(j, s)'
                    /\ pc'[j] \in {"dispatch", "announce", "run"} => ~Written(j, "RUNNING")'
                    /\ pc'[j] \in Exposed => mem'[j] # "QUEUED"
  BY DEF EarlyCalls
<1>1. ASSUME pc'[j] = "idle", NEW s \in IntentExecutionState
      PROVE  ~Written(j, s)'
  <2>1. pc[j] = "idle" /\ ~Written(j, s)
    BY <1>1, CallOrder DEF EarlyCalls
  <2>2. ~CallRecord(j, s) /\ ~RecoveryRecord(j, s)
    BY <1>1, <2>1, RecoveryIsAboutCalls DEF CallRecord
  <2> QED
    BY <2>1, <2>2, WrittenBy
<1>2. ASSUME pc'[j] \in {"dispatch", "announce", "run"}
      PROVE  ~Written(j, "RUNNING")'
  <2>1. pc[j] \in {"idle", "dispatch", "announce"} \/ pc'[j] = pc[j]
    BY <1>2, CallOrder
  <2>2. ~Written(j, "RUNNING")
    BY <1>2, <2>1 DEF EarlyCalls, IntentExecutionState
  <2>3. ~CallRecord(j, "RUNNING") /\ ~RecoveryRecord(j, "RUNNING")
    BY <2>1 DEF CallRecord, RecoveryRecord
  <2> QED
    BY <2>2, <2>3, WrittenBy
<1>3. ASSUME pc'[j] \in Exposed
      PROVE  mem'[j] # "QUEUED"
  BY <1>3, CallOrder DEF EarlyCalls
<1> QED
  BY <1>1, <1>2, <1>3

(* No record QUEUED or DISPATCHED comes behind RUNNING.                    *)
LEMMA NextBehind ==
  ASSUME TypeOK, EarlyCalls, RunningIsBehind, [Next]_vars
  PROVE  RunningIsBehind'
<1>1. CASE wal' = wal /\ (buffer' = buffer \/ buffer' = NoLines)
  BY <1>1 DEF RunningIsBehind, Written, HasRecord, NoLines
<1>2. ASSUME NEW i \in Intents, NEW s \in IntentExecutionState, Logs(i, s),
             CallRecord(i, s) \/ RecoveryRecord(i, s)
      PROVE  RunningIsBehind'
  <2>1. s \in Unsent => pc[i] \in {"idle", "dispatch"}
    BY <1>2 DEF CallRecord, RecoveryRecord, Unsent
  <2>2. s \in Unsent => ~Written(i, "RUNNING")
    BY <2>1 DEF EarlyCalls, IntentExecutionState
  <2> QED
    BY <1>2, <2>2, LogBehind DEF TypeOK, DispatchTypeOK
<1> QED
  BY <1>1, <1>2, JournalSteps

(* An intent that has never run, and whose call is over, is inert.         *)
LEMMA NeverRunIsInert ==
  ASSUME AnnouncedBeforeEffect, NEW i \in Intents,
         ~HasRecord(wal[i], "RUNNING"), pc[i] \in Ended
  PROVE  Inert(i)
BY DEF AnnouncedBeforeEffect, EffectWasAnnounced, Inert

(* What a call is refused with before it starts, it never acts on.         *)
LEMMA RefusedIsInert ==
  ASSUME TypeOK, AnnouncedBeforeEffect, EarlyCalls, [Next]_vars,
         NEW i \in Intents, pc[i] = "idle", pc'[i] = "rejected"
  PROVE  Inert(i)'
<1>1. LaneTypeOK /\ ~HasRecord(wal[i], "RUNNING")
  BY DEF TypeOK, DispatchTypeOK, EarlyCalls, Written, IntentExecutionState
<1>2. i \notin performed
  BY <1>1 DEF AnnouncedBeforeEffect, EffectWasAnnounced
<1>3. \A w \in Workers : \A k \in DOMAIN workers[w].inbox : workers[w].inbox[k] # i
  BY <1>1 DEF AnnouncedBeforeEffect
<1>4. i \notin performed'
  <2>1. \A w \in Workers : Working(w) => i # Head(workers[w].inbox)
    BY <1>1, <1>3, WorkingOn
  <2> QED
    BY <1>2, <2>1, NewlyPerformed
<1>5. ASSUME NEW w \in Workers, NEW k \in DOMAIN workers'[w].inbox
      PROVE  workers'[w].inbox[k] # i
  BY <1>3, <1>5, NewlySent
<1> QED
  BY <1>4, <1>5 DEF Inert, Ended

(* ABORTED and REJECTED are only ever journaled about an inert intent, and *)
(* "rejected" only ever answered for one.                                  *)
LEMMA NextWithdrawn ==
  ASSUME TypeOK, AnnouncedBeforeEffect, EarlyCalls, RecoveryTargets, WithdrawnAreInert,
         [Next]_vars
  PROVE  WithdrawnAreInert'
<1> SUFFICES ASSUME NEW j \in Intents,
                    Written(j, "ABORTED")' \/ Written(j, "REJECTED")' \/ pc'[j] = "rejected"
             PROVE  Inert(j)'
  BY DEF WithdrawnAreInert
<1>1. CASE Written(j, "ABORTED") \/ Written(j, "REJECTED") \/ pc[j] = "rejected"
  BY <1>1, InertStays DEF WithdrawnAreInert
<1>2. CASE pc'[j] = "rejected" /\ pc[j] # "rejected"
  BY <1>2, CallOrder, RefusedIsInert
<1>3. ASSUME NEW s \in {"ABORTED", "REJECTED"}, CallRecord(j, s)
      PROVE  Inert(j)'
  <2>1. CASE s = "REJECTED"
    BY <1>3, <2>1, RefusedIsInert DEF CallRecord
  <2>2. CASE s = "ABORTED"
    BY <1>3, <2>2 DEF CallRecord, EarlyCalls, Exposed, InCall
  <2> QED
    BY <2>1, <2>2
<1>4. ASSUME NEW s \in {"ABORTED", "REJECTED"}, RecoveryRecord(j, s)
      PROVE  Inert(j)'
  BY <1>4, InertStays DEF RecoveryRecord, RecoveryTargets, Unsent
<1> QED
  BY <1>1, <1>2, <1>3, <1>4, WrittenBy

(* What the scan reads of the file, while no call is under way.            *)
LEMMA ScanTargets ==
  ASSUME TypeOK, AnnouncedBeforeEffect, EarlyCalls, RunningIsBehind, SuccessIsLast,
         Quiescent, NEW i \in Intents,
         Current(wal[i]) \in {"QUEUED", "DISPATCHED", "RUNNING", "ORPHANED"}
  PROVE  /\ pc[i] \notin {"idle", "completed"}
         /\ Current(wal[i]) \in Unsent => Inert(i)
<1>1. wal[i] \in Seq(IntentExecutionState) /\ CallTypeOK
  BY DEF TypeOK, DispatchTypeOK, JournalTypeOK
<1>2. wal[i] # <<>>
  BY DEF Current
<1>3. Written(i, Current(wal[i])) /\ Current(wal[i]) \in IntentExecutionState
  BY <1>1, <1>2, CurrentIsRecord DEF Written
<1>4. pc[i] # "idle" /\ pc[i] # "completed"
  BY <1>3 DEF EarlyCalls, SuccessIsLast
<1>5. pc[i] \in Ended
  BY <1>1, <1>4 DEF Quiescent, CallTypeOK
<1>6. Current(wal[i]) \in Unsent => ~HasRecord(wal[i], "RUNNING")
  BY DEF RunningIsBehind
<1> QED
  BY <1>4, <1>5, <1>6, NeverRunIsInert

(* Recovery stays with intents that are submitted, open, and, where its    *)
(* scan says so, unsent: the calls rest while it works.                    *)
LEMMA NextTargets ==
  ASSUME RecoveryAlone, TypeOK, AnnouncedBeforeEffect, Outcome, [Next]_vars
  PROVE  RecoveryTargets'
<1> USE DEF Outcome, RecoveryTargets
<1>1. ASSUME UNCHANGED <<pc, seen>>, todo' \subseteq todo,
             rec' \in {"scan", "invalidate"} => rec \in {"scan", "invalidate"},
             rec' \in {"recover", "observe", "publish", "settle"} =>
               who' = who /\ rec \in {"recover", "observe", "publish", "settle"}
      PROVE  RecoveryTargets'
  BY <1>1, InertStays DEF TypeOK
<1>2. CASE CallStep
  <2>1. UNCHANGED recVars
    BY <1>2 DEF CallStep
  <2>2. CASE rec = "off"
    BY <2>1, <2>2 DEF recVars
  <2>3. CASE rec # "off"
    BY <1>1, <1>2, <2>1, <2>3, CallsRest DEF recVars
  <2> QED
    BY <2>2, <2>3
<1>3. CASE Recover
  <2>1. UNCHANGED pc
    BY <1>3, RecoverLeavesLane DEF TypeOK, DispatchTypeOK
  <2>2. CASE Scan
    <3>1. Quiescent /\ rec' = "scan" /\ seen' = wal
          /\ todo' = {i \in Intents : Current(wal[i]) \in {"QUEUED", "DISPATCHED", "RUNNING"}}
      BY <2>2 DEF Scan, MayRecover
    <3>2. ASSUME NEW i \in todo'
          PROVE  /\ i \in Intents /\ pc[i] \notin {"idle", "completed"}
                 /\ Current(wal[i]) \in Unsent => Inert(i)
      BY <3>1, <3>2, ScanTargets
    <3> QED
      BY <2>1, <3>1, <3>2, InertStays
  <2>3. CASE \E i \in Intents : Reconcile(i)
    <3>1. PICK i \in Intents : Reconcile(i)
      BY <2>3
    <3>2. Quiescent /\ Current(wal[i]) = "ORPHANED" /\ rec' = "recover" /\ who' = i
      BY <3>1 DEF Reconcile, ReconcileFrom, MayRecover
    <3>3. pc[i] \notin {"idle", "completed"}
      BY <3>2, ScanTargets
    <3> QED
      BY <2>1, <3>2, <3>3
  <2>4. CASE \/ \E i \in Intents : OrphanRunning(i) \/ AbortUnsent(i)
             \/ PublishInvalidated \/ ScanEnds
    <3>1. /\ rec \in {"scan", "invalidate"} /\ rec' \in {"scan", "invalidate", "off"}
          /\ UNCHANGED seen /\ todo' \subseteq todo
      BY <2>4
      DEF OrphanRunning, AbortUnsent, RecoveryLogs, PublishInvalidated, RecoveryEmits, ScanEnds
    <3> QED
      BY <1>1, <2>1, <3>1
  <2>5. CASE LogRecovering \/ ObserveEffect \/ PublishVerdict \/ SettleOrphan
    <3>1. /\ rec \in {"recover", "observe", "publish", "settle"}
          /\ rec' \in {"observe", "publish", "settle", "off"}
          /\ UNCHANGED <<seen, todo, who>>
      BY <2>5 DEF LogRecovering, RecoveryLogs, ObserveEffect, PublishVerdict, SettleOrphan
    <3> QED
      BY <1>1, <2>1, <3>1
  <2> QED
    BY <1>3, <2>2, <2>3, <2>4, <2>5 DEF Recover
<1>4. CASE Crash
  BY <1>4 DEF Crash
<1>5. CASE Restart \/ UNCHANGED vars
  BY <1>1, <1>5 DEF Restart, vars, dispatchVars, callVars, recVars
<1> QED
  BY <1>2, <1>3, <1>4, <1>5 DEF Next

(* A log_transition() leaves the lineage of an intent alone that it is not *)
(* about and that has nothing in the buffer.                               *)
LEMMA OthersStay ==
  ASSUME JournalTypeOK, NEW i \in Intents, NEW s, Logs(i, s),
         NEW j \in Intents, j # i, buffer[j] = <<>>
  PROVE  wal'[j] = wal[j] /\ buffer'[j] = <<>>
<1> DEFINE out == Outgoing(i, s)
<1>1. out[j] = <<>>
  BY DEF Outgoing, JournalTypeOK
<1>2. wal[j] \o <<>> = wal[j]
  BY ConcatEmptySeq DEF JournalTypeOK
<1>3. CASE Flush(i, s)
  BY <1>1, <1>2, <1>3 DEF Flush, NoLines
<1>4. CASE buffer' = out /\ UNCHANGED wal
  BY <1>1, <1>4
<1> QED
  BY <1>3, <1>4 DEF Logs, LogReturns, LogRaises

(* log_transition() that returns, and meets no torn line, ends the lineage *)
(* with its record.                                                        *)
LEMMA ReturnsIsLast ==
  ASSUME JournalTypeOK, NEW i \in Intents, NEW s \in IntentExecutionState,
         LogReturns(i, s), tail # "torn"
  PROVE  Current(wal'[i]) = s /\ buffer'[i] = <<>>
<1> DEFINE out == Append(buffer[i], s)
<1>1. wal[i] \in Seq(IntentExecutionState) /\ buffer[i] \in Seq(IntentExecutionState)
  BY DEF JournalTypeOK
<1>2. wal'[i] = wal[i] \o out /\ buffer'[i] = <<>>
  BY DEF LogReturns, Flush, Outgoing, JournalTypeOK, NoLines
<1>3. out \in Seq(IntentExecutionState) /\ out # <<>>
  BY <1>1, AppendProperties
<1> HIDE DEF out
<1>4. Current(wal[i] \o out) = Current(out)
  BY <1>1, <1>3, CurrentOfConcat
<1>5. Current(out) = s
  BY <1>1, CurrentOfAppend DEF out
<1> QED
  BY <1>2, <1>4, <1>5

(* A call answers success right behind its record, and nobody writes about *)
(* it after that.                                                          *)
LEMMA NextSuccess ==
  ASSUME TypeOK, AnnouncedBeforeEffect, RecoveryTargets, SuccessIsLast, [Next]_vars
  PROVE  SuccessIsLast'
<1> SUFFICES ASSUME NEW j \in Intents, pc'[j] = "completed"
             PROVE  Current(wal'[j]) = "COMPLETED" /\ buffer'[j] = <<>>
  BY DEF SuccessIsLast
<1>1. JournalTypeOK
  BY DEF TypeOK, DispatchTypeOK
<1>2. CASE pc[j] # "completed"
  <2>1. pc[j] = "complete" /\ LogReturns(j, "COMPLETED")
    BY <1>2, CallOrder
  <2>2. tail # "torn"
    BY <2>1 DEF AnnouncedBeforeEffect, InCall
  <2> QED
    BY <1>1, <2>1, <2>2, ReturnsIsLast DEF IntentExecutionState
<1>3. CASE pc[j] = "completed"
  <2>1. Current(wal[j]) = "COMPLETED" /\ buffer[j] = <<>>
    BY <1>3 DEF SuccessIsLast
  <2>2. CASE wal' = wal /\ (buffer' = buffer \/ buffer' = NoLines)
    BY <2>1, <2>2 DEF NoLines
  <2>3. ASSUME NEW i \in Intents, NEW s \in IntentExecutionState, Logs(i, s),
               CallRecord(i, s) \/ RecoveryRecord(i, s)
        PROVE  Current(wal'[j]) = "COMPLETED" /\ buffer'[j] = <<>>
    <3>1. i # j
      BY <1>3, <2>3, RecoveryIsAboutCalls DEF CallRecord
    <3> QED
      BY <1>1, <2>1, <2>3, <3>1, OthersStay
  <2> QED
    BY <2>2, <2>3, JournalSteps
<1> QED
  BY <1>2, <1>3

-------------------------------------------------------------------------------
(* At first nothing is written, withdrawn or recovered.                    *)
LEMMA InitOutcome == Init => Outcome
<1> SUFFICES ASSUME Init PROVE Outcome
  OBVIOUS
<1>1. /\ rec = "off" /\ wal = NoLines /\ buffer = NoLines
      /\ \A i \in Intents : pc[i] = "idle"
  BY DEF Init, DispatchInit, JournalInit
<1>2. \A i \in Intents : wal[i] = <<>> /\ buffer[i] = <<>>
  BY <1>1 DEF NoLines
<1>3. \A i \in Intents, s \in IntentExecutionState : ~Written(i, s)
  BY <1>2 DEF Written, HasRecord
<1>4. EarlyCalls
  BY <1>1, <1>3 DEF EarlyCalls, Exposed, InCall
<1>5. RunningIsBehind
  BY <1>2, <1>3 DEF RunningIsBehind, Written, IntentExecutionState
<1>6. WithdrawnAreInert
  BY <1>1, <1>3 DEF WithdrawnAreInert, IntentExecutionState
<1> QED
  BY <1>1, <1>4, <1>5, <1>6 DEF Outcome, Alone, RecoveryTargets, SuccessIsLast

(* Every step keeps the parts of the invariant, each by the others.        *)
LEMMA NextOutcome ==
  ASSUME RecoveryAlone
  PROVE  TypeOK /\ AnnouncedBeforeEffect /\ Outcome /\ [Next]_vars => Outcome'
BY NextAlone, NextEarly, NextBehind, NextWithdrawn, NextTargets, NextSuccess DEF Outcome

(* The invariant holds throughout.                                         *)
LEMMA OutcomeHolds ==
  ASSUME RecoveryAlone
  PROVE  Spec => []Outcome
BY InitType, NextType, InitAnnounces, NextAnnounces, InitOutcome, NextOutcome, PTL DEF Spec

(* prepare(), mark_failed() and scan_orphaned(): an intent that the        *)
(* journal declares ABORTED or REJECTED has not acted and never will, if   *)
(* recovery and dispatch are kept apart.                                   *)
THEOREM WithdrawnIsInert ==
  ASSUME RecoveryAlone
  PROVE  Spec => []WithdrawnNeverActs
<1>1. Outcome => WithdrawnNeverActs
  BY DEF Outcome, WithdrawnAreInert, WithdrawnNeverActs, Inert, Written
<1> QED
  BY <1>1, OutcomeHolds, PTL

(* dispatch_sync(): a call that answered success has COMPLETED as the last *)
(* word of the journal on its intent, and one that answered "rejected" has *)
(* no effect, if recovery and dispatch are kept apart.                     *)
THEOREM AnswersAreHonest ==
  ASSUME RecoveryAlone
  PROVE  Spec => []AnswerIsHonest
<1>1. Outcome => AnswerIsHonest
  BY DEF Outcome, WithdrawnAreInert, SuccessIsLast, AnswerIsHonest, Inert
<1> QED
  BY <1>1, OutcomeHolds, PTL

-------------------------------------------------------------------------------
(***************************************************************************)
(* A success that was published and then disowned: for any intents, files, *)
(* workers and bounds on the faults, the journal's included, while         *)
(* recovery and dispatch are kept apart.                                   *)
(***************************************************************************)

(* What the journal may end in behind a verification: no scan and no       *)
(* reconcile() takes such an intent up.                                    *)
Late == {"VERIFYING", "COMPLETED", "FAILED", "RECOVERING", "RECONCILED"}

LateIn(i) ==
  /\ Current(wal[i]) \in Late
  /\ buffer[i] # <<>> => Current(buffer[i]) \in Late

(* The lineage as it will be once the buffer is flushed.                   *)
Line(i) == wal[i] \o buffer[i]

Shows(q) ==
  \A k \in DOMAIN q : q[k] = "FAILED" => \E n \in 1 .. k - 1 : q[n] = "COMPLETED"

(* What a call has not written before its verdict, and where the journal   *)
(* stands while it is reached.                                             *)
BeforeVerdict ==
  \A i \in Intents :
    /\ ~Written(i, "CREATED")
    /\ pc[i] \in {"idle"} \cup (InCall \ {"fail", "report"}) => ~Written(i, "FAILED")
    /\ pc[i] \in {"idle"} \cup (InCall \ {"invalidate"}) => ~Written(i, "ORPHANED")
    /\ HasRecord(buffer[i], "FAILED") => Current(wal[i]) # "ORPHANED"

AtVerdict ==
  \A i \in Intents : pc[i] \in {"mutated", "observe", "attest", "complete"} =>
    Current(wal[i]) = "VERIFYING" /\ buffer[i] = <<>>

SuccessShows ==
  \A i \in Intents : TRUE \in attested[i] =>
    /\ pc[i] \in {"complete", "fail", "report"} \cup Ended
    /\ LateIn(i)
    /\ Shows(Line(i))
    /\ pc[i] = "fail" => HasRecord(Line(i), "COMPLETED")
    /\ tail = "torn" => buffer[i] = <<>>

(* A recovery judges only whom nobody has judged, on a whole file.         *)
RecoveryJudges ==
  /\ rec # "off" => tail # "torn"
  /\ rec \in {"scan", "invalidate"} => \A i \in todo : TRUE \notin attested[i]
  /\ rec \in {"recover", "observe", "publish"} => TRUE \notin attested[who]
  /\ rec = "settle" /\ TRUE \in attested[who] => matched
  /\ rec \in {"recover", "observe", "publish", "settle"} => ~Written(who, "FAILED")
  /\ rec \in {"observe", "publish", "settle"} =>
       Current(wal[who]) = "RECOVERING" /\ buffer[who] = <<>>

Verdicts == BeforeVerdict /\ AtVerdict /\ SuccessShows /\ RecoveryJudges

-------------------------------------------------------------------------------
(* What a recovery does not do between two of its steps.                   *)
LEMMA RecoveryMoves ==
  ASSUME [Next]_vars
  PROVE  /\ rec' = "recover" => \/ rec = "recover" /\ who' = who
                                \/ \E i \in Intents : Reconcile(i)
         /\ rec' = "observe" => who' = who /\ (rec = "observe" \/ LogRecovering)
         /\ rec' = "publish" => who' = who /\ \/ rec = "publish" /\ matched' = matched
                                              \/ ObserveEffect
         /\ rec' = "settle" => /\ who' = who /\ matched' = matched
                               /\ rec \in {"publish", "settle"}
<1>1. CASE Recover
  BY <1>1
  DEF Recover, OrphanRunning, AbortUnsent, LogRecovering, SettleOrphan, Scan, ScanEnds,
      Reconcile, ReconcileFrom, PublishInvalidated, RecoveryEmits, RecoveryLogs,
      ObserveEffect, PublishVerdict
<1>2. CASE CallStep \/ Crash \/ Restart \/ UNCHANGED vars
  BY <1>2 DEF CallStep, Crash, Restart, vars, recVars
<1> QED
  BY <1>1, <1>2 DEF Next

(* Who publishes a success: a call behind its observation, or a recovery   *)
(* that has found the intended bytes.                                      *)
LEMMA NewlyAttested ==
  ASSUME TypeOK, [Next]_vars, NEW j \in Intents, TRUE \in attested'[j]
  PROVE  \/ TRUE \in attested[j]
         \/ Attest(j) /\ pc'[j] = "complete"
         \/ PublishVerdict /\ rec' = "settle" /\ who = j /\ matched
<1>1. CallTypeOK
  BY DEF TypeOK, DispatchTypeOK
<1>2. CASE \E i \in Intents : Start(i)
  BY <1>2 DEF Start, Refuse, EncodeFails, Submit, Transition, callRest
<1>3. CASE \E i \in Intents : Continue(i)
  <2>1. PICK i \in Intents : Continue(i)
    BY <1>3
  <2>2. CASE Attest(i)
    BY <1>1, <2>2 DEF Attest, EmitVerification, EmitRaises, Goto, CallTypeOK
  <2>3. CASE Deny(i) \/ ReportFailure(i)
    BY <1>1, <2>3 DEF Deny, ReportFailure, EmitVerification, EmitRaises, CallTypeOK
  <2>4. CASE ~(Attest(i) \/ Deny(i) \/ ReportFailure(i))
    BY <2>1, <2>4
    DEF Continue, Dispatch, Announce, Run, EnsureWorker, FoundReady,
        TakeLock, SendRequest, SeesDeath, TimesOut,
        GotResult, CallAdapter, AdapterReturns, Verify, EmitMutated, Observe, Complete,
        Diverge, MarkFailed, MarkOrphaned, Invalidate, Transition, Emit, EmitRaises, callRest
  <2> QED
    BY <2>2, <2>3, <2>4
<1>4. CASE \E w \in Workers : WorkerStep(w)
  BY <1>4 DEF WorkerStep, DeliverResult, callRest, callVars
<1>5. CASE Recover
  <2>1. CASE PublishVerdict
    <3>1. CASE TRUE \in attested[j]
      BY <3>1
    <3>2. CASE TRUE \notin attested[j]
      <4>1. /\ rec' = "settle" /\ who \in Intents
            /\ attested' = [attested EXCEPT ![who] = @ \cup {matched}]
        BY <2>1, <3>2 DEF PublishVerdict, EmitRaises, TypeOK
      <4>2. attested'[j] = IF j = who THEN attested[j] \cup {matched} ELSE attested[j]
        BY <1>1, <4>1 DEF CallTypeOK
      <4>3. j = who /\ TRUE \in {matched}
        BY <3>2, <4>2
      <4>4. matched
        BY <4>3
      <4> QED
        BY <2>1, <4>1, <4>3, <4>4
    <3> QED
      BY <3>1, <3>2
  <2>2. CASE ~PublishVerdict
    BY <1>5, <2>2
    DEF Recover, OrphanRunning, AbortUnsent, LogRecovering, SettleOrphan, Scan, ScanEnds,
        Reconcile, ReconcileFrom, PublishInvalidated, RecoveryEmits, EmitRaises,
        RecoveryLogs, ObserveEffect, dispatchVars, callVars
  <2> QED
    BY <2>1, <2>2
<1>6. CASE Crash \/ Restart \/ UNCHANGED vars
  BY <1>6 DEF Crash, Restart, vars, dispatchVars, callVars
<1> QED
  BY <1>2, <1>3, <1>4, <1>5, <1>6 DEF Next, CallStep

(* Lineages *)

(* A record behind a lineage that shows its COMPLETED.                     *)
LEMMA ShowsAppend ==
  ASSUME NEW q \in Seq(IntentExecutionState), NEW s \in IntentExecutionState,
         Shows(q), s = "FAILED" => HasRecord(q, "COMPLETED")
  PROVE  Shows(Append(q, s))
<1>1. /\ Len(q) \in Nat /\ DOMAIN q = 1 .. Len(q)
      /\ DOMAIN Append(q, s) = 1 .. Len(q) + 1
      /\ \A n \in 1 .. Len(q) : Append(q, s)[n] = q[n]
      /\ Append(q, s)[Len(q) + 1] = s
  BY AppendProperties, LenProperties
<1> SUFFICES ASSUME NEW k \in 1 .. Len(q) + 1, Append(q, s)[k] = "FAILED"
             PROVE  \E n \in 1 .. k - 1 : Append(q, s)[n] = "COMPLETED"
  BY <1>1 DEF Shows
<1>2. CASE k <= Len(q)
  <2>1. PICK n \in 1 .. k - 1 : q[n] = "COMPLETED"
    BY <1>1, <1>2 DEF Shows
  <2> QED
    BY <1>1, <1>2, <2>1
<1>3. CASE k = Len(q) + 1
  <2>1. PICK n \in 1 .. Len(q) : q[n] = "COMPLETED"
    BY <1>1, <1>3 DEF HasRecord
  <2> QED
    BY <1>1, <1>3, <2>1
<1> QED
  BY <1>1, <1>2, <1>3

(* The file alone shows what file and buffer show together.                *)
LEMMA ShowsPrefix ==
  ASSUME NEW l \in Seq(IntentExecutionState), NEW e \in Seq(IntentExecutionState),
         Shows(l \o e)
  PROVE  Shows(l)
<1>1. /\ Len(l) \in Nat /\ Len(e) \in Nat /\ DOMAIN l = 1 .. Len(l)
      /\ DOMAIN (l \o e) = 1 .. Len(l) + Len(e)
      /\ \A n \in 1 .. Len(l) + Len(e) :
           (l \o e)[n] = IF n <= Len(l) THEN l[n] ELSE e[n - Len(l)]
  BY ConcatProperties, LenProperties
<1> SUFFICES ASSUME NEW k \in 1 .. Len(l), l[k] = "FAILED"
             PROVE  \E n \in 1 .. k - 1 : l[n] = "COMPLETED"
  BY <1>1 DEF Shows
<1>2. PICK n \in 1 .. k - 1 : (l \o e)[n] = "COMPLETED"
  BY <1>1 DEF Shows
<1> QED
  BY <1>1, <1>2

(* Where nothing failed, there is nothing to show.                         *)
LEMMA NothingToShow ==
  ASSUME JournalTypeOK, NEW i \in Intents, ~Written(i, "FAILED")
  PROVE  Shows(Line(i))
<1>1. ~HasRecord(Line(i), "FAILED")
  BY RecordOfConcat DEF JournalTypeOK, Line, Written
<1> QED
  BY <1>1 DEF HasRecord, Shows

(* What log_transition() does to the lines, if it meets no torn one.       *)
LEMMA LineGrows ==
  ASSUME JournalTypeOK, NEW i \in Intents, NEW s \in IntentExecutionState, Logs(i, s),
         tail # "torn", NEW j \in Intents
  PROVE  Line(j)' = IF j = i THEN Append(Line(j), s) ELSE Line(j)
<1> DEFINE out == Outgoing(i, s)
<1>1. wal[j] \in Seq(IntentExecutionState) /\ buffer[j] \in Seq(IntentExecutionState)
  BY DEF JournalTypeOK
<1>2. wal[j] \o out[j] = IF j = i THEN Append(Line(j), s) ELSE Line(j)
  <2>1. CASE j = i
    <3>1. out[j] = Append(buffer[j], s)
      BY <2>1 DEF Outgoing, JournalTypeOK
    <3>2. Append(buffer[j], s) = buffer[j] \o <<s>>
      BY <1>1, AppendIsConcat
    <3>3. Line(j) \in Seq(IntentExecutionState)
      BY <1>1, ConcatProperties DEF Line
    <3>4. Append(Line(j), s) = Line(j) \o <<s>>
      BY <3>3, AppendIsConcat
    <3>5. <<s>> \in Seq(IntentExecutionState)
      OBVIOUS
    <3>6. \A a, b, c \in Seq(IntentExecutionState) : (a \o b) \o c = a \o (b \o c)
      BY ConcatAssociative
    <3>7. (wal[j] \o buffer[j]) \o <<s>> = wal[j] \o (buffer[j] \o <<s>>)
      BY <1>1, <3>5, <3>6, Zenon
    <3> QED
      BY <2>1, <3>1, <3>2, <3>4, <3>7, Zenon DEF Line
  <2>2. CASE j # i
    BY <2>2 DEF Outgoing, JournalTypeOK, Line
  <2> QED
    BY <2>1, <2>2
<1>3. CASE Flush(i, s)
  <2>1. wal'[j] = wal[j] \o out[j] /\ buffer'[j] = <<>>
    BY <1>3 DEF Flush, NoLines
  <2>2. out[j] \in Seq(IntentExecutionState)
    BY OutgoingType
  <2>3. wal[j] \o out[j] \in Seq(IntentExecutionState)
    BY <1>1, <2>2, ConcatProperties
  <2>4. (wal[j] \o out[j]) \o <<>> = wal[j] \o out[j]
    BY <2>3, ConcatEmptySeq
  <2>5. Line(j)' = wal'[j] \o buffer'[j]
    BY DEF Line
  <2> QED
    BY <1>2, <2>1, <2>4, <2>5
<1>4. CASE buffer' = out /\ UNCHANGED wal
  <2>1. Line(j)' = wal[j] \o out[j]
    BY <1>4 DEF Line
  <2> QED
    BY <1>2, <2>1
<1> QED
  BY <1>3, <1>4 DEF Logs, LogReturns, LogRaises

(* Nor does it lead an intent back in front of its verification.           *)
LEMMA LateStays ==
  ASSUME JournalTypeOK, NEW i \in Intents, NEW s \in IntentExecutionState, Logs(i, s),
         tail # "torn", NEW j \in Intents, LateIn(j), j = i => s \in Late
  PROVE  LateIn(j)'
<1> DEFINE out == Outgoing(i, s)
<1>1. wal[j] \in Seq(IntentExecutionState) /\ out[j] \in Seq(IntentExecutionState)
  BY OutgoingType DEF JournalTypeOK
<1>2. out[j] # <<>> => Current(out[j]) \in Late
  <2>1. CASE j = i
    <3>1. out[j] = Append(buffer[j], s) /\ buffer[j] \in Seq(IntentExecutionState)
      BY <2>1 DEF Outgoing, JournalTypeOK
    <3> QED
      BY <2>1, <3>1, CurrentOfAppend
  <2>2. CASE j # i
    BY <2>2 DEF Outgoing, JournalTypeOK, LateIn
  <2> QED
    BY <2>1, <2>2
<1>3. CASE Flush(i, s)
  <2>1. wal'[j] = wal[j] \o out[j] /\ buffer'[j] = <<>>
    BY <1>3 DEF Flush, NoLines
  <2>2. CASE out[j] = <<>>
    <3>1. wal[j] \o <<>> = wal[j]
      BY <1>1, ConcatEmptySeq
    <3> QED
      BY <2>1, <2>2, <3>1 DEF LateIn
  <2>3. CASE out[j] # <<>>
    <3>1. Current(wal[j] \o out[j]) = Current(out[j])
      BY <1>1, <2>3, CurrentOfConcat
    <3> QED
      BY <1>2, <2>1, <2>3, <3>1 DEF LateIn
  <2> QED
    BY <2>2, <2>3
<1>4. CASE buffer' = out /\ UNCHANGED wal
  BY <1>2, <1>4 DEF LateIn
<1> QED
  BY <1>3, <1>4 DEF Logs, LogReturns, LogRaises

(* A lineage that goes from QUEUED to ORPHANED step by legal step has not  *)
(* failed on the way.                                                      *)
LEMMA OrphanHasNotFailed ==
  ASSUME JournalTypeOK, NoDivergence, NEW i \in Intents,
         Current(wal[i]) = "ORPHANED", ~HasRecord(wal[i], "CREATED")
  PROVE  ~HasRecord(wal[i], "FAILED")
<1> DEFINE l == wal[i]
           n == Len(l)
<1>1. /\ l \in Seq(IntentExecutionState) /\ n \in Nat /\ DOMAIN l = 1 .. n
      /\ \A k \in 1 .. n : l[k] \in IntentExecutionState
  BY ElementOfSeq, LenProperties DEF JournalTypeOK
<1>2. n > 0 /\ l[n] = "ORPHANED"
  <2>1. l # <<>>
    BY DEF Current
  <2> QED
    BY <1>1, <2>1, EmptySeq DEF Current
<1>3. \A k \in 2 .. n : l[k] \in LEGAL_TRANSITIONS[l[k - 1]]
  BY DEF NoDivergence, CanGo
<1>4. \A from \in IntentExecutionState :
        /\ "ORPHANED" \in LEGAL_TRANSITIONS[from] => from = "RUNNING"
        /\ "RUNNING" \in LEGAL_TRANSITIONS[from] => from = "DISPATCHED"
        /\ "DISPATCHED" \in LEGAL_TRANSITIONS[from] => from = "QUEUED"
        /\ "QUEUED" \in LEGAL_TRANSITIONS[from] => from = "CREATED"
  BY DEF LEGAL_TRANSITIONS, IntentExecutionState
<1>5. \A k \in 1 .. n : l[k] # "CREATED"
  BY <1>1 DEF HasRecord
<1> HIDE DEF l, n
<1>6. n > 1 => l[n - 1] = "RUNNING"
  BY <1>1, <1>2, <1>3, <1>4
<1>7. n > 2 => l[n - 2] = "DISPATCHED"
  <2>1. n > 2 => n - 1 \in 2 .. n /\ n - 2 \in 1 .. n /\ (n - 1) - 1 = n - 2
    BY <1>1
  <2> QED
    BY <1>1, <1>3, <1>4, <1>6, <2>1
<1>8. n > 3 => l[n - 3] = "QUEUED"
  <2>1. n > 3 => n - 2 \in 2 .. n /\ n - 3 \in 1 .. n /\ (n - 2) - 1 = n - 3
    BY <1>1
  <2> QED
    BY <1>1, <1>3, <1>4, <1>7, <2>1
<1>9. ~(n > 4)
  <2>1. n > 4 => n - 3 \in 2 .. n /\ n - 4 \in 1 .. n /\ (n - 3) - 1 = n - 4
    BY <1>1
  <2> QED
    BY <1>1, <1>3, <1>4, <1>5, <1>8, <2>1
<1>10. ASSUME NEW k \in 1 .. n
       PROVE  l[k] # "FAILED"
  <2>1. k \in {n, n - 1, n - 2, n - 3}
    BY <1>1, <1>9, <1>10
  <2> QED
    BY <1>1, <1>2, <1>6, <1>7, <1>8, <1>10, <2>1
<1> QED
  BY <1>1, <1>10 DEF HasRecord, l

-------------------------------------------------------------------------------
(* The verdict of a call *)

(* Where a call comes from and goes to around its verdict.                 *)
LEMMA VerdictMoves ==
  ASSUME TypeOK, [Next]_vars, NEW j \in Intents
  PROVE  /\ pc'[j] \in {"idle"} \cup (InCall \ {"fail", "report"}) =>
              /\ pc[j] \in {"idle"} \cup (InCall \ {"fail", "report"})
              /\ pc[j] = "diverged" => pc'[j] = pc[j]
         /\ pc'[j] \in {"idle"} \cup (InCall \ {"invalidate"}) =>
              /\ pc[j] \in {"idle"} \cup (InCall \ {"invalidate"})
              /\ pc[j] = "orphan" => pc'[j] = pc[j]
         /\ pc'[j] \in {"mutated", "observe", "attest", "complete"} =>
              \/ pc[j] \in {"mutated", "observe", "attest", "complete"}
              \/ pc[j] = "verify" /\ LogReturns(j, "VERIFYING")
         /\ pc[j] = "complete" =>
              /\ pc'[j] \in {"complete", "completed", "fail", "gone"}
              /\ pc'[j] = "fail" => LogRaises(j, "COMPLETED")
         /\ pc[j] \in {"fail", "report"} =>
              pc'[j] \in {pc[j], "report", "failed", "raised", "gone"}
<1> USE DEF InCall
<1>1. CallTypeOK
  BY DEF TypeOK, DispatchTypeOK
<1>2. CASE pc'[j] \in {pc[j], "gone"}
  BY <1>2
<1>3. CASE Refuse(j) \/ EncodeFails(j) \/ Submit(j)
  BY <1>1, <1>3 DEF Refuse, EncodeFails, Submit, Transition, Goto, CallTypeOK
<1>4. CASE Dispatch(j) \/ Run(j) \/ Verify(j) \/ Complete(j) \/ Diverge(j) \/ MarkOrphaned(j)
  BY <1>1, <1>4
  DEF Dispatch, Run, Verify, Complete, Diverge, MarkOrphaned, Transition, Goto, CallTypeOK
<1>5. CASE Announce(j) \/ EmitMutated(j) \/ Observe(j) \/ Attest(j) \/ Deny(j)
           \/ ReportFailure(j) \/ Invalidate(j)
  BY <1>1, <1>5
  DEF Announce, EmitMutated, Observe, Attest, Deny, ReportFailure, Invalidate, Emit,
      EmitVerification, Goto, CallTypeOK
<1>6. CASE EnsureWorker(j) \/ FoundReady(j) \/ TakeLock(j) \/ SendRequest(j)
           \/ SeesDeath(j) \/ TimesOut(j) \/ GotResult(j)
           \/ CallAdapter(j) \/ AdapterReturns(j)
  BY <1>1, <1>6
  DEF EnsureWorker, FoundReady, TakeLock, SendRequest, SeesDeath, TimesOut, GotResult,
      CallAdapter, AdapterReturns, callRest, Goto, CallTypeOK
<1>7. CASE MarkFailed(j)
  BY <1>1, <1>7 DEF MarkFailed, Transition, callRest, Goto, CallTypeOK
<1> QED
  BY <1>2, <1>3, <1>4, <1>5, <1>6, <1>7, CallMoves DEF Continue

(* A call that has not come to a verdict has no FAILED, and none that is   *)
(* not orphaned has ORPHANED.                                              *)
LEMMA NextBeforeVerdict ==
  ASSUME TypeOK, Alone, RecoveryTargets, BeforeVerdict, RecoveryJudges, [Next]_vars
  PROVE  BeforeVerdict'
<1> SUFFICES ASSUME NEW j \in Intents
             PROVE  /\ ~Written(j, "CREATED")'
                    /\ pc'[j] \in {"idle"} \cup (InCall \ {"fail", "report"}) =>
                         ~Written(j, "FAILED")'
                    /\ pc'[j] \in {"idle"} \cup (InCall \ {"invalidate"}) =>
                         ~Written(j, "ORPHANED")'
                    /\ HasRecord(buffer'[j], "FAILED") => Current(wal'[j]) # "ORPHANED"
  BY DEF BeforeVerdict
<1>1. JournalTypeOK
  BY DEF TypeOK, DispatchTypeOK
<1>2. ~Written(j, "CREATED")'
  BY WrittenBy DEF BeforeVerdict, CallRecord, RecoveryRecord
<1>3. rec # "off" => pc[j] \notin InCall
  BY DEF Alone, Quiescent
<1>4. ASSUME pc'[j] \in {"idle"} \cup (InCall \ {"fail", "report"})
      PROVE  ~Written(j, "FAILED")'
  <2>1. /\ pc[j] \in {"idle"} \cup (InCall \ {"fail", "report"})
        /\ pc[j] = "diverged" => pc'[j] = pc[j]
    BY <1>4, VerdictMoves
  <2>2. ~Written(j, "FAILED")
    BY <2>1 DEF BeforeVerdict
  <2>3. ~CallRecord(j, "FAILED")
    BY <2>1 DEF CallRecord
  <2>4. ~RecoveryRecord(j, "FAILED")
    BY <1>3, <2>1, RecoveryIsAboutCalls DEF RecoveryRecord
  <2> QED
    BY <2>2, <2>3, <2>4, WrittenBy
<1>5. ASSUME pc'[j] \in {"idle"} \cup (InCall \ {"invalidate"})
      PROVE  ~Written(j, "ORPHANED")'
  <2>1. /\ pc[j] \in {"idle"} \cup (InCall \ {"invalidate"})
        /\ pc[j] = "orphan" => pc'[j] = pc[j]
    BY <1>5, VerdictMoves
  <2>2. ~Written(j, "ORPHANED")
    BY <2>1 DEF BeforeVerdict
  <2>3. ~CallRecord(j, "ORPHANED")
    BY <2>1 DEF CallRecord
  <2>4. ~RecoveryRecord(j, "ORPHANED")
    BY <1>3, <2>1, RecoveryIsAboutCalls DEF RecoveryRecord
  <2> QED
    BY <2>2, <2>3, <2>4, WrittenBy
<1>6. ASSUME HasRecord(buffer'[j], "FAILED")
      PROVE  Current(wal'[j]) # "ORPHANED"
  <2>1. CASE UNCHANGED <<wal, buffer>>
    BY <1>6, <2>1 DEF BeforeVerdict
  <2>2. CASE buffer' = NoLines
    BY <1>6, <2>2 DEF NoLines, HasRecord
  <2>3. ASSUME NEW i \in Intents, NEW s \in IntentExecutionState, Logs(i, s),
               CallRecord(i, s) \/ RecoveryRecord(i, s), buffer' # NoLines
        PROVE  Current(wal'[j]) # "ORPHANED"
    <3>1. buffer' = Outgoing(i, s) /\ wal' = wal
      BY <2>3 DEF Logs, LogReturns, LogRaises, Flush
    <3>2. CASE HasRecord(buffer[j], "FAILED")
      BY <3>1, <3>2 DEF BeforeVerdict
    <3>3. CASE ~HasRecord(buffer[j], "FAILED")
      <4>1. j = i
        BY <1>1, <1>6, <3>1, <3>3 DEF Outgoing, JournalTypeOK
      <4>2. buffer'[j] = Append(buffer[j], s) /\ buffer[j] \in Seq(IntentExecutionState)
        BY <1>1, <3>1, <4>1 DEF Outgoing, JournalTypeOK
      <4>3. PICK k \in DOMAIN Append(buffer[j], s) : Append(buffer[j], s)[k] = "FAILED"
        BY <1>6, <4>2 DEF HasRecord
      <4>4. s = "FAILED"
        BY <3>3, <4>2, <4>3, AppendElement DEF HasRecord
      <4>5. CASE CallRecord(j, "FAILED")
        <5>1. ~Written(j, "ORPHANED")
          BY <4>5 DEF CallRecord, BeforeVerdict, InCall
        <5>2. wal[j] \in Seq(IntentExecutionState)
          BY <1>1 DEF JournalTypeOK
        <5>3. CASE wal[j] = <<>>
          BY <3>1, <5>3 DEF Current
        <5>4. CASE wal[j] # <<>>
          BY <3>1, <5>1, <5>2, <5>4, CurrentIsRecord DEF Written
        <5> QED
          BY <5>3, <5>4
      <4>6. CASE RecoveryRecord(j, "FAILED")
        BY <3>1, <4>6 DEF RecoveryRecord, RecoveryJudges
      <4> QED
        BY <2>3, <4>1, <4>4, <4>5, <4>6
    <3> QED
      BY <3>2, <3>3
  <2> QED
    BY <2>1, <2>2, <2>3, JournalSteps
<1> QED
  BY <1>2, <1>4, <1>5, <1>6

(* While a call verifies, VERIFYING is the last word on its intent.        *)
LEMMA NextAtVerdict ==
  ASSUME TypeOK, AnnouncedBeforeEffect, Alone, AtVerdict, [Next]_vars
  PROVE  AtVerdict'
<1> SUFFICES ASSUME NEW j \in Intents,
                    pc'[j] \in {"mutated", "observe", "attest", "complete"}
             PROVE  Current(wal'[j]) = "VERIFYING" /\ buffer'[j] = <<>>
  BY DEF AtVerdict
<1>1. JournalTypeOK
  BY DEF TypeOK, DispatchTypeOK
<1>2. CASE pc[j] = "verify" /\ LogReturns(j, "VERIFYING")
  <2>1. tail # "torn"
    BY <1>2 DEF AnnouncedBeforeEffect, InCall
  <2> QED
    BY <1>1, <1>2, <2>1, ReturnsIsLast DEF IntentExecutionState
<1>3. CASE pc[j] \in {"mutated", "observe", "attest", "complete"}
  <2>1. Current(wal[j]) = "VERIFYING" /\ buffer[j] = <<>>
    BY <1>3 DEF AtVerdict
  <2>2. CASE wal' = wal /\ (buffer' = buffer \/ buffer' = NoLines)
    BY <2>1, <2>2 DEF NoLines
  <2>3. ASSUME NEW i \in Intents, NEW s \in IntentExecutionState, Logs(i, s),
               CallRecord(i, s) \/ RecoveryRecord(i, s)
        PROVE  Current(wal'[j]) = "VERIFYING" /\ buffer'[j] = <<>>
    <3>1. ~CallRecord(j, s)
      BY <1>3, VerdictMoves DEF CallRecord
    <3>2. ~RecoveryRecord(j, s)
      <4>1. pc[j] \in InCall
        BY <1>3 DEF InCall
      <4>2. rec = "off"
        BY <4>1 DEF Alone, Quiescent
      <4> QED
        BY <4>2 DEF RecoveryRecord
    <3>3. j # i
      BY <2>3, <3>1, <3>2
    <3> QED
      BY <1>1, <2>1, <2>3, <3>3, OthersStay
  <2> QED
    BY <2>2, <2>3, JournalSteps
<1> QED
  BY <1>2, <1>3, VerdictMoves

-------------------------------------------------------------------------------
(* The verdict of a recovery *)

(* The steps of a recovery that goes on, or begins.                        *)
LEMMA RecoveryGoesOn ==
  ASSUME RecoveryAlone, TypeOK, Alone, [Next]_vars, rec' # "off"
  PROVE  \/ Scan \/ \E i \in Intents : Reconcile(i)
         \/ /\ rec \in {"scan", "invalidate"} /\ rec' \in {"scan", "invalidate"}
            /\ todo' \subseteq todo
         \/ /\ rec = "recover" /\ rec' = "observe" /\ who' = who
            /\ LogReturns(who, "RECOVERING")
         \/ ObserveEffect \/ PublishVerdict
         \/ rec' = rec /\ UNCHANGED <<journalVars, who, matched, todo>>
<1>1. CASE CallStep
  <2>1. UNCHANGED recVars
    BY <1>1 DEF CallStep
  <2> QED
    BY <1>1, <2>1, CallsRest DEF recVars
<1>2. CASE Recover
  <2>1. CASE \E i \in Intents : OrphanRunning(i) \/ AbortUnsent(i)
    BY <2>1 DEF OrphanRunning, AbortUnsent, RecoveryLogs
  <2>2. CASE PublishInvalidated
    BY <2>2 DEF PublishInvalidated, RecoveryEmits
  <2>3. CASE LogRecovering
    BY <2>3 DEF LogRecovering, RecoveryLogs
  <2>4. CASE ScanEnds \/ SettleOrphan
    BY <2>4 DEF ScanEnds, SettleOrphan, RecoveryLogs
  <2> QED
    BY <1>2, <2>1, <2>2, <2>3, <2>4 DEF Recover
<1>3. CASE Crash \/ Restart \/ UNCHANGED vars
  BY <1>3 DEF Crash, Restart, vars, dispatchVars, recVars
<1> QED
  BY <1>1, <1>2, <1>3 DEF Next

(* While recovery runs, nobody but it publishes a success.                 *)
LEMMA RecoveryAttests ==
  ASSUME TypeOK, Alone, [Next]_vars, rec # "off", NEW j \in Intents,
         TRUE \in attested'[j], TRUE \notin attested[j]
  PROVE  PublishVerdict /\ rec' = "settle" /\ who = j /\ matched
<1>1. ~Attest(j)
  BY ContinueIsInCall DEF Continue, Alone, Quiescent
<1> QED
  BY <1>1, NewlyAttested

(* A recovery judges only whom nobody has judged.                          *)
LEMMA NextJudges ==
  ASSUME RecoveryAlone, TypeOK, Alone, BeforeVerdict, SuccessShows, RecoveryJudges,
         [Next]_vars
  PROVE  RecoveryJudges'
<1>1. JournalTypeOK /\ who \in Intents /\ todo \subseteq Intents
  BY DEF TypeOK, DispatchTypeOK
<1>2. CASE rec' = "off"
  BY <1>2 DEF RecoveryJudges
<1>3. CASE Scan
  <2>1. /\ rec' = "scan" /\ UNCHANGED <<journalVars, attested>> /\ tail = "whole"
        /\ todo' = {i \in Intents : Current(wal[i]) \in {"QUEUED", "DISPATCHED", "RUNNING"}}
    BY <1>3
    DEF Scan, dispatchVars, callVars, RecoveryProceeds, NoDivergence
  <2>2. ASSUME NEW i \in todo' PROVE TRUE \notin attested'[i]
    BY <2>1, <2>2 DEF SuccessShows, LateIn, Late
  <2> QED
    BY <2>1, <2>2 DEF RecoveryJudges, journalVars
<1>4. ASSUME NEW i \in Intents, Reconcile(i)
      PROVE  RecoveryJudges'
  <2>1. /\ rec' = "recover" /\ who' = i /\ UNCHANGED <<journalVars, attested>>
        /\ NoDivergence /\ Current(wal[i]) = "ORPHANED"
    BY <1>4 DEF Reconcile, ReconcileFrom, dispatchVars, callVars, RecoveryProceeds
  <2>2. TRUE \notin attested[i]
    BY <2>1 DEF SuccessShows, LateIn, Late
  <2>3. ~HasRecord(wal[i], "FAILED")
    BY <1>1, <2>1, OrphanHasNotFailed DEF BeforeVerdict, Written
  <2>4. ~Written(i, "FAILED")
    BY <2>1, <2>3 DEF BeforeVerdict, Written
  <2>5. ~Written(who, "FAILED")'
    BY <2>1, <2>4 DEF Written, journalVars
  <2> QED
    BY <2>1, <2>2, <2>5 DEF RecoveryJudges, journalVars, NoDivergence
<1>5. CASE /\ rec \in {"scan", "invalidate"} /\ rec' \in {"scan", "invalidate"}
           /\ todo' \subseteq todo
  <2>1. tail' # "torn"
    BY <1>1, <1>5, JournalSteps, LogNeverTears DEF RecoveryJudges, Crash, Logs
  <2>2. ASSUME NEW i \in todo' PROVE TRUE \notin attested'[i]
    BY <1>1, <1>5, <2>2, RecoveryAttests DEF RecoveryJudges
  <2> QED
    BY <1>5, <2>1, <2>2 DEF RecoveryJudges
<1>6. CASE /\ rec = "recover" /\ rec' = "observe" /\ who' = who
           /\ LogReturns(who, "RECOVERING")
  <2>1. tail # "torn" /\ TRUE \notin attested[who] /\ ~Written(who, "FAILED")
    BY <1>6 DEF RecoveryJudges
  <2>2. Current(wal'[who]) = "RECOVERING" /\ buffer'[who] = <<>> /\ tail' # "torn"
    BY <1>1, <1>6, <2>1, ReturnsIsLast, LogNeverTears DEF IntentExecutionState
  <2>3. TRUE \notin attested'[who]
    BY <1>1, <1>6, <2>1, RecoveryAttests
  <2>4. ~Written(who, "FAILED")'
    BY <1>1, <1>6, <2>1, LogAddsOne DEF IntentExecutionState
  <2> QED
    BY <1>6, <2>2, <2>3, <2>4 DEF RecoveryJudges, Written
<1>7. CASE ObserveEffect
  <2>1. /\ rec = "observe" /\ rec' = "publish" /\ who' = who
        /\ UNCHANGED <<journalVars, attested>>
    BY <1>7 DEF ObserveEffect, dispatchVars, callVars
  <2> QED
    BY <2>1 DEF RecoveryJudges, Written, journalVars
<1>8. CASE PublishVerdict /\ rec' # "off"
  <2>1. /\ rec = "publish" /\ rec' = "settle"
        /\ UNCHANGED <<journalVars, who, matched>>
    BY <1>8 DEF PublishVerdict
  <2>2. TRUE \in attested'[who] => matched
    BY <1>1, <2>1, RecoveryAttests DEF RecoveryJudges
  <2> QED
    BY <2>1, <2>2 DEF RecoveryJudges, Written, journalVars
<1>9. CASE rec' = rec /\ rec # "off" /\ UNCHANGED <<journalVars, who, matched, todo>>
  <2>1. \A j \in Intents : TRUE \in attested'[j] => TRUE \in attested[j] \/ rec = "publish"
    BY <1>9, RecoveryAttests DEF PublishVerdict
  <2>2. \A j \in Intents : rec = "publish" /\ TRUE \in attested'[j] => TRUE \in attested[j]
    BY <1>9, RecoveryAttests
  <2> QED
    BY <1>1, <1>9, <2>1, <2>2 DEF RecoveryJudges, Written, journalVars
<1> QED
  BY <1>2, <1>3, <1>4, <1>5, <1>6, <1>7, <1>8, <1>9, RecoveryGoesOn

-------------------------------------------------------------------------------
(* Behind a success *)

(* What is journaled behind a success that was published: its COMPLETED or *)
(* RECONCILED, and FAILED only behind COMPLETED.                           *)
LEMMA NextShows ==
  ASSUME RecoveryAlone, TypeOK, AnnouncedBeforeEffect, Outcome, Verdicts, [Next]_vars
  PROVE  SuccessShows'
<1> DEFINE Ok(j) ==
      /\ pc'[j] \in {"complete", "fail", "report"} \cup Ended
      /\ LateIn(j)'
      /\ Shows(Line(j)')
      /\ pc'[j] = "fail" => HasRecord(Line(j)', "COMPLETED")
      /\ tail' = "torn" => buffer'[j] = <<>>
<1> SUFFICES ASSUME NEW j \in Intents, TRUE \in attested'[j]
             PROVE  Ok(j)
  BY DEF SuccessShows
<1> USE DEF Outcome, Verdicts
<1>1. /\ JournalTypeOK /\ CallTypeOK /\ wal[j] \in Seq(IntentExecutionState)
      /\ buffer[j] \in Seq(IntentExecutionState)
  BY DEF TypeOK, DispatchTypeOK, JournalTypeOK
<1>2. CASE Attest(j) /\ pc'[j] = "complete"
  <2>1. pc[j] = "attest" /\ UNCHANGED <<wal, buffer, tail>>
    BY <1>2 DEF Attest, EmitVerification, Goto, journalVars
  <2>2. Current(wal[j]) = "VERIFYING" /\ buffer[j] = <<>>
    BY <2>1 DEF AtVerdict
  <2>3. Shows(Line(j))
    BY <1>1, <2>1, NothingToShow DEF BeforeVerdict, InCall
  <2> QED
    BY <1>2, <2>1, <2>2, <2>3 DEF LateIn, Late, Line
<1>3. CASE PublishVerdict /\ rec' = "settle" /\ who = j /\ matched
  <2>1. rec = "publish" /\ UNCHANGED <<wal, buffer, tail, pc>>
    BY <1>3 DEF PublishVerdict, journalVars
  <2>2. Current(wal[j]) = "RECOVERING" /\ buffer[j] = <<>> /\ ~Written(j, "FAILED")
    BY <1>3, <2>1 DEF RecoveryJudges
  <2>3. Shows(Line(j))
    BY <1>1, <2>2, NothingToShow
  <2>4. pc[j] \in Ended
    BY <1>1, <1>3, <2>1 DEF Alone, Quiescent, RecoveryTargets, CallTypeOK
  <2> QED
    BY <2>1, <2>2, <2>3, <2>4 DEF LateIn, Late, Line, Ended
<1>4. CASE TRUE \in attested[j]
  <2>1. /\ pc[j] \in {"complete", "fail", "report"} \cup Ended
        /\ LateIn(j) /\ Shows(Line(j))
        /\ pc[j] = "fail" => HasRecord(Line(j), "COMPLETED")
        /\ tail = "torn" => buffer[j] = <<>>
    BY <1>4 DEF SuccessShows
  <2>2. pc'[j] \in {"complete", "fail", "report"} \cup Ended
    BY <2>1, VerdictMoves, CallOrder DEF Ended
  <2>3. Line(j) \in Seq(IntentExecutionState)
    BY <1>1, ConcatProperties DEF Line
  <2>4. pc[j] \in InCall => tail # "torn" /\ rec = "off"
    BY DEF AnnouncedBeforeEffect, Alone, Quiescent
  <2>5. CASE pc[j] = "complete" /\ pc'[j] = "fail"
    <3>1. Logs(j, "COMPLETED") /\ tail # "torn" /\ tail' # "torn"
      BY <1>1, <2>4, <2>5, VerdictMoves, LogNeverTears DEF Logs, InCall, IntentExecutionState
    <3>2. "COMPLETED" \in IntentExecutionState /\ "COMPLETED" \in Late
      BY DEF IntentExecutionState, Late
    <3>3. Line(j)' = Append(Line(j), "COMPLETED")
      BY <1>1, <3>1, <3>2, LineGrows
    <3>4. Shows(Append(Line(j), "COMPLETED"))
      BY <2>1, <2>3, <3>2, ShowsAppend
    <3>5. HasRecord(Append(Line(j), "COMPLETED"), "COMPLETED")
      BY <2>3, <3>2, AppendProperties, LenProperties DEF HasRecord
    <3>6. LateIn(j)'
      BY <1>1, <2>1, <3>1, <3>2, LateStays
    <3> QED
      BY <2>2, <3>1, <3>3, <3>4, <3>5, <3>6
  <2>6. CASE ~(pc[j] = "complete" /\ pc'[j] = "fail")
    <3>1. pc'[j] = "fail" => pc[j] = "fail"
      BY <2>1, <2>6, VerdictMoves, CallOrder DEF Ended
    <3>2. CASE UNCHANGED <<wal, buffer, tail>>
      BY <2>1, <2>2, <3>1, <3>2 DEF LateIn, Line
    <3>3. CASE Crash /\ wal' = wal /\ buffer' = NoLines
      <4>1. buffer'[j] = <<>> /\ Line(j)' = wal[j]
        BY <1>1, <3>3, ConcatEmptySeq DEF NoLines, Line
      <4>2. Shows(wal[j])
        BY <1>1, <2>1, ShowsPrefix DEF Line
      <4>3. pc'[j] # "fail"
        BY <1>1, <3>3 DEF Crash, InCall, CallTypeOK
      <4> QED
        BY <2>1, <2>2, <3>3, <4>1, <4>2, <4>3 DEF LateIn
    <3>4. ASSUME NEW i \in Intents, NEW s \in IntentExecutionState, Logs(i, s),
                 CallRecord(i, s) \/ RecoveryRecord(i, s)
          PROVE  Ok(j)
      <4>1. CASE tail = "torn"
        <5>1. pc[j] \notin InCall /\ rec = "off" /\ buffer[j] = <<>>
          BY <2>1, <2>4, <4>1 DEF RecoveryJudges
        <5>2. j # i
          BY <2>1, <3>4, <5>1 DEF CallRecord, RecoveryRecord, InCall, Ended
        <5>3. wal'[j] = wal[j] /\ buffer'[j] = <<>>
          BY <1>1, <3>4, <5>1, <5>2, OthersStay
        <5> QED
          BY <2>1, <2>2, <3>1, <5>1, <5>3 DEF LateIn, Line
      <4>2. CASE tail # "torn"
        <5>1. tail' # "torn"
          BY <1>1, <3>4, <4>2, LogNeverTears DEF Logs
        <5>2. CASE j # i
          <6>1. Line(j)' = Line(j)
            BY <1>1, <3>4, <4>2, <5>2, LineGrows
          <6>2. LateIn(j)'
            BY <1>1, <2>1, <3>4, <4>2, <5>2, LateStays
          <6> QED
            BY <2>1, <2>2, <3>1, <5>1, <6>1, <6>2
        <5>3. CASE j = i
          <6>1. /\ s \in {"COMPLETED", "FAILED", "RECONCILED"}
                /\ s = "FAILED" => pc[j] = "fail"
                /\ pc'[j] # "fail"
            <7>1. CASE CallRecord(j, s)
              BY <2>1, <3>1, <7>1 DEF CallRecord, EarlyCalls, Exposed, InCall, Ended
            <7>2. CASE RecoveryRecord(j, s)
              <8>1. rec # "off" /\ pc[j] \notin InCall
                BY <2>4, <7>2 DEF RecoveryRecord
              <8>2. rec = "settle" /\ s = "RECONCILED"
                BY <1>4, <7>2 DEF RecoveryRecord, RecoveryJudges
              <8> QED
                BY <3>1, <8>1, <8>2 DEF InCall
            <7> QED
              BY <3>4, <5>3, <7>1, <7>2
          <6>2. Line(j)' = Append(Line(j), s)
            BY <1>1, <3>4, <4>2, <5>3, LineGrows
          <6>3. Shows(Append(Line(j), s))
            BY <2>1, <2>3, <6>1, ShowsAppend
          <6>4. s \in Late
            BY <6>1 DEF Late
          <6>5. LateIn(j)'
            BY <1>1, <2>1, <3>4, <4>2, <6>4, LateStays
          <6> QED
            BY <2>2, <5>1, <6>1, <6>2, <6>3, <6>5
        <5> QED
          BY <5>2, <5>3
      <4> QED
        BY <4>1, <4>2
    <3> QED
      BY <3>2, <3>3, <3>4, JournalSteps
  <2> QED
    BY <2>5, <2>6
<1> QED
  BY <1>2, <1>3, <1>4, NewlyAttested

-------------------------------------------------------------------------------
(* At first nothing is written or published.                               *)
LEMMA InitVerdicts == Init => Verdicts
<1> SUFFICES ASSUME Init PROVE Verdicts
  OBVIOUS
<1>1. /\ rec = "off" /\ wal = NoLines /\ buffer = NoLines
      /\ \A i \in Intents : pc[i] = "idle" /\ attested[i] = {}
  BY DEF Init, DispatchInit, JournalInit
<1>2. \A i \in Intents, s \in IntentExecutionState : ~Written(i, s) /\ ~HasRecord(buffer[i], s)
  BY <1>1 DEF Written, HasRecord, NoLines
<1> QED
  BY <1>1, <1>2
  DEF Verdicts, BeforeVerdict, AtVerdict, SuccessShows, RecoveryJudges, IntentExecutionState

(* Every step keeps the parts of the invariant, each by the others.        *)
LEMMA NextVerdicts ==
  ASSUME RecoveryAlone
  PROVE  TypeOK /\ AnnouncedBeforeEffect /\ Outcome /\ Verdicts /\ [Next]_vars => Verdicts'
BY NextBeforeVerdict, NextAtVerdict, NextShows, NextJudges DEF Verdicts, Outcome

(* verify_and_complete(), mark_failed() and reconcile(): a published       *)
(* success that the journal calls FAILED has its COMPLETED in front, under *)
(* any failures of journal and bus, torn lines and crashes, if recovery    *)
(* and dispatch are kept apart.                                            *)
THEOREM DisownedInTheOpen ==
  ASSUME RecoveryAlone
  PROVE  Spec => []DisownedOpenly
<1>1. TypeOK /\ Verdicts => DisownedOpenly
  <2> SUFFICES ASSUME TypeOK, Verdicts, NEW i \in Intents, TRUE \in attested[i]
               PROVE  Shows(wal[i])
    BY DEF DisownedOpenly, Shows
  <2>1. wal[i] \in Seq(IntentExecutionState) /\ buffer[i] \in Seq(IntentExecutionState)
    BY DEF TypeOK, DispatchTypeOK, JournalTypeOK
  <2>2. Shows(wal[i] \o buffer[i])
    BY DEF Verdicts, SuccessShows, Line
  <2> QED
    BY <2>1, <2>2, ShowsPrefix
<1> QED
  BY <1>1, InitType, NextType, InitAnnounces, NextAnnounces, OutcomeHolds, InitVerdicts,
     NextVerdicts, PTL DEF Spec

-------------------------------------------------------------------------------
(***************************************************************************)
(* While the journal does not fail: what it declares of an intent stays    *)
(* declared, and the kernel keeps what IntentPromise promises.  For any    *)
(* intents, files, workers, worker deaths, event failures and crashes,     *)
(* while recovery and dispatch are kept apart.                             *)
(***************************************************************************)

JournalWorks == buffer = NoLines /\ tail = "whole"

(* Where the journal, and the state machine, stand at each step of a call. *)
CallsStand ==
  \A i \in Intents :
    /\ pc[i] \in InCall => Current(wal[i]) = mem[i]
    /\ pc[i] = "dispatch" => mem[i] = "QUEUED"
    /\ pc[i] \in {"announce", "run"} => mem[i] = "DISPATCHED"
    /\ pc[i] \in {"execute", "boot", "lock", "send", "wait", "adapter", "verify",
             "orphan"} =>
         mem[i] = "RUNNING"
    /\ pc[i] \in {"mutated", "observe", "attest", "complete", "deny", "diverged"} =>
         mem[i] = "VERIFYING"
    /\ pc[i] = "fail" => mem[i] \in {"RUNNING", "VERIFYING"}
    /\ pc[i] = "report" => mem[i] = "FAILED"
    /\ pc[i] = "invalidate" => mem[i] = "ORPHANED"

(* Where it stands at each step of a recovery, and what that has seen.     *)
RecoveryStands ==
  /\ rec \in {"scan", "invalidate"} =>
       \A i \in todo : /\ Current(wal[i]) = Current(seen[i])
                       /\ Current(wal[i]) \in {"QUEUED", "DISPATCHED", "RUNNING"}
  /\ rec = "recover" => Current(wal[who]) = "ORPHANED"
  /\ rec \in {"observe", "publish", "settle"} => Current(wal[who]) = "RECOVERING"
  /\ rec \in {"publish", "settle"} /\ matched => Bytes[who] \in landed[Target[who]]

Faithful == JournalWorks /\ CallsStand /\ RecoveryStands

(* log_transition() does not raise, ...                                    *)
LEMMA NeverRaises ==
  ASSUME MaxWalFaults = 0, JournalTypeOK
  PROVE  \A i, s : ~LogRaises(i, s)
BY DEF JournalTypeOK, LogRaises

(* ... and adds its record to the lineage of its intent, and no other.     *)
LEMMA OneRecord ==
  ASSUME MaxWalFaults = 0, JournalTypeOK, JournalWorks,
         NEW i \in Intents, NEW s \in IntentExecutionState, Logs(i, s)
  PROVE  /\ JournalWorks'
         /\ wal' = [wal EXCEPT ![i] = Append(@, s)]
         /\ Current(wal'[i]) = s
<1>1. LogReturns(i, s)
  BY NeverRaises DEF Logs
<1>2. /\ buffer' = NoLines /\ tail' = "whole"
      /\ wal' = [j \in Intents |-> wal[j] \o Outgoing(i, s)[j]]
  BY <1>1 DEF LogReturns, Flush, JournalWorks
<1>3. \A j \in Intents : Outgoing(i, s)[j] = IF j = i THEN <<s>> ELSE <<>>
  BY DEF Outgoing, JournalWorks, NoLines
<1>4. wal \in [Intents -> Seq(IntentExecutionState)]
  BY DEF JournalTypeOK
<1>5. wal[i] \o <<s>> = Append(wal[i], s)
  BY <1>4, AppendIsConcat
<1>6. \A j \in Intents : wal[j] \o <<>> = wal[j]
  BY <1>4, ConcatEmptySeq
<1>7. \A j \in Intents : wal'[j] = IF j = i THEN Append(wal[j], s) ELSE wal[j]
  BY <1>2, <1>3, <1>5, <1>6
<1>8. wal' = [wal EXCEPT ![i] = Append(@, s)]
  BY <1>2, <1>4, <1>7
<1>9. Current(wal'[i]) = s
  BY <1>4, <1>7, CurrentOfAppend
<1> QED
  BY <1>2, <1>8, <1>9 DEF JournalWorks

(* An intent that was not dispatched is not in the journal.                *)
LEMMA IdleIsCreated ==
  ASSUME JournalTypeOK, EarlyCalls, NEW i \in Intents, pc[i] = "idle"
  PROVE  Current(wal[i]) = "CREATED"
<1>1. wal[i] \in Seq(IntentExecutionState)
  BY DEF JournalTypeOK
<1>2. wal[i] = <<>>
  BY <1>1, CurrentIsRecord DEF EarlyCalls, Written
<1> QED
  BY <1>2 DEF Current

(* What the journal says of an intent when a record of it is added.        *)
LEMMA StateBefore ==
  ASSUME JournalTypeOK, EarlyCalls, CallsStand, RecoveryStands,
         NEW i \in Intents, NEW s, CallRecord(i, s) \/ RecoveryRecord(i, s)
  PROVE  LET now == Current(wal[i]) IN
           \/ s \in {"QUEUED", "REJECTED"} /\ now = "CREATED"
           \/ s = "DISPATCHED" /\ now = "QUEUED"
           \/ s = "RUNNING" /\ now = "DISPATCHED"
           \/ s \in {"VERIFYING", "ORPHANED"} /\ now = "RUNNING"
           \/ s = "COMPLETED" /\ now = "VERIFYING"
           \/ s = "ABORTED" /\ now \in {"QUEUED", "DISPATCHED"}
           \/ s = "RECOVERING" /\ now = "ORPHANED"
           \/ s = "RECONCILED" /\ now = "RECOVERING" /\ matched /\ i = who /\ rec = "settle"
           \/ s = "FAILED" /\ now \in {"RUNNING", "VERIFYING"}
           \/ s = "FAILED" /\ now = "RECOVERING" /\ ~matched /\ i = who /\ rec = "settle"
<1>1. CASE CallRecord(i, s)
  BY <1>1, IdleIsCreated DEF CallRecord, CallsStand, InCall
<1>2. CASE RecoveryRecord(i, s)
  BY <1>2 DEF RecoveryRecord, RecoveryStands
<1> QED
  BY <1>1, <1>2

(* The journal goes on working.                                            *)
LEMMA NextWorks ==
  ASSUME MaxWalFaults = 0, TypeOK, JournalWorks, [Next]_vars
  PROVE  JournalWorks'
<1>1. JournalTypeOK
  BY DEF TypeOK, DispatchTypeOK
<1>2. CASE UNCHANGED <<wal, buffer, tail>>
  BY <1>2 DEF JournalWorks, NoLines
<1>3. CASE Crash
  BY <1>3 DEF Crash, JournalCrash, JournalWorks, NoLines
<1>4. CASE \E i \in Intents, s \in IntentExecutionState : Logs(i, s)
  BY <1>1, <1>4, OneRecord
<1> QED
  BY <1>2, <1>3, <1>4, JournalSteps

(* A transition of a call moves call, machine and lineage together.        *)
LEMMA TransitionStands ==
  ASSUME MaxWalFaults = 0, JournalTypeOK, CallTypeOK, JournalWorks,
         NEW i \in Intents, NEW from, NEW s \in IntentExecutionState, NEW next, NEW onRaise,
         Transition(i, from, s, next, onRaise)
  PROVE  pc[i] = from /\ pc'[i] = next /\ mem'[i] = s /\ Current(wal'[i]) = s
<1>1. LogReturns(i, s) /\ Goto(i, from, next) /\ mem' = [mem EXCEPT ![i] = s]
  BY NeverRaises DEF Transition
<1> QED
  BY <1>1, OneRecord DEF Logs, Goto, CallTypeOK

(* So each step of a call leaves it where its journal and machine stand.   *)
LEMMA NextCallsStand ==
  ASSUME MaxWalFaults = 0, TypeOK, Alone, EarlyCalls, JournalWorks, CallsStand, [Next]_vars
  PROVE  CallsStand'
<1> DEFINE Stands(j) ==
      /\ pc'[j] \in InCall => Current(wal'[j]) = mem'[j]
      /\ pc'[j] = "dispatch" => mem'[j] = "QUEUED"
      /\ pc'[j] \in {"announce", "run"} => mem'[j] = "DISPATCHED"
      /\ pc'[j] \in {"execute", "boot", "lock", "send", "wait", "adapter", "verify",
             "orphan"} =>
           mem'[j] = "RUNNING"
      /\ pc'[j] \in {"mutated", "observe", "attest", "complete", "deny", "diverged"} =>
           mem'[j] = "VERIFYING"
      /\ pc'[j] = "fail" => mem'[j] \in {"RUNNING", "VERIFYING"}
      /\ pc'[j] = "report" => mem'[j] = "FAILED"
      /\ pc'[j] = "invalidate" => mem'[j] = "ORPHANED"
<1> SUFFICES ASSUME NEW j \in Intents PROVE Stands(j)
  BY DEF CallsStand
<1> USE DEF InCall
<1>1. JournalTypeOK /\ CallTypeOK
  BY DEF TypeOK, DispatchTypeOK
<1>9. {"REJECTED", "QUEUED", "DISPATCHED", "RUNNING", "VERIFYING", "COMPLETED", "FAILED",
       "ORPHANED"} \subseteq IntentExecutionState
  BY DEF IntentExecutionState
<1>2. CASE pc'[j] \notin InCall
  BY <1>2
<1>3. CASE pc'[j] = pc[j] /\ mem'[j] = mem[j] /\ pc[j] \in InCall
  <2>1. wal'[j] = wal[j]
    <3>1. ASSUME NEW i \in Intents, NEW s \in IntentExecutionState, Logs(i, s),
                 CallRecord(i, s) \/ RecoveryRecord(i, s)
          PROVE  wal'[j] = wal[j]
      <4>1. i # j
        BY <1>3, <3>1 DEF CallRecord, RecoveryRecord, Alone, Quiescent
      <4> QED
        BY <1>1, <3>1, <4>1, OneRecord DEF JournalTypeOK
    <3> QED
      BY <3>1, JournalSteps
  <2> QED
    BY <1>3, <2>1 DEF CallsStand
<1>4. CASE Refuse(j) \/ EncodeFails(j)
  <2>1. pc'[j] \notin InCall
    BY <1>1, <1>4 DEF Refuse, EncodeFails, Transition, Goto, CallTypeOK
  <2> QED
    BY <2>1
<1>5. CASE Submit(j) \/ Dispatch(j) \/ Run(j) \/ Verify(j) \/ Complete(j) \/ Diverge(j)
           \/ MarkOrphaned(j)
  <2> DEFINE Moves == {<<"QUEUED", "dispatch">>, <<"DISPATCHED", "announce">>,
                       <<"RUNNING", "execute">>, <<"VERIFYING", "mutated">>,
                       <<"COMPLETED", "completed">>, <<"FAILED", "failed">>,
                       <<"ORPHANED", "invalidate">>}
  <2>1. PICK from, s, next, onRaise : Transition(j, from, s, next, onRaise)
                                      /\ <<s, next>> \in Moves
    BY <1>5 DEF Submit, Dispatch, Run, Verify, Complete, Diverge, MarkOrphaned
  <2>2. s \in IntentExecutionState
    BY <1>9, <2>1
  <2>3. pc'[j] = next /\ mem'[j] = s /\ Current(wal'[j]) = s
    BY <1>1, <2>1, <2>2, TransitionStands
  <2> QED
    BY <2>1, <2>3
<1>6. CASE MarkFailed(j)
  <2>1. mem[j] \in {"RUNNING", "VERIFYING"}
    BY <1>6 DEF MarkFailed, Transition, Goto, CallsStand
  <2>2. Transition(j, "fail", "FAILED", "report", "raised")
    BY <1>6, <2>1 DEF MarkFailed, TERMINAL_STATES
  <2>3. pc'[j] = "report" /\ mem'[j] = "FAILED" /\ Current(wal'[j]) = "FAILED"
    BY <1>1, <1>9, <2>2, TransitionStands
  <2> QED
    BY <2>3
<1>7. CASE Announce(j) \/ EmitMutated(j) \/ Observe(j) \/ Attest(j) \/ Deny(j)
           \/ ReportFailure(j) \/ Invalidate(j)
  <2>1. UNCHANGED <<wal, mem>>
    BY <1>7
    DEF Announce, EmitMutated, Observe, Attest, Deny, ReportFailure, Invalidate, Emit,
        EmitVerification, journalVars
  <2> QED
    BY <1>1, <1>7, <2>1
    DEF Announce, EmitMutated, Observe, Attest, Deny, ReportFailure, Invalidate, Emit,
        EmitVerification, Goto, CallTypeOK, CallsStand
<1>8. CASE EnsureWorker(j) \/ FoundReady(j)
           \/ TakeLock(j) \/ SendRequest(j) \/ SeesDeath(j) \/ TimesOut(j) \/ GotResult(j)
           \/ CallAdapter(j) \/ AdapterReturns(j)
  BY <1>1, <1>8
  DEF EnsureWorker, FoundReady,
      TakeLock, SendRequest, SeesDeath, TimesOut, GotResult, CallAdapter,
      AdapterReturns, callRest, journalVars, Goto, CallTypeOK, CallsStand
<1> QED
  BY <1>2, <1>3, <1>4, <1>5, <1>6, <1>7, <1>8, CallMoves DEF Continue

(* While recovery runs, only recovery writes.                              *)
LEMMA RecoveryHasJournal ==
  ASSUME RecoveryAlone, TypeOK, Alone, rec # "off", [Next]_vars
  PROVE  Recover \/ UNCHANGED wal
<1>1. CASE CallStep
  BY <1>1, CallsRest DEF journalVars
<1>2. CASE Crash \/ Restart \/ UNCHANGED vars
  BY <1>2 DEF Crash, JournalCrash, Restart, vars, dispatchVars, journalVars
<1> QED
  BY <1>1, <1>2 DEF Next

(* The recovery stands where the journal does.                             *)
LEMMA NextRecoveryStands ==
  ASSUME RecoveryAlone, MaxWalFaults = 0, TypeOK, Alone, HeldHasLanded, JournalWorks,
         RecoveryStands, [Next]_vars
  PROVE  RecoveryStands'
<1>1. /\ JournalTypeOK
      /\ \A q \in Paths : landed[q] \subseteq landed'[q]
      /\ Target \in [Intents -> Paths] /\ Bytes \in [Intents -> Contents]
      /\ who \in Intents /\ todo \subseteq Intents
  BY EvidenceStays, LaneAssumption DEF TypeOK, DispatchTypeOK
<1>2. ASSUME rec' \in {"scan", "invalidate"}, NEW i \in todo'
      PROVE  /\ Current(wal'[i]) = Current(seen'[i])
             /\ Current(wal'[i]) \in {"QUEUED", "DISPATCHED", "RUNNING"}
  <2>1. CASE UNCHANGED <<wal, seen, todo>> /\ rec \in {"scan", "invalidate"}
    BY <1>2, <2>1 DEF RecoveryStands
  <2>2. CASE Scan
    BY <1>2, <2>2 DEF Scan, dispatchVars, journalVars
  <2>3. CASE \E j \in Intents : OrphanRunning(j) \/ AbortUnsent(j)
    <3>1. PICK j \in Intents, s \in {"ORPHANED", "ABORTED"} :
             /\ rec = "scan" /\ Logs(j, s)
             /\ todo' = todo \ {j} /\ UNCHANGED seen
      BY <2>3 DEF OrphanRunning, AbortUnsent, RecoveryLogs, Logs
    <3>2. s \in IntentExecutionState /\ i # j /\ i \in todo
      BY <1>2, <3>1 DEF IntentExecutionState
    <3>3. wal'[i] = wal[i]
      BY <1>1, <3>1, <3>2, OneRecord DEF JournalTypeOK
    <3> QED
      BY <3>1, <3>2, <3>3 DEF RecoveryStands
  <2>4. CASE PublishInvalidated
    BY <1>2, <2>4 DEF PublishInvalidated, RecoveryEmits, journalVars, RecoveryStands
  <2>5. CASE Recover
    <3>1. \/ Scan \/ PublishInvalidated
          \/ \E j \in Intents : OrphanRunning(j) \/ AbortUnsent(j)
      BY <1>2, <2>5
      DEF Recover, LogRecovering, SettleOrphan, ScanEnds, Reconcile, ReconcileFrom,
          RecoveryLogs, ObserveEffect, PublishVerdict
    <3> QED
      BY <2>2, <2>3, <2>4, <3>1
  <2>6. CASE ~Recover
    <3>1. UNCHANGED recVars
      BY <1>2, <2>6 DEF Next, CallStep, Crash, Restart, vars
    <3>2. UNCHANGED wal
      BY <1>2, <2>6, <3>1, RecoveryHasJournal DEF recVars
    <3> QED
      BY <1>2, <2>1, <3>1, <3>2 DEF recVars
  <2> QED
    BY <2>5, <2>6
<1>3. ASSUME rec' = "recover"
      PROVE  Current(wal'[who']) = "ORPHANED"
  <2>1. CASE \E i \in Intents : Reconcile(i)
    BY <2>1 DEF Reconcile, ReconcileFrom, dispatchVars, journalVars
  <2>2. CASE rec = "recover" /\ who' = who
    <3>1. ~Recover
      BY <1>3, <2>2
      DEF Recover, OrphanRunning, AbortUnsent, LogRecovering, SettleOrphan, Scan, ScanEnds,
          Reconcile, ReconcileFrom, PublishInvalidated, RecoveryEmits, RecoveryLogs,
          ObserveEffect, PublishVerdict, MayRecover
    <3> QED
      BY <2>2, <3>1, RecoveryHasJournal DEF RecoveryStands
  <2> QED
    BY <1>3, <2>1, <2>2, RecoveryMoves
<1>4. ASSUME rec' \in {"observe", "publish", "settle"}
      PROVE  Current(wal'[who']) = "RECOVERING"
  <2>1. CASE LogRecovering
    <3>1. Logs(who, "RECOVERING") /\ who' = who
      BY <2>1 DEF LogRecovering, RecoveryLogs, Logs
    <3> QED
      BY <1>1, <3>1, OneRecord DEF IntentExecutionState
  <2>2. CASE ~LogRecovering
    <3>1. who' = who /\ rec \in {"observe", "publish", "settle"}
      BY <1>4, <2>2, RecoveryMoves DEF ObserveEffect
    <3>2. UNCHANGED wal
      <4>1. CASE Recover
        BY <1>4, <3>1, <4>1
        DEF Recover, OrphanRunning, AbortUnsent, LogRecovering, SettleOrphan, Scan, ScanEnds,
            Reconcile, ReconcileFrom, PublishInvalidated, RecoveryLogs, MayRecover,
            ObserveEffect, PublishVerdict, dispatchVars, journalVars
      <4> QED
        BY <3>1, <4>1, RecoveryHasJournal
    <3> QED
      BY <3>1, <3>2 DEF RecoveryStands
  <2> QED
    BY <2>1, <2>2
<1>5. ASSUME rec' \in {"publish", "settle"}, matched'
      PROVE  Bytes[who'] \in landed'[Target[who']]
  <2>1. CASE ObserveEffect
    <3>1. who' = who /\ Holds(who)
      BY <1>5, <2>1 DEF ObserveEffect
    <3> QED
      BY <1>1, <3>1 DEF Holds, HeldHasLanded
  <2>2. CASE ~ObserveEffect
    <3>1. who' = who /\ matched' = matched /\ rec \in {"publish", "settle"}
      BY <1>5, <2>2, RecoveryMoves
    <3>2. Bytes[who] \in landed[Target[who]]
      BY <1>5, <3>1 DEF RecoveryStands
    <3> QED
      BY <1>1, <3>1, <3>2
  <2> QED
    BY <2>1, <2>2
<1> QED
  BY <1>2, <1>3, <1>4, <1>5 DEF RecoveryStands

(* At first nothing is journaled, under way or published.                  *)
LEMMA InitFaithful == Init => Faithful
BY DEF Init, DispatchInit, JournalInit, Faithful, JournalWorks, CallsStand, RecoveryStands,
       NoLines, InCall

(* Every step keeps it so.                                                 *)
LEMMA NextFaithful ==
  ASSUME RecoveryAlone, MaxWalFaults = 0
  PROVE  TypeOK /\ Evidence /\ Outcome /\ Faithful /\ [Next]_vars => Faithful'
BY NextWorks, NextCallsStand, NextRecoveryStands
DEF Faithful, Outcome, Evidence

(* The invariant holds throughout.                                         *)
LEMMA FaithfulHolds ==
  ASSUME RecoveryAlone, MaxWalFaults = 0
  PROVE  Spec => []Faithful
BY OutcomeHolds, InitType, NextType, InitEvidence, NextEvidence, InitFaithful, NextFaithful,
   PTL DEF Spec

(* Once an intent's fate is journaled, neither its call nor a recovery     *)
(* adds a record, if the journal works and recovery keeps apart.           *)
THEOREM FateIsFinal ==
  ASSUME RecoveryAlone, MaxWalFaults = 0
  PROVE  Spec => SettledIsFinal
<1>1. ASSUME TypeOK, Outcome, Faithful, [Next]_vars
      PROVE  [\A i \in Intents : Current(wal[i]) \in Settled => wal'[i] = wal[i]]_dispatchVars
  <2>1. JournalTypeOK
    BY <1>1 DEF TypeOK, DispatchTypeOK
  <2>2. ASSUME NEW i \in Intents, NEW s \in IntentExecutionState, Logs(i, s),
               CallRecord(i, s) \/ RecoveryRecord(i, s),
               NEW j \in Intents, Current(wal[j]) \in Settled
        PROVE  wal'[j] = wal[j]
    <3>1. i # j
      BY <1>1, <2>1, <2>2, StateBefore DEF Settled, TERMINAL_STATES, Outcome, Faithful
    <3> QED
      BY <1>1, <2>1, <2>2, <3>1, OneRecord DEF JournalTypeOK, Faithful
  <2> QED
    BY <1>1, <2>2, JournalSteps
<1> QED
  BY <1>1, OutcomeHolds, FaithfulHolds, InitType, NextType, PTL DEF Spec, SettledIsFinal

-------------------------------------------------------------------------------
(* The refinement *)

(* An intent that is about to act is exposed in the journal.               *)
LEMMA ActorIsExposed ==
  ASSUME TypeOK, Outcome, NEW i \in Intents, HasRecord(wal[i], "RUNNING"), ~Inert(i)
  PROVE  Fate(i) \in {"exposed", "kept", "disowned"}
<1>1. wal[i] \in Seq(IntentExecutionState) /\ wal[i] # <<>>
  BY DEF TypeOK, DispatchTypeOK, JournalTypeOK, HasRecord
<1>2. Written(i, Current(wal[i])) /\ Current(wal[i]) \notin Unsent
  BY <1>1, CurrentIsRecord DEF Written, Outcome, RunningIsBehind
<1>3. Current(wal[i]) \notin {"ABORTED", "REJECTED"}
  BY <1>2 DEF Outcome, WithdrawnAreInert
<1> QED
  BY <1>2, <1>3 DEF Fate, Unsent

(* Effects and records are never one step; an effect is that of an intent  *)
(* that is running.                                                        *)
LEMMA EffectSteps ==
  ASSUME TypeOK, AnnouncedBeforeEffect, [Next]_vars
  PROVE  \/ UNCHANGED <<landed, performed>>
         \/ /\ UNCHANGED wal
            /\ \E i \in Intents :
                  /\ HasRecord(wal[i], "RUNNING") /\ ~Inert(i)
                  /\ performed' = performed \cup {i}
                  /\ \/ landed' = landed
                     \/ landed' = [landed EXCEPT ![Target[i]] = @ \cup {Bytes[i]}]
<1>1. LaneTypeOK /\ CallTypeOK
  BY DEF TypeOK, DispatchTypeOK
<1>2. CASE \E i \in Intents : Start(i)
  BY <1>2 DEF Start, Refuse, EncodeFails, Submit, Transition, laneVars, storage
<1>3. CASE \E i \in Intents : Continue(i)
  <2>1. PICK i \in Intents : Continue(i)
    BY <1>3
  <2>2. CASE CallAdapter(i)
    <3>1. pc[i] = "execute"
      BY <2>2 DEF CallAdapter, Goto
    <3>2. HasRecord(wal[i], "RUNNING") /\ ~Inert(i)
      BY <3>1 DEF AnnouncedBeforeEffect, Exposed, InCall, Inert, Ended
    <3> QED
      BY <2>2, <3>2 DEF CallAdapter, callRest, journalVars
  <2>3. CASE ~CallAdapter(i)
    BY <2>1, <2>3
    DEF Continue, Dispatch, Announce, Run, EnsureWorker, Launch, FoundReady,
        TakeLock, SendRequest, SeesDeath,
        TimesOut, GotResult, AdapterReturns, Verify, EmitMutated, Observe, Attest,
        Complete, Deny, Diverge, MarkFailed, ReportFailure, MarkOrphaned, Invalidate,
        Transition, Emit, EmitVerification, laneVars, storage
  <2> QED
    BY <2>2, <2>3
<1>4. CASE \E w \in Workers : WorkerStep(w)
  <2>1. PICK w \in Workers : WorkerStep(w)
    BY <1>4
  <2>2. CASE WriteTarget(w)
    <3> DEFINE i == Head(workers[w].inbox)
    <3>1. i \in Intents /\ i = workers[w].inbox[1] /\ 1 \in DOMAIN workers[w].inbox
      BY <1>1, <2>2, WorkingOn DEF WriteTarget
    <3>2. HasRecord(wal[i], "RUNNING") /\ ~Inert(i)
      BY <3>1 DEF AnnouncedBeforeEffect, Inert
    <3>3. performed' = performed \cup {i}
      BY <2>2 DEF WriteTarget
    <3>4. \/ landed' = [landed EXCEPT ![Target[i]] = @ \cup {Bytes[i]}]
          \/ landed' = [landed EXCEPT ![Target[i]] = @]
      BY <2>2 DEF WriteTarget
    <3>5. landed \in [Paths -> SUBSET Contents]
      BY <1>1 DEF LaneTypeOK
    <3>6. [landed EXCEPT ![Target[i]] = @] = landed
      BY <3>5
    <3>7. UNCHANGED wal
      BY <2>1, <2>2 DEF WorkerStep, DeliverResult, callRest, journalVars
    <3> QED
      BY <3>1, <3>2, <3>3, <3>4, <3>6, <3>7
  <2>3. CASE ~WriteTarget(w)
    BY <2>1, <2>3
    DEF WorkerStep, DeliverResult, TakeFrame, Handshake, HeartbeatTimeout, FinishStop,
        ReadEOF, RefuseRequest, ReplyToWrite, ProcessDies, storage
  <2> QED
    BY <2>2, <2>3
<1>5. CASE Recover
  BY <1>1, <1>5, RecoverLeavesLane DEF laneVars, storage
<1>6. CASE Crash \/ Restart \/ UNCHANGED vars
  BY <1>6 DEF Crash, LaneCrash, storage, Restart, vars, dispatchVars, laneVars
<1> QED
  BY <1>2, <1>3, <1>4, <1>5, <1>6 DEF Next, CallStep

(* What the abstract specification sees.                                   *)
FateOf == [i \in Intents |-> Fate(i)]
Held == {claim \in Paths \X Contents : claim[2] \in landed[claim[1]]}

(* A content that lands is a claim that holds.                             *)
LEMMA LandingHolds ==
  ASSUME LaneTypeOK, NEW i \in Intents,
         landed' = [landed EXCEPT ![Target[i]] = @ \cup {Bytes[i]}]
  PROVE  Held' = Held \cup {<<Target[i], Bytes[i]>>}
<1>1. Target[i] \in Paths /\ Bytes[i] \in Contents /\ landed \in [Paths -> SUBSET Contents]
  BY LaneAssumption DEF LaneTypeOK
<1>2. ASSUME NEW q \in Paths, NEW c \in Contents
      PROVE  c \in landed'[q] <=> c \in landed[q] \/ (q = Target[i] /\ c = Bytes[i])
  BY <1>1
<1> QED
  BY <1>1, <1>2 DEF Held

(* A step with an effect is an Act.                                        *)
LEMMA EffectIsAct ==
  ASSUME TypeOK, Outcome, UNCHANGED wal, NEW i \in Intents,
         HasRecord(wal[i], "RUNNING"), ~Inert(i), performed' = performed \cup {i},
         \/ landed' = landed
         \/ landed' = [landed EXCEPT ![Target[i]] = @ \cup {Bytes[i]}]
  PROVE  Promise!Act(i)
<1>1. Fate(i) \in {"exposed", "kept", "disowned"}
  BY ActorIsExposed
<1>2. FateOf' = FateOf
  BY DEF FateOf, Fate
<1>3. Held' \in {Held, Held \cup {<<Target[i], Bytes[i]>>}}
  BY LandingHolds DEF TypeOK, DispatchTypeOK, Held
<1> QED
  BY <1>1, <1>2, <1>3 DEF Promise!Act, FateOf, Held

(* A step with a record declares a fate, or what the abstract              *)
(* specification does not see.                                             *)
LEMMA RecordIsDeclared ==
  ASSUME MaxWalFaults = 0, TypeOK, Evidence, Outcome, Faithful,
         UNCHANGED <<landed, performed>>,
         NEW i \in Intents, NEW s \in IntentExecutionState, Logs(i, s),
         CallRecord(i, s) \/ RecoveryRecord(i, s)
  PROVE  [Promise!PromiseNext]_(Promise!promiseVars)
<1>1. JournalTypeOK
  BY DEF TypeOK, DispatchTypeOK
<1>2. wal' = [wal EXCEPT ![i] = Append(@, s)] /\ Current(wal'[i]) = s
  BY <1>1, OneRecord DEF Faithful
<1>3. Held' = Held /\ performed' = performed
  BY DEF Held
<1>4. \A j \in Intents : j # i => Fate(j)' = Fate(j)
  BY <1>1, <1>2 DEF Fate, JournalTypeOK
<1>5. FateOf' = [FateOf EXCEPT ![i] = Fate(i)']
  BY <1>4 DEF FateOf
<1>6. CASE s \in {"REJECTED", "ABORTED"}
  <2>1. Fate(i) = "open" /\ Fate(i)' = "withdrawn"
    BY <1>1, <1>2, <1>6, StateBefore DEF Fate, Outcome, Faithful
  <2>2. Promise!Withdraw(i)
    BY <1>3, <1>5, <2>1 DEF Promise!Withdraw, Promise!Declare, FateOf, Held
  <2> QED
    BY <2>2 DEF Promise!PromiseNext
<1>7. CASE s = "RUNNING"
  <2>1. Fate(i) = "open" /\ Fate(i)' = "exposed"
    BY <1>1, <1>2, <1>7, StateBefore DEF Fate, Outcome, Faithful
  <2>2. Promise!Expose(i)
    BY <1>3, <1>5, <2>1 DEF Promise!Expose, Promise!Declare, FateOf, Held
  <2> QED
    BY <2>2 DEF Promise!PromiseNext
<1>8. CASE s \in {"COMPLETED", "RECONCILED"}
  <2>1. Fate(i) = "exposed" /\ Fate(i)' = "kept"
    BY <1>1, <1>2, <1>8, StateBefore DEF Fate, Outcome, Faithful
  <2>2. i \in InProcess \/ Bytes[i] \in landed[Target[i]]
    <3>1. CASE s = "COMPLETED"
      BY <3>1 DEF CallRecord, RecoveryRecord, Evidence, CallsCollectProof
    <3>2. CASE s = "RECONCILED"
      BY <3>2 DEF CallRecord, RecoveryRecord, Faithful, RecoveryStands
    <3> QED
      BY <1>8, <3>1, <3>2
  <2>3. Target[i] \in Paths /\ Bytes[i] \in Contents
    BY LaneAssumption
  <2>4. i \in InProcess \/ <<Target[i], Bytes[i]>> \in Held
    BY <2>2, <2>3 DEF Held
  <2>5. Promise!Keep(i)
    BY <1>3, <1>5, <2>1, <2>4 DEF Promise!Keep, Promise!Declare, FateOf, Held
  <2> QED
    BY <2>5 DEF Promise!PromiseNext
<1>9. CASE s = "FAILED"
  <2>1. Fate(i) = "exposed" /\ Fate(i)' = "disowned"
    BY <1>1, <1>2, <1>9, StateBefore DEF Fate, Outcome, Faithful
  <2>2. Promise!Disown(i)
    BY <1>3, <1>5, <2>1 DEF Promise!Disown, Promise!Declare, FateOf, Held
  <2> QED
    BY <2>2 DEF Promise!PromiseNext
<1>10. CASE s \in {"QUEUED", "DISPATCHED", "VERIFYING", "ORPHANED", "RECOVERING"}
  <2>1. Fate(i)' = Fate(i)
    BY <1>1, <1>2, <1>10, StateBefore DEF Fate, Outcome, Faithful
  <2>2. FateOf' = FateOf
    BY <1>5, <2>1 DEF FateOf
  <2> QED
    BY <1>3, <2>2 DEF Promise!promiseVars, FateOf, Held
<1> QED
  BY <1>1, <1>6, <1>7, <1>8, <1>9, <1>10, StateBefore DEF Outcome, Faithful

(* dispatch_sync() and recovery together keep what IntentPromise promises: *)
(* through worker deaths, late writes, failing events and crashes, every   *)
(* step is one of the abstract specification or is not seen by it, if the  *)
(* journal works and recovery keeps apart.                                 *)
THEOREM KeepsItsPromise ==
  ASSUME RecoveryAlone, MaxWalFaults = 0
  PROVE  Spec => KeepsPromise
<1>1. Init => Promise!PromiseInit
  <2> SUFFICES ASSUME Init PROVE Promise!PromiseInit
    OBVIOUS
  <2>1. wal = NoLines /\ performed = {}
    BY DEF Init, DispatchInit, JournalInit, LaneInit
  <2>2. \A i \in Intents : Fate(i) = "open"
    BY <2>1 DEF Fate, Current, NoLines
  <2> QED
    BY <2>1, <2>2 DEF Promise!PromiseInit
<1>2. ASSUME TypeOK, AnnouncedBeforeEffect, Evidence, Outcome, Faithful, [Next]_vars
      PROVE  [Promise!PromiseNext]_(Promise!promiseVars)
  <2>1. CASE /\ UNCHANGED wal
             /\ \E i \in Intents :
                   /\ HasRecord(wal[i], "RUNNING") /\ ~Inert(i)
                   /\ performed' = performed \cup {i}
                   /\ \/ landed' = landed
                      \/ landed' = [landed EXCEPT ![Target[i]] = @ \cup {Bytes[i]}]
    BY <1>2, <2>1, EffectIsAct DEF Promise!PromiseNext
  <2>2. CASE UNCHANGED <<landed, performed>>
    <3>1. CASE UNCHANGED wal
      BY <2>2, <3>1 DEF Promise!promiseVars, Fate
    <3> QED
      BY <1>2, <2>2, <3>1, RecordIsDeclared, JournalSteps
  <2> QED
    BY <1>2, <2>1, <2>2, EffectSteps
<1> QED
  BY <1>1, <1>2, OutcomeHolds, FaithfulHolds, InitType, NextType, InitEvidence, NextEvidence,
     InitAnnounces, NextAnnounces, PTL DEF Spec, KeepsPromise, Promise!PromiseSpec

================================================================================
