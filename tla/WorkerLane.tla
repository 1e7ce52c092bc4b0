------------------------------ MODULE WorkerLane ------------------------------
(***************************************************************************)
(* The worker lane: WorkerSupervisor (core/runtime/worker_runtime.py), the *)
(* filesystem worker process it supervises (workers/worker_base.py,        *)
(* workers/filesystem_worker.py) and the writes the process performs       *)
(* (core/adapters/filesystem_adapter.py).                                  *)
(*                                                                         *)
(* A worker reads its stdin frame by frame and answers on stdout; both     *)
(* pipes are FIFO.  The supervisor's IO thread reads stdout, its watchdog  *)
(* stops a worker that misses heartbeats.  A worker may be TERMINATING,    *)
(* and still writing, while its replacement already runs.                  *)
(*                                                                         *)
(* Heartbeat frames and the TERMINATE frame carry no state of their own    *)
(* here: TERMINATE is behind every request in the pipe and nothing is      *)
(* sent after it.  A lease is accepted or refused at the boundary; both    *)
(* outcomes of a request are possible.                                     *)
(***************************************************************************)
EXTENDS IntentLifecycle

CONSTANTS Paths,       \* the files
          Contents,    \* what an intent, or anything before it, may write
          Target,      \* Target[i]: the path of intent i
          Bytes,       \* Bytes[i]: the content of intent i
          Appends,     \* the intents with mode "a" (the others replace)
          OldFiles,    \* what a file may hold before the first dispatch
          MaxDeaths    \* bound on worker deaths, stops and failed spawns

ASSUME LaneAssumption ==
  /\ Target \in [Intents -> Paths]
  /\ Bytes \in [Intents -> Contents]
  /\ OldFiles \subseteq Seq(Contents)
  /\ MaxDeaths \in Nat

VARIABLES workers,    \* workers[w]: supervisor and process of worker w
          sup,        \* the dispatcher's current worker, 0: none yet
          deaths,     \* worker deaths so far
          file,       \* file[p]: the chunks written to p, <<>>: no such file
          landed,     \* landed[p]: the contents that were p's whole content
          performed   \* the intents whose write reached the disk

laneVars == <<workers, sup, deaths, file, landed, performed>>

(* Each worker after the first replaces one that died.                     *)
Workers == 1 .. MaxDeaths + 1

Answers == {"match", "differs", "error"}

WorkerState == {"none", "BOOTING", "READY", "TERMINATING", "DEAD"}

NoWorker == [state |-> "none", alive |-> FALSE, inbox |-> <<>>,
             written |-> FALSE, outbox |-> <<>>, reading |-> FALSE]

LaneInit ==
  /\ workers = [w \in Workers |-> NoWorker]
  /\ sup = 0
  /\ deaths = 0
  /\ file \in [Paths -> OldFiles]
  /\ landed = [p \in Paths |-> {c \in Contents : file[p] = <<c>>}]
  /\ performed = {}

LaneTypeOK ==
  /\ workers \in [Workers -> [state : WorkerState, alive : BOOLEAN,
                              inbox : Seq(Intents), written : BOOLEAN,
                              outbox : Seq([intent : Intents, answer : Answers]),
                              reading : BOOLEAN]]
  /\ sup \in 0 .. MaxDeaths + 1
  /\ deaths \in 0 .. MaxDeaths
  /\ file \in [Paths -> Seq(Contents)]
  /\ landed \in [Paths -> SUBSET Contents]
  /\ performed \subseteq Intents

(* The digest of a file equals the digest of the intended content.         *)
Holds(i) == file[Target[i]] = <<Bytes[i]>>

(* _supervisor_alive(): the dispatcher's view of a worker.                 *)
SupervisorAlive(w) ==
  /\ w # 0
  /\ workers[w].state \notin {"DEAD", "TERMINATING"}
  /\ workers[w].alive

storage == <<file, landed, performed>>

-------------------------------------------------------------------------------
(* The supervisor *)

(* launch_worker() and start(): the process is spawned and bound to its    *)
(* Job Object, or either fails and the supervisor is DEAD at once.         *)
Launch(w) ==
  /\ w \in Workers
  /\ sup' = w
  /\ \/ /\ workers' = [workers EXCEPT ![w] =
                         [NoWorker EXCEPT !.state = "BOOTING", !.alive = TRUE,
                                          !.reading = TRUE]]
        /\ UNCHANGED deaths
     \/ /\ deaths < MaxDeaths
        /\ deaths' = deaths + 1
        /\ workers' = [workers EXCEPT ![w] = [NoWorker EXCEPT !.state = "DEAD"]]
  /\ UNCHANGED storage

(* Mutant: the handshake leaves the worker in a state nobody waits for.    *)
HandshakeExecuting(w) ==
  /\ workers[w].state = "BOOTING"
  /\ workers[w].alive
  /\ workers' = [workers EXCEPT ![w].state = "EXECUTING"]
  /\ UNCHANGED <<sup, deaths, storage>>

(* HANDSHAKE_SYN is answered and the ACK handled.                          *)
Handshake(w) ==
  /\ workers[w].state = "BOOTING"
  /\ workers[w].alive
  /\ workers' = [workers EXCEPT ![w].state = "READY"]
  /\ UNCHANGED <<sup, deaths, storage>>

(* The end of send_frame(EXECUTE_REQUEST): the frame is in the pipe.  A    *)
(* request to a process that is gone is lost and the sender is not told.   *)
SendFrame(w, i) ==
  workers' = IF workers[w].alive
               THEN [workers EXCEPT ![w].inbox = Append(@, i)]
               ELSE workers

(* The watchdog misses the heartbeat of a worker: stop() enters            *)
(* TERMINATING and gives the process two seconds.                          *)
HeartbeatTimeout(w) ==
  /\ workers[w].state \in {"BOOTING", "READY"}
  /\ deaths < MaxDeaths
  /\ deaths' = deaths + 1
  /\ workers' = [workers EXCEPT ![w].state = "TERMINATING"]
  /\ UNCHANGED <<sup, storage>>

(* stop() ends: the process has exited or is killed with its Job Object,   *)
(* the pipes are closed.                                                   *)
FinishStop(w) ==
  /\ workers[w].state = "TERMINATING"
  /\ workers' = [workers EXCEPT ![w] = [NoWorker EXCEPT !.state = "DEAD"]]
  /\ UNCHANGED <<sup, deaths, storage>>

(* The IO thread reads EOF: nobody stopped this worker, it died.           *)
ReadEOF(w) ==
  /\ workers[w].state \in {"BOOTING", "READY"}
  /\ ~workers[w].alive
  /\ workers[w].outbox = <<>>
  /\ workers' = [workers EXCEPT ![w].state = "DEAD", ![w].reading = FALSE]
  /\ UNCHANGED <<sup, deaths, storage>>

(* The IO thread takes the next EXECUTE_RESULT.  Once stop() has begun the *)
(* loop ends after the line it is reading.                                 *)
TakeFrame(w) ==
  /\ workers[w].reading
  /\ workers[w].outbox # <<>>
  /\ workers' = [workers EXCEPT ![w].outbox = Tail(@),
                                ![w].reading = workers[w].state # "TERMINATING"]
  /\ UNCHANGED <<sup, deaths, storage>>

-------------------------------------------------------------------------------
(* The worker process *)

Working(w) == workers[w].alive /\ workers[w].inbox # <<>>

Reply(w, answer) ==
  workers' = [workers EXCEPT
                ![w].inbox = Tail(@), ![w].written = FALSE,
                ![w].outbox = Append(@, [intent |-> Head(workers[w].inbox),
                                         answer |-> answer])]

(* The request is refused at the boundary (lease, contract), or the        *)
(* adapter fails before it touches the target.                             *)
RefuseRequest(w) ==
  /\ Working(w)
  /\ ~workers[w].written
  /\ Reply(w, "error")
  /\ UNCHANGED <<sup, deaths, storage>>

(* _do_write(): os.replace() in mode "w", an appended chunk in mode "a".   *)
WriteTarget(w) ==
  /\ Working(w)
  /\ ~workers[w].written
  /\ LET i == Head(workers[w].inbox)
         now == IF i \in Appends THEN Append(file[Target[i]], Bytes[i])
                                 ELSE <<Bytes[i]>>
     IN /\ file' = [file EXCEPT ![Target[i]] = now]
        /\ landed' = [landed EXCEPT ![Target[i]] =
                        IF now = <<Bytes[i]>> THEN @ \cup {Bytes[i]} ELSE @]
        /\ performed' = performed \cup {i}
  /\ workers' = [workers EXCEPT ![w].written = TRUE]
  /\ UNCHANGED <<sup, deaths>>

(* The digest of the final bytes is read back and reported, or reading     *)
(* them fails and the request is answered as failed.                       *)
ReplyToWrite(w) ==
  /\ Working(w)
  /\ workers[w].written
  /\ \/ Reply(w, IF Holds(Head(workers[w].inbox)) THEN "match" ELSE "differs")
     \/ Reply(w, "error")
  /\ UNCHANGED <<sup, deaths, storage>>

(* The process dies at any point; what it already wrote to stdout stays in *)
(* the pipe.                                                               *)
ProcessDies(w) ==
  /\ workers[w].alive
  /\ deaths < MaxDeaths
  /\ deaths' = deaths + 1
  /\ workers' = [workers EXCEPT ![w].alive = FALSE, ![w].inbox = <<>>,
                                ![w].written = FALSE]
  /\ UNCHANGED <<sup, storage>>

(* The kernel dies and the OS closes its Job Objects.                      *)
LaneCrash ==
  /\ workers' = [w \in Workers |-> NoWorker]
  /\ sup' = 0
  /\ UNCHANGED <<deaths, storage>>
===============================================================================
