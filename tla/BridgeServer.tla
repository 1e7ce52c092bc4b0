---------------------------- MODULE BridgeServer ----------------------------
(***************************************************************************)
(* The ingress of the bridge (core/ipc/bridge_server.py): what the server  *)
(* makes of the messages of its one client.                                *)
(*                                                                         *)
(* The connection delivers in order; the client numbers its messages, may  *)
(* send the numbers out of order, send a message twice, leave one out for  *)
(* as long as it likes and, after it has reconnected, send one of the      *)
(* connection before again under another number.  Nothing suspends between *)
(* two steps of one message that another coroutine could use: a message is *)
(* one action.  A payload is not modelled; text that is not JSON is        *)
(* skipped by the code.  A client that numbers two new messages of one     *)
(* connection alike is left out (README, section 9).                       *)
(***************************************************************************)
EXTENDS Integers, FiniteSets, SequencesExt

CONSTANTS MaxSeq,        \* bound: the numbers of a connection are 0 .. MaxSeq
          QueueLimit,    \* _OOO_QUEUE_LIMIT
          MaxConns,      \* bound: how often the client connects
          LastSeq,       \* bound: the last number of each connection
          MaxWire        \* bound: messages under way

ASSUME BridgeAssumption ==
  /\ MaxSeq \in Nat
  /\ QueueLimit \in Nat \ {0}
  /\ MaxConns \in Nat \ {0}
  /\ LastSeq \in [1 .. MaxConns -> 0 .. MaxSeq]
  /\ MaxWire \in Nat \ {0}

VARIABLES validation_mode,
          link,       \* none, up, or closing: the handler reads what is left
          conn,       \* how often the client has connected
          wire,       \* what the handler has still to read
          given,      \* given[s]: {the msg_id sent as number s}, or {}
          expected,   \* _in_seq_expected
          queue,      \* _ooo_queue: the numbers in it
          degraded,   \* _degraded
          seen,       \* _seen_msg_ids
          dispatched, \* history: the numbers dispatched on this connection
          acted       \* history: how often each msg_id was dispatched

client == <<conn, given>>
ingress == <<expected, queue, degraded>>
history == <<dispatched, acted>>
vars == <<validation_mode, link, wire, client, ingress, seen, history>>

Seqs == 0 .. MaxSeq

(* The msg_id is that of the connection and number it was first sent with. *)
Ids == (1 .. MaxConns) \X Seqs

Invalid == -1

Init ==
  /\ validation_mode \in BOOLEAN
  /\ link = "none" /\ conn = 0
  /\ wire = <<>>
  /\ given = [s \in Seqs |-> {}]
  /\ expected = 0 /\ queue = <<>> /\ degraded = FALSE
  /\ seen = {}
  /\ dispatched = <<>> /\ acted = [id \in Ids |-> 0]

TypeOK ==
  /\ validation_mode \in BOOLEAN
  /\ link \in {"none", "up", "closing"}
  /\ conn \in 0 .. MaxConns
  /\ Range(wire) \subseteq Seqs \union {Invalid} /\ Len(wire) <= MaxWire
  /\ \A s \in Seqs : given[s] \subseteq Ids /\ Cardinality(given[s]) <= 1
  /\ expected \in 0 .. MaxSeq + 1
  /\ Range(queue) \subseteq Seqs /\ Len(queue) <= QueueLimit
  /\ degraded \in BOOLEAN
  /\ seen \subseteq Ids
  /\ Range(dispatched) \subseteq Seqs
  /\ acted \in [Ids -> Nat]

-------------------------------------------------------------------------------
(* The client *)

Put(m) == /\ link = "up" /\ Len(wire) < MaxWire
          /\ wire' = Append(wire, m)

Reset == expected' = 0 /\ queue' = <<>> /\ degraded' = FALSE

Connect ==
  /\ link = "none" /\ conn < MaxConns
  /\ link' = "up"
  /\ conn' = conn + 1
  /\ given' = [s \in Seqs |-> {}]
  /\ Reset
  /\ dispatched' = <<>>
  /\ UNCHANGED <<validation_mode, wire, seen, acted>>

Number(s, id) ==
  /\ s <= LastSeq[conn]
  /\ given' = [given EXCEPT ![s] = {id}]
  /\ UNCHANGED <<validation_mode, link, conn, ingress, seen, history>>

Send(s) ==
  /\ given[s] = {}
  /\ Put(s) /\ Number(s, <<conn, s>>)

(* What the server has received, under a new number; or what it has not,   *)
(* under a number that is long dispatched.                                 *)
SendOldAgain(s, id) ==
  /\ IF id \in seen THEN given[s] = {} ELSE s < expected /\ s \notin Range(wire)
  /\ id[1] < conn
  /\ \A r \in Seqs : id \notin given[r]
  /\ Put(s) /\ Number(s, id)

SendAgain(s) ==
  /\ given[s] # {} /\ s \notin Range(wire)
  /\ Put(s)
  /\ UNCHANGED <<validation_mode, link, client, ingress, seen, history>>

SendInvalid ==
  /\ Put(Invalid)
  /\ UNCHANGED <<validation_mode, link, client, ingress, seen, history>>

(* The connection breaks, or stop() closes it: what had arrived is read.   *)
Break ==
  /\ link = "up"
  /\ link' = "closing"
  /\ \E n \in 0 .. Len(wire) : wire' = SubSeq(wire, 1, n)
  /\ UNCHANGED <<validation_mode, client, ingress, seen, history>>

-------------------------------------------------------------------------------
(* The handler *)

(* close(): the handler still reads what had arrived before.               *)
Close ==
  /\ link' = "closing"
  /\ \E n \in 0 .. Len(wire) - 1 : wire' = SubSeq(Tail(wire), 1, n)

ReadOn == wire' = Tail(wire) /\ UNCHANGED link

Refuse ==
  /\ wire # <<>> /\ Head(wire) = Invalid
  /\ Close
  /\ UNCHANGED <<validation_mode, client, ingress, seen, history>>

(* Mutant of Known: the message is not looked up.                          *)
KnownNever(s) == FALSE

Known(s) == given[s] \subseteq seen

(* Already in _seen_msg_ids: returns before it looks at the number.        *)
Discard ==
  /\ wire # <<>> /\ Head(wire) # Invalid /\ Known(Head(wire))
  /\ ReadOn
  /\ UNCHANGED <<validation_mode, client, ingress, seen, history>>

(* Mutant of IsRun: the whole queue is drained.                            *)
RunOfAll(k, n) == k = Len(queue)

(* _drain_ooo_queue(): the first k of the queue are all that go on from    *)
(* number n.                                                               *)
IsRun(k, n) ==
  /\ \A i \in 1 .. k : queue[i] = n + i - 1
  /\ k < Len(queue) => queue[k + 1] # n + k

Dispatch(seqs) ==
  /\ dispatched' = dispatched \o seqs
  /\ acted' = [id \in Ids |-> acted[id] + Cardinality({s \in Range(seqs) : id \in given[s]})]

(* The expected number: _handle_sequence() drains the queue, and only then *)
(* _receive() dispatches the message itself.                               *)
Take(s) ==
  /\ s = expected
  /\ \E k \in 0 .. Len(queue) :
       /\ IsRun(k, s + 1)
       /\ expected' = s + 1 + k
       /\ queue' = SubSeq(queue, k + 1, Len(queue))
       /\ degraded' = (degraded /\ k < Len(queue))
       /\ Dispatch(SubSeq(queue, 1, k) \o <<s>>)
  /\ ReadOn

(* emit_sync() raises while one of these messages is dispatched: the       *)
(* handler ends, and the connection with it.                               *)
Fail(s) ==
  /\ s = expected
  /\ \E k \in 0 .. Len(queue) :
       IsRun(k, s + 1) /\ \E j \in 0 .. k : Dispatch(SubSeq(queue, 1, j))
  /\ link' = "none" /\ wire' = <<>>
  /\ Reset

TooLate(s) == s < expected

Skip(s) ==
  /\ TooLate(s)
  /\ ReadOn
  /\ UNCHANGED <<ingress, history>>

(* Mutant of QueueWith: the message is appended, and nothing is sorted.    *)
Unsorted(s) == Append(queue, s)

(* The queue is sorted, and is sorted again when s has been appended.      *)
QueueWith(s) ==
  LET before == {i \in DOMAIN queue : queue[i] < s} IN
  [i \in 1 .. Len(queue) + 1 |->
     IF i \in before THEN queue[i]
     ELSE IF i = 1 \/ i - 1 \in before THEN s
     ELSE queue[i - 1]]

QueueIsFull == Len(queue) >= QueueLimit

Queue(s) ==
  /\ s # expected /\ ~TooLate(s) /\ ~validation_mode /\ ~QueueIsFull
  /\ queue' = QueueWith(s)
  /\ degraded' = TRUE
  /\ ReadOn
  /\ UNCHANGED <<expected, history>>

GiveUp(s) ==
  /\ s # expected /\ ~TooLate(s) /\ (validation_mode \/ QueueIsFull)
  /\ Close
  /\ UNCHANGED <<ingress, history>>

Receive ==
  /\ wire # <<>> /\ Head(wire) # Invalid /\ ~Known(Head(wire))
  /\ seen' = seen \union given[Head(wire)]
  /\ LET s == Head(wire) IN Take(s) \/ Fail(s) \/ Skip(s) \/ Queue(s) \/ GiveUp(s)
  /\ UNCHANGED <<validation_mode, client>>

(* The finally clause of _handle_client().  The msg_ids seen are kept.     *)
CleanUp ==
  /\ link = "closing" /\ wire = <<>>
  /\ link' = "none"
  /\ Reset
  /\ UNCHANGED <<validation_mode, wire, client, seen, history>>

Handle == Refuse \/ Discard \/ Receive \/ CleanUp

Next ==
  \/ Connect \/ SendInvalid \/ Break \/ Handle
  \/ \E s \in Seqs : \/ Send(s) \/ SendAgain(s)
                     \/ \E id \in Ids : SendOldAgain(s, id)

Spec == Init /\ [][Next]_vars

(* The server reads on, and the client sends every number in the end.      *)
FairSpec ==
  /\ Spec
  /\ WF_vars(Handle)
  /\ \A s \in Seqs : SF_vars(Send(s))

-------------------------------------------------------------------------------
(* Properties *)

(* What has been dispatched on a connection is what comes before the       *)
(* expected number, each message once: whatever order they came in,        *)
(* nothing is passed over and nothing is done twice.                       *)
NoGap ==
  link # "none" =>
    /\ Range(dispatched) = 0 .. expected - 1
    /\ Len(dispatched) = expected

(* A message is acted upon once, also when it is sent again over a new     *)
(* connection.                                                             *)
ActedOnce == \A id \in Ids : acted[id] <= 1

(* While the client sends what is missing, no message stays in the queue:  *)
(* it is dispatched, or the connection is closed.  (A number that went to  *)
(* a message of the connection before may be a gap for good: the message   *)
(* is discarded before its number is looked at.)                           *)
Reused(s) == \E id \in given[s] : id[1] < conn

GapsClose ==
  \A s \in Seqs :
    s \in Range(queue) ~> s \notin Range(queue) \/ \E r \in expected .. s - 1 : Reused(r)

(* "sequence_id: transport-layer monotonic counter per connection          *)
(* (ordering, replay chronology)": the messages of a connection are        *)
(* dispatched in the order of their numbers.  They are not.                *)
DispatchedInOrder ==
  \A i, j \in DOMAIN dispatched : i < j => dispatched[i] < dispatched[j]
===============================================================================
