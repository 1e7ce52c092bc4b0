------------------------------ MODULE OrderProofs ------------------------------
(***************************************************************************)
(* What comes in is put in order, at two places that share no state.  The  *)
(* bridge passes nothing over and does nothing twice: for any numbers, any *)
(* length of the queue, any number of connections and of messages under    *)
(* way, in either mode.  The causal scheduler hands nothing out before its *)
(* parents: for every graph of events, circular ones included, any number  *)
(* of runners and any number of failing dispatches.                        *)
(***************************************************************************)
EXTENDS BridgeServer, CausalScheduler, FiniteSetTheorems, SequenceTheorems, TLAPS

-------------------------------------------------------------------------------
(***************************************************************************)
(* The bridge                                                              *)
(***************************************************************************)

Types ==
  /\ link \in {"none", "up", "closing"}
  /\ conn \in 0 .. MaxConns /\ (link # "none" => conn # 0)
  /\ wire \in Seq(Seqs \union {Invalid}) /\ (link = "none" => wire = <<>>)
  /\ given \in [Seqs -> SUBSET Ids]
  /\ expected \in Nat /\ queue \in Seq(Seqs)
  /\ seen \subseteq Ids
  /\ dispatched \in Seq(Seqs) /\ acted \in [Ids -> Nat]

(* The queue is sorted, without a number twice, and all of it is early.    *)
Sorted(q) == \A i, j \in 1 .. Len(q) : i < j => q[i] < q[j]

QueueIsEarly == Sorted(queue) /\ \A i \in 1 .. Len(queue) : queue[i] > expected

(* A number stands for one message, no message has two numbers, and a      *)
(* message of this connection has its own.                                 *)
GivenIds ==
  /\ \A s \in Seqs : \A id \in given[s] :
       /\ id[1] <= conn /\ (id[1] = conn => id[2] = s)
       /\ \A other \in given[s] : other = id
  /\ \A r, s \in Seqs : \A id \in given[r] : id \in given[s] => r = s

(* What is under way or in the queue has a number.                         *)
Numbered ==
  /\ \A s \in Range(wire) : s # Invalid => given[s] # {}
  /\ \A s \in Range(queue) : given[s] # {}

(* The queue holds messages that were seen and have not been dispatched.   *)
ActedWasSeen == \A id \in Ids : acted[id] > 0 => id \in seen
QueuedIsNew == \A s \in Range(queue) : \A id \in given[s] : id \in seen /\ acted[id] = 0

Inv ==
  /\ Types /\ QueueIsEarly /\ GivenIds /\ Numbered
  /\ ActedWasSeen /\ QueuedIsNew /\ ActedOnce /\ NoGap

-------------------------------------------------------------------------------
(* Sequences *)

(* A part of a sequence has its elements from it.                          *)
LEMMA PartOf ==
  ASSUME NEW S, NEW q \in Seq(S), NEW m \in 1 .. Len(q) + 1, NEW n \in 0 .. Len(q)
  PROVE  /\ SubSeq(q, m, n) \in Seq(S)
         /\ Len(SubSeq(q, m, n)) = IF m <= n THEN n - m + 1 ELSE 0
         /\ \A i \in 1 .. n - m + 1 : SubSeq(q, m, n)[i] = q[m + i - 1]
         /\ Range(SubSeq(q, m, n)) \subseteq Range(q)
<1>1. Len(q) \in Nat /\ \A i \in 1 .. Len(q) : q[i] \in S
  BY LenProperties, ElementOfSeq
<1>2. \A i \in m .. n : q[i] \in S
  BY <1>1
<1>3. /\ SubSeq(q, m, n) \in Seq(S)
      /\ Len(SubSeq(q, m, n)) = IF m <= n THEN n - m + 1 ELSE 0
      /\ \A i \in 1 .. n - m + 1 : SubSeq(q, m, n)[i] = q[m + i - 1]
  BY <1>1, <1>2, SubSeqProperties
<1>4. ASSUME NEW x \in Range(SubSeq(q, m, n))
      PROVE  x \in Range(q)
  <2>1. PICK i \in 1 .. Len(SubSeq(q, m, n)) : x = SubSeq(q, m, n)[i]
    BY <1>3, <1>4, RangeEquality
  <2>2. i \in 1 .. n - m + 1 /\ m + i - 1 \in 1 .. Len(q)
    BY <1>1, <1>3, <2>1
  <2>3. x = q[m + i - 1]
    BY <1>3, <2>1, <2>2
  <2> QED
    BY <2>2, <2>3, RangeEquality
<1> QED
  BY <1>3, <1>4

(* A sequence of one message.                                              *)
LEMMA OneMessage ==
  ASSUME NEW S, NEW m \in S
  PROVE  <<m>> \in Seq(S) /\ Len(<<m>>) = 1 /\ Range(<<m>>) = {m}
<1>1. <<m>> \in Seq(S) /\ Len(<<m>>) = 1 /\ <<m>>[1] = m
  OBVIOUS
<1>2. Range(<<m>>) = {<<m>>[i] : i \in 1 .. Len(<<m>>)}
  BY <1>1, RangeEquality
<1>3. 1 .. Len(<<m>>) = {1}
  BY <1>1
<1> QED
  BY <1>1, <1>2, <1>3

(* A message after a run of messages.                                      *)
LEMMA AfterTheRun ==
  ASSUME NEW S, NEW run \in Seq(S), NEW tail \in Seq(S)
  PROVE  /\ run \o tail \in Seq(S) /\ Len(run \o tail) = Len(run) + Len(tail)
         /\ Range(run \o tail) = Range(run) \union Range(tail)
<1>1. run \o tail \in Seq(S) /\ Len(run \o tail) = Len(run) + Len(tail)
  BY ConcatProperties
<1>2. Range(run \o tail) = Range(run) \union Range(tail)
  BY RangeConcatenation, Zenon
<1> QED
  BY <1>1, <1>2

(* The empty sequence.                                                     *)
LEMMA Nothing == ASSUME NEW S PROVE <<>> \in Seq(S) /\ Len(<<>>) = 0 /\ Range(<<>>) = {}
<1>1. <<>> \in Seq(S) /\ Len(<<>>) = 0
  BY EmptySeq
<1>2. Range(<<>>) = {<<>>[i] : i \in 1 .. Len(<<>>)}
  BY <1>1, RangeEquality
<1>3. 1 .. Len(<<>>) = {}
  BY <1>1
<1> QED
  BY <1>1, <1>2, <1>3

(* What is left of the wire, whether the handler reads on or closes.       *)
LEMMA Remaining ==
  ASSUME Types, wire # <<>>
  PROVE  /\ Head(wire) \in Range(wire) /\ Head(wire) \in Seqs \union {Invalid}
         /\ Tail(wire) \in Seq(Seqs \union {Invalid})
         /\ Range(Tail(wire)) \subseteq Range(wire)
         /\ \A n \in 0 .. Len(wire) - 1 :
              /\ SubSeq(Tail(wire), 1, n) \in Seq(Seqs \union {Invalid})
              /\ Range(SubSeq(Tail(wire), 1, n)) \subseteq Range(wire)
<1> DEFINE S == Seqs \union {Invalid}
           t == Tail(wire)
<1>1. wire \in Seq(S) /\ Len(wire) \in Nat \ {0}
  BY EmptySeq DEF Types
<1>2. Head(wire) = wire[1] /\ 1 \in DOMAIN wire /\ wire[1] \in S
  BY <1>1, LenProperties, ElementOfSeq
<1>3. Head(wire) \in Range(wire)
  BY <1>2 DEF Range
<1>4. t \in Seq(S) /\ Len(t) = Len(wire) - 1
  BY <1>1, HeadTailProperties
<1>5. Range(t) \subseteq Range(wire)
  <2>1. t = SubSeq(wire, 2, Len(wire))
    BY <1>1, TailIsSubSeq
  <2>2. 2 \in 1 .. Len(wire) + 1 /\ Len(wire) \in 0 .. Len(wire)
    BY <1>1
  <2> HIDE DEF t
  <2> QED
    BY <1>1, <2>1, <2>2, PartOf
<1>6. ASSUME NEW n \in 0 .. Len(wire) - 1
      PROVE  SubSeq(t, 1, n) \in Seq(S) /\ Range(SubSeq(t, 1, n)) \subseteq Range(wire)
  <2>1. 1 \in 1 .. Len(t) + 1 /\ n \in 0 .. Len(t)
    BY <1>1, <1>4
  <2> HIDE DEF t, S
  <2>2. SubSeq(t, 1, n) \in Seq(S) /\ Range(SubSeq(t, 1, n)) \subseteq Range(t)
    BY <1>4, <2>1, PartOf
  <2> QED
    BY <1>5, <2>2
<1> QED
  BY <1>2, <1>3, <1>4, <1>5, <1>6

(* Sending appends.                                                        *)
LEMMA Sent ==
  ASSUME Types, NEW m \in Seqs \union {Invalid}, Put(m)
  PROVE  /\ wire' \in Seq(Seqs \union {Invalid})
         /\ \A s \in Range(wire') : s = m \/ s \in Range(wire)
<1> DEFINE S == Seqs \union {Invalid}
<1>1. wire \in Seq(S) /\ wire' = Append(wire, m)
  BY DEF Put, Types
<1> HIDE DEF S
<1>2. /\ wire' \in Seq(S) /\ Len(wire') = Len(wire) + 1 /\ Len(wire) \in Nat
      /\ \A i \in 1 .. Len(wire) : wire'[i] = wire[i]
      /\ wire'[Len(wire) + 1] = m
  BY <1>1, AppendProperties, LenProperties DEF S
<1>3. ASSUME NEW s \in Range(wire')
      PROVE  s = m \/ s \in Range(wire)
  <2>1. PICK i \in 1 .. Len(wire') : s = wire'[i]
    BY <1>2, RangeEquality
  <2>2. i \in 1 .. Len(wire) \/ i = Len(wire) + 1
    BY <1>2
  <2> QED
    BY <1>1, <1>2, <2>1, <2>2, RangeEquality
<1> QED
  BY <1>2, <1>3 DEF S

-------------------------------------------------------------------------------
(* The queue *)

(* Appending and sorting puts an early message where it belongs.           *)
LEMMA QueueSorted ==
  ASSUME Types, QueueIsEarly, NEW s \in Seqs, s > expected, s \notin Range(queue)
  PROVE  /\ QueueWith(s) \in Seq(Seqs) /\ Sorted(QueueWith(s))
         /\ \A i \in 1 .. Len(QueueWith(s)) : QueueWith(s)[i] > expected
         /\ \A r \in Range(QueueWith(s)) : r = s \/ r \in Range(queue)
<1> DEFINE n == Len(queue)
           q == QueueWith(s)
           In(i) == i \in 1 .. n /\ queue[i] < s
<1>1. /\ n \in Nat /\ DOMAIN queue = 1 .. n
      /\ \A i \in 1 .. n : queue[i] \in Seqs /\ queue[i] \in Range(queue)
  BY LenProperties, ElementOfSeq, RangeEquality DEF Types
<1>2. \A i \in 1 .. n : queue[i] \in Int /\ queue[i] # s
  BY <1>1 DEF Seqs
<1>3. s \in Int /\ expected \in Int
  BY DEF Seqs, Types
<1>4. q = [i \in 1 .. n + 1 |-> IF In(i) THEN queue[i]
                                ELSE IF i = 1 \/ In(i - 1) THEN s ELSE queue[i - 1]]
  BY <1>1 DEF QueueWith
<1>5. ASSUME NEW i \in 1 .. n + 1
      PROVE  \/ q[i] = s /\ (i > 1 => queue[i - 1] < s) /\ (i <= n => queue[i] > s)
             \/ i <= n /\ q[i] = queue[i] /\ queue[i] < s
             \/ i > 1 /\ q[i] = queue[i - 1] /\ queue[i - 1] > s
  BY <1>1, <1>2, <1>3, <1>4
<1> HIDE DEF q, In
<1>6. \A i \in 1 .. n + 1 : q[i] \in Seqs /\ (q[i] = s \/ q[i] \in Range(queue))
                            /\ q[i] > expected
  BY <1>1, <1>5 DEF QueueIsEarly
<1>7. q \in Seq(Seqs) /\ Len(q) = n + 1
  <2>1. q \in [1 .. n + 1 -> Seqs]
    <3>1. q = [i \in 1 .. n + 1 |-> q[i]]
      BY <1>4
    <3> QED
      BY <1>6, <3>1
  <2>2. q \in UNION {[1 .. m -> Seqs] : m \in Nat}
    BY <1>1, <2>1
  <2>3. q \in Seq(Seqs)
    BY <2>2, SeqDef, Zenon
  <2> QED
    BY <1>1, <2>1, <2>3, LenProperties
<1>8. Sorted(q)
  <2> SUFFICES ASSUME NEW i \in 1 .. n + 1, NEW j \in 1 .. n + 1, i < j
               PROVE  q[i] < q[j]
    BY <1>7 DEF Sorted
  <2>1. \A k, l \in 1 .. n : k < l => queue[k] < queue[l]
    BY DEF QueueIsEarly, Sorted
  <2>2. j > 1 /\ i <= n /\ i \in 1 .. n /\ j - 1 \in 1 .. n /\ i <= j - 1
    BY <1>1
  <2>3. i < j - 1 => queue[i] < queue[j - 1]
    BY <2>1, <2>2
  <2>4. i > 1 => queue[i - 1] < queue[i] /\ queue[i - 1] < queue[j - 1]
    BY <1>1, <2>1, <2>2
  <2>5. j <= n => queue[i] < queue[j] /\ queue[j - 1] < queue[j]
    BY <1>1, <2>1, <2>2
  <2>6. CASE i <= n /\ q[i] = queue[i] /\ queue[i] < s
    BY <1>1, <1>2, <1>3, <1>5, <2>2, <2>3, <2>5, <2>6
  <2>7. CASE q[i] = s /\ queue[i] > s
    <3>1. queue[j - 1] > s /\ (j <= n => queue[j] > s)
      BY <1>1, <1>2, <1>3, <2>2, <2>3, <2>5, <2>7
    <3> QED
      BY <1>2, <1>3, <1>5, <2>2, <2>7, <3>1
  <2>8. CASE i > 1 /\ q[i] = queue[i - 1] /\ queue[i - 1] > s
    <3>1. i - 1 \in 1 .. n
      BY <1>1, <2>8
    <3>2. queue[j - 1] > s /\ (j <= n => queue[j] > s)
      BY <1>2, <1>3, <2>2, <2>4, <2>5, <2>8, <3>1
    <3> QED
      BY <1>2, <1>3, <1>5, <2>2, <2>4, <2>8, <3>1, <3>2
  <2> QED
    BY <1>5, <2>2, <2>6, <2>7, <2>8
<1>9. \A r \in Range(q) : r = s \/ r \in Range(queue)
  BY <1>6, <1>7, RangeEquality
<1> QED
  BY <1>1, <1>6, <1>7, <1>8, <1>9 DEF q

(* The run that is drained is what comes behind the expected number, and   *)
(* the rest of the queue is early again.                                   *)
LEMMA RunDrained ==
  ASSUME Types, QueueIsEarly, NEW k \in 0 .. Len(queue), IsRun(k, expected + 1)
  PROVE  LET run  == SubSeq(queue, 1, k)
             rest == SubSeq(queue, k + 1, Len(queue))
         IN  /\ run \in Seq(Seqs) /\ Len(run) = k
             /\ Range(run) = expected + 1 .. expected + k
             /\ Range(run) \subseteq Range(queue)
             /\ rest \in Seq(Seqs) /\ Sorted(rest)
             /\ \A i \in 1 .. Len(rest) : rest[i] > expected + 1 + k
             /\ Range(rest) \subseteq Range(queue)
<1> DEFINE run  == SubSeq(queue, 1, k)
           rest == SubSeq(queue, k + 1, Len(queue))
           n    == Len(queue)
<1>1. n \in Nat /\ queue \in Seq(Seqs) /\ \A i \in 1 .. n : queue[i] \in Int
  <2>1. queue \in Seq(Seqs)
    BY DEF Types
  <2>2. n \in Nat /\ \A i \in 1 .. n : queue[i] \in Seqs
    BY <2>1, LenProperties, ElementOfSeq
  <2> QED
    BY <2>1, <2>2 DEF Seqs
<1>2. expected \in Int
  BY DEF Types
<1>3. /\ run \in Seq(Seqs) /\ Len(run) = k
      /\ \A i \in 1 .. k : run[i] = queue[i]
      /\ Range(run) \subseteq Range(queue)
  <2>1. 1 \in 1 .. n + 1 /\ k \in 0 .. n
    BY <1>1
  <2>2. /\ run \in Seq(Seqs) /\ Len(run) = IF 1 <= k THEN k - 1 + 1 ELSE 0
        /\ \A i \in 1 .. k - 1 + 1 : run[i] = queue[1 + i - 1]
        /\ Range(run) \subseteq Range(queue)
    BY <1>1, <2>1, PartOf
  <2> HIDE DEF run
  <2> QED
    BY <1>1, <2>2
<1>4. /\ rest \in Seq(Seqs) /\ Len(rest) = n - k
      /\ \A i \in 1 .. n - k : rest[i] = queue[k + i]
      /\ Range(rest) \subseteq Range(queue)
  <2>1. k + 1 \in 1 .. n + 1 /\ n \in 0 .. n
    BY <1>1
  <2>2. /\ rest \in Seq(Seqs) /\ Len(rest) = IF k + 1 <= n THEN n - (k + 1) + 1 ELSE 0
        /\ \A i \in 1 .. n - (k + 1) + 1 : rest[i] = queue[k + 1 + i - 1]
        /\ Range(rest) \subseteq Range(queue)
    BY <1>1, <2>1, PartOf
  <2> HIDE DEF rest
  <2> QED
    BY <1>1, <2>2
<1> HIDE DEF run, rest
<1>5. \A i \in 1 .. k : run[i] = expected + i
  BY <1>1, <1>2, <1>3 DEF IsRun
<1>6. Range(run) = expected + 1 .. expected + k
  <2>1. Range(run) = {run[i] : i \in 1 .. k}
    BY <1>3, RangeEquality
  <2>2. \A x \in Range(run) : x \in expected + 1 .. expected + k
    BY <1>1, <1>2, <1>5, <2>1
  <2>3. ASSUME NEW x \in expected + 1 .. expected + k
        PROVE  x \in Range(run)
    <3>1. x - expected \in 1 .. k /\ run[x - expected] = x
      BY <1>1, <1>2, <1>5
    <3> QED
      BY <2>1, <3>1
  <2> QED
    BY <2>2, <2>3
<1>7. ASSUME NEW i \in 1 .. n - k
      PROVE  rest[i] > expected + 1 + k
  <2>1. k + 1 \in 1 .. n /\ k + i \in 1 .. n
    BY <1>1
  <2>2. queue[k + 1] > expected + k
    <3>1. CASE k = 0
      BY <1>1, <1>2, <2>1, <3>1 DEF QueueIsEarly
    <3>2. CASE k > 0
      <4>1. k \in 1 .. n /\ queue[k] = expected + k
        BY <1>1, <1>2, <3>2 DEF IsRun
      <4>2. queue[k] < queue[k + 1]
        BY <1>1, <2>1, <4>1 DEF QueueIsEarly, Sorted
      <4> QED
        BY <1>1, <1>2, <2>1, <4>1, <4>2
    <3> QED
      BY <3>1, <3>2
  <2>3. queue[k + 1] # expected + 1 + k
    BY <1>1, <2>1 DEF IsRun
  <2>4. i > 1 => queue[k + 1] < queue[k + i]
    BY <1>1, <2>1 DEF QueueIsEarly, Sorted
  <2> QED
    BY <1>1, <1>2, <1>4, <2>1, <2>2, <2>3, <2>4
<1>8. Sorted(rest)
  <2> SUFFICES ASSUME NEW i \in 1 .. n - k, NEW j \in 1 .. n - k, i < j
               PROVE  rest[i] < rest[j]
    BY <1>4 DEF Sorted
  <2>1. k + i \in 1 .. n /\ k + j \in 1 .. n /\ k + i < k + j
    BY <1>1
  <2> QED
    BY <1>4, <2>1 DEF QueueIsEarly, Sorted
<1> QED
  BY <1>3, <1>4, <1>6, <1>7, <1>8 DEF run, rest

-------------------------------------------------------------------------------
(* Dispatching *)

(* Messages of different numbers are different messages: each is counted   *)
(* once.                                                                   *)
LEMMA CountedOnce ==
  ASSUME Types, GivenIds, NEW seqs \in Seq(Seqs), Dispatch(seqs)
  PROVE  /\ dispatched' \in Seq(Seqs)
         /\ Len(dispatched') = Len(dispatched) + Len(seqs)
         /\ Range(dispatched') = Range(dispatched) \union Range(seqs)
         /\ acted' \in [Ids -> Nat]
         /\ \A id \in Ids :
              \/ acted'[id] = acted[id]
              \/ acted'[id] = acted[id] + 1 /\ \E s \in Range(seqs) : id \in given[s]
         /\ \A id \in Ids : (\A s \in Range(seqs) : id \notin given[s]) => acted'[id] = acted[id]
<1> DEFINE of(id) == {s \in Range(seqs) : id \in given[s]}
<1>1. /\ dispatched' \in Seq(Seqs)
      /\ Len(dispatched') = Len(dispatched) + Len(seqs)
      /\ Range(dispatched') = Range(dispatched) \union Range(seqs)
  BY ConcatProperties, RangeConcatenation DEF Types, Dispatch
<1>2. acted' = [id \in Ids |-> acted[id] + Cardinality(of(id))]
  BY DEF Dispatch
<1>3. Range(seqs) \subseteq Seqs
  BY RangeOfSeq
<1>4. ASSUME NEW id \in Ids
      PROVE  \/ of(id) = {} /\ Cardinality(of(id)) = 0
             \/ of(id) # {} /\ Cardinality(of(id)) = 1
  <2>1. CASE of(id) = {}
    BY <2>1, FS_EmptySet, Zenon
  <2>2. CASE of(id) # {}
    <3>1. PICK s \in of(id) : TRUE
      BY <2>2
    <3>2. of(id) = {s}
      BY <1>3, <3>1 DEF GivenIds
    <3>3. Cardinality({s}) = 1
      BY FS_Singleton
    <3> QED
      BY <2>2, <3>2, <3>3
  <2> QED
    BY <2>1, <2>2
<1> HIDE DEF of
<1>5. \A id \in Ids : acted'[id] = acted[id] + Cardinality(of(id)) /\ acted[id] \in Nat
  BY <1>2 DEF Types
<1>6. \A id \in Ids : acted'[id] \in Nat
  BY <1>4, <1>5
<1>7. acted' \in [Ids -> Nat]
  BY <1>2, <1>6
<1>8. ASSUME NEW id \in Ids
      PROVE  /\ \/ acted'[id] = acted[id]
                \/ acted'[id] = acted[id] + 1 /\ \E s \in Range(seqs) : id \in given[s]
             /\ (\A s \in Range(seqs) : id \notin given[s]) => acted'[id] = acted[id]
  <2>1. of(id) = {} => acted'[id] = acted[id]
    BY <1>4, <1>5
  <2>2. of(id) # {} => acted'[id] = acted[id] + 1
    BY <1>4, <1>5
  <2>3. of(id) = {s \in Range(seqs) : id \in given[s]}
    BY DEF of
  <2> QED
    BY <2>1, <2>2, <2>3
<1> QED
  BY <1>1, <1>7, <1>8

(* Dispatching new messages that have been seen.                           *)
LEMMA DispatchedOnce ==
  ASSUME Inv, NEW seqs \in Seq(Seqs), Dispatch(seqs), seen \subseteq seen',
         \A s \in Range(seqs) : \A id \in given[s] : id \in seen' /\ acted[id] = 0
  PROVE  ActedOnce' /\ ActedWasSeen'
<1> SUFFICES ASSUME NEW id \in Ids
             PROVE  acted'[id] <= 1 /\ (acted'[id] > 0 => id \in seen')
  BY DEF ActedOnce, ActedWasSeen
<1>1. acted[id] \in Nat /\ acted[id] <= 1 /\ (acted[id] > 0 => id \in seen)
  BY DEF Inv, Types, ActedOnce, ActedWasSeen
<1>2. CASE acted'[id] = acted[id]
  BY <1>1, <1>2
<1>3. CASE acted'[id] = acted[id] + 1 /\ \E s \in Range(seqs) : id \in given[s]
  BY <1>3
<1> QED
  BY <1>2, <1>3, CountedOnce DEF Inv

-------------------------------------------------------------------------------
(* The steps *)

(* Messages are read or lost, and no more than that.                       *)
LEMMA WireShrinks ==
  ASSUME Inv, wire' \in Seq(Seqs \union {Invalid}), Range(wire') \subseteq Range(wire),
         UNCHANGED <<conn, given, expected, queue, dispatched, acted>>,
         seen \subseteq seen', seen' \subseteq Ids,
         link # "none", link' \in {"up", "closing"}
  PROVE  Inv'
<1> USE DEF Inv
<1>1. Types'
  BY DEF Types
<1>2. QueueIsEarly' /\ GivenIds'
  BY DEF QueueIsEarly, GivenIds
<1>3. Numbered'
  BY DEF Numbered
<1>4. ActedWasSeen' /\ ActedOnce' /\ NoGap'
  BY DEF ActedWasSeen, ActedOnce, NoGap
<1>5. QueuedIsNew'
  BY DEF QueuedIsNew
<1> QED
  BY <1>1, <1>2, <1>3, <1>4, <1>5

(* A connection begins afresh, but for the messages seen.                  *)
LEMMA ConnectStep == ASSUME BridgeAssumption, Inv, Connect PROVE Inv'
<1> USE DEF Inv, Connect, Reset
<1>1. <<>> \in Seq(Seqs) /\ Range(<<>>) = {} /\ Len(<<>>) = 0
  BY Nothing
<1>2. Types'
  BY <1>1, BridgeAssumption DEF Types
<1>3. QueueIsEarly' /\ QueuedIsNew'
  BY <1>1 DEF QueueIsEarly, QueuedIsNew, Sorted
<1>4. GivenIds'
  BY DEF GivenIds
<1>5. Numbered'
  BY <1>1 DEF Numbered, Types
<1>6. ActedWasSeen' /\ ActedOnce'
  BY DEF ActedWasSeen, ActedOnce
<1>7. NoGap'
  BY <1>1 DEF NoGap
<1> QED
  BY <1>2, <1>3, <1>4, <1>5, <1>6, <1>7

(* A message gets a number that nothing in the queue has.                  *)
LEMMA NumberStep ==
  ASSUME Inv, NEW s \in Seqs, NEW id \in Ids, Put(s), Number(s, id),
         given[s] = {} \/ s < expected,
         id[1] <= conn, id[1] = conn => id[2] = s,
         \A r \in Seqs : r # s => id \notin given[r]
  PROVE  Inv'
<1> USE DEF Inv, Number, ingress, history
<1>1. \A r \in Seqs : r # s => given'[r] = given[r]
  BY DEF Types
<1>2. given'[s] = {id}
  BY DEF Types
<1>3. /\ wire' \in Seq(Seqs \union {Invalid})
      /\ \A r \in Range(wire') : r = s \/ r \in Range(wire)
  BY Sent
<1>4. Types'
  BY <1>3 DEF Types, Put
<1>5. s \notin Range(queue)
  <2>1. Range(queue) = {queue[i] : i \in 1 .. Len(queue)}
    BY RangeEquality DEF Types
  <2>2. \A r \in Range(queue) : r > expected /\ given[r] # {}
    BY <2>1 DEF QueueIsEarly, Numbered
  <2>3. s \in Int /\ expected \in Int
    BY DEF Seqs, Types
  <2> QED
    BY <2>2, <2>3
<1>6. Range(queue) \subseteq Seqs /\ Range(wire) \subseteq Seqs \union {Invalid}
  BY RangeOfSeq DEF Types
<1>7. QueueIsEarly' /\ ActedWasSeen' /\ ActedOnce' /\ NoGap'
  BY DEF QueueIsEarly, ActedWasSeen, ActedOnce, NoGap
<1>8. GivenIds'
  <2>1. \A r \in Seqs : \A x \in given'[r] :
          x[1] <= conn /\ (x[1] = conn => x[2] = r) /\ \A other \in given'[r] : other = x
    BY <1>1, <1>2 DEF GivenIds
  <2>2. \A r, t \in Seqs : \A x \in given'[r] : x \in given'[t] => r = t
    BY <1>1, <1>2 DEF GivenIds
  <2> QED
    BY <2>1, <2>2 DEF GivenIds
<1>9. Numbered'
  BY <1>1, <1>2, <1>3, <1>5, <1>6 DEF Numbered
<1>10. QueuedIsNew'
  BY <1>1, <1>5, <1>6 DEF QueuedIsNew
<1> QED
  BY <1>4, <1>7, <1>8, <1>9, <1>10

(* The client sends.                                                       *)
LEMMA ClientStep ==
  ASSUME Inv,
         \/ SendInvalid
         \/ \E s \in Seqs : Send(s) \/ SendAgain(s) \/ \E id \in Ids : SendOldAgain(s, id)
  PROVE  Inv'
<1> USE DEF Inv
<1>1. ASSUME NEW s \in Seqs, Send(s)
      PROVE  Inv'
  <2>1. conn \in 1 .. MaxConns
    BY <1>1 DEF Send, Put, Types
  <2>2. <<conn, s>> \in Ids
    BY <2>1 DEF Ids
  <2>3. \A r \in Seqs : r # s => <<conn, s>> \notin given[r]
    BY DEF GivenIds
  <2> QED
    BY <1>1, <2>1, <2>2, <2>3, NumberStep DEF Send
<1>2. ASSUME NEW s \in Seqs, NEW id \in Ids, SendOldAgain(s, id)
      PROVE  Inv'
  <2>1. id[1] \in Int /\ conn \in Int
    BY DEF Ids, Types
  <2> QED
    BY <1>2, <2>1, NumberStep DEF SendOldAgain
<1>3. ASSUME NEW m \in Seqs \union {Invalid}, Put(m), m # Invalid => given[m] # {},
             UNCHANGED <<validation_mode, link, client, ingress, seen, history>>
      PROVE  Inv'
  <2> USE <1>3 DEF client, ingress, history
  <2>1. /\ wire' \in Seq(Seqs \union {Invalid})
        /\ \A s \in Range(wire') : s = m \/ s \in Range(wire)
    BY Sent
  <2>2. Types'
    BY <2>1 DEF Types, Put
  <2>3. QueueIsEarly' /\ GivenIds' /\ QueuedIsNew'
    BY DEF QueueIsEarly, GivenIds, QueuedIsNew
  <2>4. Numbered'
    BY <2>1 DEF Numbered
  <2>5. ActedWasSeen' /\ ActedOnce' /\ NoGap'
    BY DEF ActedWasSeen, ActedOnce, NoGap
  <2> QED
    BY <2>2, <2>3, <2>4, <2>5
<1>4. CASE SendInvalid
  BY <1>3, <1>4 DEF SendInvalid
<1>5. ASSUME NEW s \in Seqs, SendAgain(s)
      PROVE  Inv'
  BY <1>3, <1>5 DEF SendAgain
<1> QED
  BY <1>1, <1>2, <1>4, <1>5

(* The handler reads or discards a message, or the connection ends.        *)
LEMMA ReadStep ==
  ASSUME Inv, Break \/ Refuse \/ Discard \/ CleanUp
  PROVE  Inv'
<1> USE DEF Inv, client, ingress, history
<1>1. CASE Break
  <2>1. PICK n \in 0 .. Len(wire) : wire' = SubSeq(wire, 1, n)
    BY <1>1 DEF Break
  <2>2. wire \in Seq(Seqs \union {Invalid}) /\ Len(wire) \in Nat
    BY LenProperties DEF Types
  <2>3. wire' \in Seq(Seqs \union {Invalid}) /\ Range(wire') \subseteq Range(wire)
    BY <2>1, <2>2, PartOf
  <2> QED
    BY <1>1, <2>3, WireShrinks DEF Break, Types
<1>2. CASE Refuse \/ Discard
  <2>1. wire # <<>> /\ link # "none"
    BY <1>2 DEF Refuse, Discard, Types
  <2>2. wire' \in Seq(Seqs \union {Invalid}) /\ Range(wire') \subseteq Range(wire)
    BY <1>2, <2>1, Remaining DEF Refuse, Discard, Close, ReadOn
  <2> QED
    BY <1>2, <2>1, <2>2, WireShrinks DEF Refuse, Discard, Close, ReadOn, Types
<1>3. CASE CleanUp
  <2> USE <1>3 DEF CleanUp, Reset
  <2>1. <<>> \in Seq(Seqs) /\ Range(<<>>) = {} /\ Len(<<>>) = 0
    BY Nothing
  <2>2. Types'
    BY <2>1 DEF Types
  <2>3. QueueIsEarly' /\ QueuedIsNew' /\ Numbered'
    BY <2>1 DEF QueueIsEarly, QueuedIsNew, Numbered, Sorted
  <2>4. GivenIds' /\ ActedWasSeen' /\ ActedOnce' /\ NoGap'
    BY DEF GivenIds, ActedWasSeen, ActedOnce, NoGap
  <2> QED
    BY <2>2, <2>3, <2>4
<1> QED
  BY <1>1, <1>2, <1>3

(* A message that is received is new, and was under way.                   *)
LEMMA Received ==
  ASSUME Inv, Receive
  PROVE  /\ Head(wire) \in Seqs /\ wire # <<>> /\ link # "none"
         /\ given[Head(wire)] # {}
         /\ \A id \in given[Head(wire)] : id \in Ids /\ id \in seen' /\ acted[id] = 0
         /\ seen \subseteq seen' /\ seen' \subseteq Ids
         /\ UNCHANGED <<conn, given>>
         /\ Head(wire) \notin Range(queue)
<1> USE DEF Inv
<1> DEFINE s == Head(wire)
<1>1. wire # <<>> /\ s # Invalid /\ link # "none"
  BY DEF Receive, Types
<1>2. s \in Seqs /\ s \in Range(wire)
  BY <1>1, Remaining
<1>3. given[s] # {} /\ given[s] \subseteq Ids
  BY <1>1, <1>2 DEF Numbered, Types
<1>4. \A id \in given[s] : id \notin seen
  BY <1>2, <1>3 DEF Receive, Known, GivenIds
<1>5. \A id \in given[s] : acted[id] = 0
  BY <1>3, <1>4 DEF ActedWasSeen, Types
<1>6. seen' = seen \union given[s] /\ UNCHANGED <<conn, given>>
  BY DEF Receive, client
<1>7. s \notin Range(queue)
  BY <1>3, <1>4 DEF QueuedIsNew
<1> HIDE DEF s
<1>8. seen \subseteq seen' /\ seen' \subseteq Ids
  BY <1>3, <1>6 DEF Types
<1>9. \A id \in given[s] : id \in Ids /\ id \in seen' /\ acted[id] = 0
  BY <1>3, <1>5, <1>6
<1> QED
  BY <1>1, <1>2, <1>3, <1>6, <1>7, <1>8, <1>9 DEF s

(* The expected message, and those it was waited for, are dispatched.      *)
LEMMA TakeStep ==
  ASSUME Inv, Receive, Take(Head(wire))
  PROVE  Inv'
<1> USE DEF Inv
<1> DEFINE s == Head(wire)
<1>1. PICK k \in 0 .. Len(queue) :
        /\ IsRun(k, s + 1)
        /\ expected' = s + 1 + k
        /\ queue' = SubSeq(queue, k + 1, Len(queue))
        /\ Dispatch(SubSeq(queue, 1, k) \o <<s>>)
  BY DEF Take
<1> DEFINE run == SubSeq(queue, 1, k)
           seqs == run \o <<s>>
<1>2. s = expected /\ s \in Seqs /\ wire # <<>> /\ link # "none" /\ ReadOn
  BY Received DEF Take
<1>3. k \in Nat /\ expected \in Nat
  BY LenProperties DEF Types
<1>4. /\ run \in Seq(Seqs) /\ Len(run) = k
      /\ Range(run) = expected + 1 .. expected + k /\ Range(run) \subseteq Range(queue)
      /\ queue' \in Seq(Seqs) /\ Sorted(queue')
      /\ \A i \in 1 .. Len(queue') : queue'[i] > expected'
      /\ Range(queue') \subseteq Range(queue)
  BY <1>1, <1>2, RunDrained
<1>5. <<s>> \in Seq(Seqs) /\ Len(<<s>>) = 1 /\ Range(<<s>>) = {s}
  BY <1>2, OneMessage
<1> HIDE DEF run, s
<1>6. /\ seqs \in Seq(Seqs) /\ Len(seqs) = k + 1
      /\ Range(seqs) = Range(run) \union {s}
  <2>1. run \in Seq(Seqs) /\ <<s>> \in Seq(Seqs)
    BY <1>4, <1>5
  <2>2. /\ run \o <<s>> \in Seq(Seqs) /\ Len(run \o <<s>>) = Len(run) + Len(<<s>>)
        /\ Range(run \o <<s>>) = Range(run) \union Range(<<s>>)
    BY ONLY <2>1, AfterTheRun, Zenon
  <2>3. /\ seqs \in Seq(Seqs) /\ Len(seqs) = Len(run) + Len(<<s>>)
        /\ Range(seqs) = Range(run) \union Range(<<s>>)
    BY <2>2
  <2> HIDE DEF seqs
  <2> QED
    BY <1>4, <1>5, <2>3
<1>7. Dispatch(seqs)
  BY <1>1 DEF run
<1> HIDE DEF seqs
<1>8. /\ dispatched' \in Seq(Seqs)
      /\ Len(dispatched') = Len(dispatched) + k + 1
      /\ Range(dispatched') = Range(dispatched) \union Range(seqs)
      /\ acted' \in [Ids -> Nat]
      /\ \A id \in Ids : (\A r \in Range(seqs) : id \notin given[r]) => acted'[id] = acted[id]
  <2>1. Len(dispatched) \in Nat
    BY LenProperties DEF Types
  <2> QED
    BY <1>3, <1>6, <1>7, <2>1, CountedOnce
<1>9. /\ given[s] # {} /\ \A id \in given[s] : id \in Ids /\ id \in seen' /\ acted[id] = 0
      /\ seen \subseteq seen' /\ seen' \subseteq Ids /\ UNCHANGED <<conn, given>>
  BY Received DEF s
<1>10. ActedOnce' /\ ActedWasSeen'
  <2>1. \A r \in Range(seqs) : \A id \in given[r] : id \in seen' /\ acted[id] = 0
    BY <1>4, <1>6, <1>9 DEF QueuedIsNew
  <2> QED
    BY <1>6, <1>7, <1>9, <2>1, DispatchedOnce
<1>11. /\ wire' \in Seq(Seqs \union {Invalid}) /\ Range(wire') \subseteq Range(wire)
       /\ link' = link
  BY <1>2, Remaining DEF ReadOn
<1>12. Types'
  BY <1>1, <1>2, <1>3, <1>4, <1>8, <1>9, <1>11 DEF Types
<1>13. QueueIsEarly'
  BY <1>4 DEF QueueIsEarly
<1>14. GivenIds'
  BY <1>9 DEF GivenIds
<1>15. Numbered'
  BY <1>4, <1>9, <1>11 DEF Numbered
<1>16. QueuedIsNew'
  <2> SUFFICES ASSUME NEW r \in Range(queue'), NEW id \in given[r]
               PROVE  id \in seen' /\ acted'[id] = 0
    BY <1>9 DEF QueuedIsNew
  <2>1. r \in Range(queue) /\ r \in Seqs /\ Range(seqs) \subseteq Seqs
    BY <1>4, <1>6, RangeOfSeq
  <2>2. id \in seen /\ acted[id] = 0 /\ id \in Ids
    BY <2>1 DEF QueuedIsNew, Types
  <2>3. r \notin Range(seqs)
    <3>1. r > expected'
      <4>1. Range(queue') = {queue'[i] : i \in 1 .. Len(queue')}
        BY <1>4, RangeEquality
      <4> QED
        BY <1>4, <4>1
    <3>2. r \in Int
      BY <2>1 DEF Seqs
    <3> QED
      BY <1>1, <1>2, <1>3, <1>4, <1>6, <3>1, <3>2
  <2>4. \A t \in Range(seqs) : id \notin given[t]
    BY <2>1, <2>3 DEF GivenIds
  <2> QED
    BY <1>8, <1>9, <2>2, <2>4
<1>17. NoGap'
  <2>1. Range(dispatched) = 0 .. expected - 1 /\ Len(dispatched) = expected
    BY <1>2 DEF NoGap
  <2>2. Len(dispatched') = expected'
    BY <1>1, <1>2, <1>3, <1>8, <2>1
  <2>3. Range(dispatched') = 0 .. expected' - 1
    BY <1>1, <1>2, <1>3, <1>4, <1>6, <1>8, <2>1
  <2> QED
    BY <2>2, <2>3 DEF NoGap
<1> QED
  BY <1>10, <1>12, <1>13, <1>14, <1>15, <1>16, <1>17

(* A dispatch that raises ends the connection; what comes before it counts. *)
LEMMA FailStep ==
  ASSUME Inv, Receive, Fail(Head(wire))
  PROVE  Inv'
<1> USE DEF Inv
<1>1. PICK j \in 0 .. Len(queue) : Dispatch(SubSeq(queue, 1, j))
  <2>1. Len(queue) \in Nat
    BY LenProperties DEF Types
  <2>2. PICK k \in 0 .. Len(queue) : \E j \in 0 .. k : Dispatch(SubSeq(queue, 1, j))
    BY DEF Fail
  <2> QED
    BY <2>1, <2>2
<1> DEFINE seqs == SubSeq(queue, 1, j)
<1>2. seqs \in Seq(Seqs) /\ Range(seqs) \subseteq Range(queue)
  <2>1. queue \in Seq(Seqs) /\ Len(queue) \in Nat
    BY LenProperties DEF Types
  <2>2. 1 \in 1 .. Len(queue) + 1 /\ j \in 0 .. Len(queue)
    BY <2>1
  <2> QED
    BY <2>1, <2>2, PartOf
<1> HIDE DEF seqs
<1>3. Dispatch(seqs)
  BY <1>1 DEF seqs
<1>4. dispatched' \in Seq(Seqs) /\ acted' \in [Ids -> Nat]
  BY <1>2, <1>3, CountedOnce
<1>5. seen \subseteq seen' /\ seen' \subseteq Ids /\ UNCHANGED <<conn, given>>
  BY Received
<1>6. link' = "none" /\ wire' = <<>> /\ expected' = 0 /\ queue' = <<>>
  BY DEF Fail, Reset
<1>7. ActedOnce' /\ ActedWasSeen'
  <2>1. \A r \in Range(seqs) : \A id \in given[r] : id \in seen' /\ acted[id] = 0
    BY <1>2, <1>5 DEF QueuedIsNew
  <2> QED
    BY <1>2, <1>3, <1>5, <2>1, DispatchedOnce
<1>8. <<>> \in Seq(Seqs) /\ Len(<<>>) = 0 /\ Range(<<>>) = {}
      /\ <<>> \in Seq(Seqs \union {Invalid})
  BY Nothing
<1>9. Types'
  BY <1>4, <1>5, <1>6, <1>8 DEF Types
<1>10. QueueIsEarly' /\ QueuedIsNew' /\ Numbered' /\ NoGap'
  BY <1>6, <1>8 DEF QueueIsEarly, QueuedIsNew, Numbered, Sorted, NoGap
<1>11. GivenIds'
  BY <1>5 DEF GivenIds
<1> QED
  BY <1>7, <1>9, <1>10, <1>11

(* A message that comes too early waits.                                   *)
LEMMA QueueStep ==
  ASSUME Inv, Receive, Queue(Head(wire))
  PROVE  Inv'
<1> USE DEF Inv
<1> DEFINE s == Head(wire)
<1>1. /\ s # expected /\ ~TooLate(s) /\ queue' = QueueWith(s)
      /\ ReadOn /\ UNCHANGED <<expected, dispatched, acted>>
  BY DEF Queue, history
<1>2. /\ s \in Seqs /\ wire # <<>> /\ link # "none"
      /\ given[s] # {} /\ s \notin Range(queue)
      /\ \A id \in given[s] : id \in seen' /\ acted[id] = 0
      /\ seen \subseteq seen' /\ seen' \subseteq Ids /\ UNCHANGED <<conn, given>>
  BY Received
<1>3. s > expected
  BY <1>1, <1>2 DEF TooLate, Seqs, Types
<1>4. /\ queue' \in Seq(Seqs) /\ Sorted(queue')
      /\ \A i \in 1 .. Len(queue') : queue'[i] > expected
      /\ \A r \in Range(queue') : r = s \/ r \in Range(queue)
  BY <1>1, <1>2, <1>3, QueueSorted
<1>5. /\ wire' \in Seq(Seqs \union {Invalid}) /\ Range(wire') \subseteq Range(wire)
      /\ link' = link
  BY <1>1, <1>2, Remaining DEF ReadOn
<1> HIDE DEF s
<1>6. Types'
  BY <1>1, <1>2, <1>4, <1>5 DEF Types
<1>7. QueueIsEarly'
  BY <1>1, <1>4 DEF QueueIsEarly
<1>8. GivenIds' /\ ActedOnce' /\ NoGap' /\ ActedWasSeen'
  BY <1>1, <1>2, <1>5 DEF GivenIds, ActedOnce, NoGap, ActedWasSeen
<1>9. Numbered'
  BY <1>2, <1>4, <1>5 DEF Numbered
<1>10. QueuedIsNew'
  BY <1>1, <1>2, <1>4 DEF QueuedIsNew
<1> QED
  BY <1>6, <1>7, <1>8, <1>9, <1>10

(* A message that is late, or too many, is dropped.                        *)
LEMMA DropStep ==
  ASSUME Inv, Receive, Skip(Head(wire)) \/ GiveUp(Head(wire))
  PROVE  Inv'
<1>1. /\ wire # <<>> /\ link # "none"
      /\ seen \subseteq seen' /\ seen' \subseteq Ids /\ UNCHANGED <<conn, given>>
  BY Received
<1>2. wire' \in Seq(Seqs \union {Invalid}) /\ Range(wire') \subseteq Range(wire)
  BY <1>1, Remaining DEF Inv, Skip, GiveUp, Close, ReadOn
<1> QED
  BY <1>1, <1>2, WireShrinks DEF Inv, Types, Skip, GiveUp, Close, ReadOn, ingress, history

-------------------------------------------------------------------------------
(* The theorems *)

(* Nobody is connected at first.                                           *)
LEMMA InitInv == Init => Inv
<1> SUFFICES ASSUME Init PROVE Inv
  OBVIOUS
<1>1. <<>> \in Seq(Seqs) /\ Len(<<>>) = 0 /\ Range(<<>>) = {}
      /\ <<>> \in Seq(Seqs \union {Invalid})
  BY Nothing
<1>2. Types
  BY <1>1, BridgeAssumption DEF Init, Types
<1>3. QueueIsEarly /\ QueuedIsNew /\ Numbered
  BY <1>1 DEF Init, QueueIsEarly, Sorted, QueuedIsNew, Numbered
<1>4. GivenIds /\ ActedWasSeen /\ ActedOnce /\ NoGap
  BY DEF Init, GivenIds, ActedWasSeen, ActedOnce, NoGap
<1> QED
  BY <1>2, <1>3, <1>4 DEF Inv

(* No step leaves the invariant.                                           *)
LEMMA NextInv == Inv /\ [Next]_vars => Inv'
<1> SUFFICES ASSUME Inv, [Next]_vars PROVE Inv'
  OBVIOUS
<1>1. CASE UNCHANGED vars
  BY <1>1 DEF vars, client, ingress, history, Inv, Types, QueueIsEarly, GivenIds, Numbered,
              ActedWasSeen, QueuedIsNew, ActedOnce, NoGap
<1>2. CASE Connect
  BY <1>2, ConnectStep, BridgeAssumption
<1>3. CASE \/ SendInvalid
           \/ \E s \in Seqs : Send(s) \/ SendAgain(s) \/ \E id \in Ids : SendOldAgain(s, id)
  BY <1>3, ClientStep
<1>4. CASE Receive
  BY <1>4, TakeStep, FailStep, QueueStep, DropStep DEF Receive
<1>5. CASE Break \/ Refuse \/ Discard \/ CleanUp
  BY <1>5, ReadStep
<1> QED
  BY <1>1, <1>2, <1>3, <1>4, <1>5 DEF Next, Handle

(* The invariant of the bridge holds in every state.                       *)
LEMMA InvHolds == Spec => []Inv
BY InitInv, NextInv, PTL DEF Spec

(* What was dispatched on a connection is every number below the expected  *)
(* one, each once: in whatever order they came, nothing is passed over.    *)
THEOREM NothingPassedOver == Spec => []NoGap
<1>1. Inv => NoGap
  BY DEF Inv
<1> QED
  BY <1>1, InvHolds, PTL

(* No message is dispatched twice, however often and over however many     *)
(* connections the client sends it.                                        *)
THEOREM NothingDoneTwice == Spec => []ActedOnce
<1>1. Inv => ActedOnce
  BY DEF Inv
<1> QED
  BY <1>1, InvHolds, PTL

-------------------------------------------------------------------------------
(***************************************************************************)
(* The causal scheduler                                                    *)
(***************************************************************************)

(* What a cycle took into its batch was ready then, and stays ready,       *)
(* whatever other cycles, submissions and the deadlock resolution do in    *)
(* between, for completed only grows; a cycle under way has a batch.       *)
BatchesAreReady ==
  /\ \A r \in Runners : \A i \in DOMAIN batch[r] : Parents[batch[r][i]] \subseteq completed
  /\ \A r \in Runners : pc[r] = "cycle" => batch[r] # <<>>

BatchTypes ==
  /\ batch \in [Runners -> Seq(Events)]
  /\ pc \in [Runners -> {"idle", "loop", "cycle", "stuck", "returned"}]
  /\ fate \in [Events -> {"none", "queued", "dispatched", "failed", "dropped"}]

Causal == BatchTypes /\ BatchesAreReady /\ CausalOrder

(* A new batch is made of ready events of the queue.                       *)
LEMMA NewBatch ==
  ASSUME NEW order \in [1 .. Cardinality(ReadyEvents) -> ReadyEvents],
         InOrder(order), ReadyEvents # {}
  PROVE  /\ order \in Seq(Events) /\ order # <<>>
         /\ \A i \in DOMAIN order : Parents[order[i]] \subseteq completed
<1>1. Cardinality(ReadyEvents) \in Nat /\ ReadyEvents \subseteq Events
  <2>1. ReadyEvents \subseteq Events
    BY DEF ReadyEvents
  <2>2. IsFiniteSet(ReadyEvents)
    BY <2>1, FS_Subset, CausalAssumption
  <2> QED
    BY <2>1, <2>2, FS_CardinalityType
<1>2. \A i \in DOMAIN order : Parents[order[i]] \subseteq completed
  BY DEF ReadyEvents, IsReady
<1>3. order # <<>>
  <2>1. PICK e : e \in ToSet(order)
    BY DEF InOrder
  <2>2. PICK i \in DOMAIN order : order[i] = e
    BY <2>1 DEF ToSet
  <2>3. i \in 1 .. Cardinality(ReadyEvents)
    BY <2>2
  <2>4. 1 \in DOMAIN order
    BY <1>1, <2>3
  <2>5. DOMAIN <<>> = {}
    OBVIOUS
  <2> QED
    BY <2>4, <2>5
<1>4. order \in Seq(Events)
  BY <1>1
<1> QED
  BY <1>2, <1>3, <1>4

(* No cycle is under way and nothing is handed out.                        *)
LEMMA CausalStarts == CausalInit => Causal
  BY DEF CausalInit, Causal, BatchTypes, BatchesAreReady, CausalOrder

(* What is left of a batch of more than one event.                         *)
LEMMA LongTail ==
  ASSUME NEW b \in Seq(Events), Len(b) > 1
  PROVE  Tail(b) # <<>>
<1> DEFINE n == Len(b)
           m == Len(Tail(b))
<1>1. n \in Nat /\ n > 1 /\ m = n - 1
  OBVIOUS
<1>2. m # 0
  <2> HIDE DEF n, m
  <2> QED
    BY <1>1
<1>3. Tail(b) = <<>> => m = 0
  <2> SUFFICES ASSUME Tail(b) = <<>> PROVE Len(Tail(b)) = 0
    OBVIOUS
  <2>1. Len(<<>>) = 0
    OBVIOUS
  <2> QED
    BY <2>1, Zenon
<1> QED
  BY <1>2, <1>3, Zenon

(* A dispatch takes the head of a batch, whose parents are completed.      *)
LEMMA CausalDispatch ==
  ASSUME Causal, NEW r \in Runners, NEW ok \in BOOLEAN, DispatchEvent(r, ok)
  PROVE  Causal'
<1> DEFINE e == Head(batch[r])
<1>1. /\ batch[r] \in Seq(Events) /\ batch[r] # <<>>
      /\ e \in Events /\ e = batch[r][1] /\ 1 \in DOMAIN batch[r]
  BY DEF Causal, BatchTypes, BatchesAreReady, DispatchEvent
<1>2. completed \subseteq completed'
  BY DEF DispatchEvent
<1>3. BatchTypes'
  <2>1. Tail(batch[r]) \in Seq(Events)
    BY <1>1
  <2> QED
    BY <1>1, <2>1 DEF Causal, BatchTypes, DispatchEvent
<1>4. BatchesAreReady'
  <2>1. ASSUME NEW s \in Runners, NEW i \in DOMAIN batch'[s]
        PROVE  Parents[batch'[s][i]] \subseteq completed'
    <3>1. CASE s = r
      <4>1. batch'[s] = Tail(batch[r]) /\ i + 1 \in DOMAIN batch[r]
            /\ batch'[s][i] = batch[r][i + 1]
        BY <1>1, <2>1, <3>1 DEF Causal, BatchTypes, DispatchEvent
      <4> QED
        BY <1>2, <4>1 DEF Causal, BatchesAreReady
    <3>2. CASE s # r
      BY <1>2, <2>1, <3>2 DEF Causal, BatchTypes, BatchesAreReady, DispatchEvent
    <3> QED
      BY <3>1, <3>2
  <2>2. ASSUME NEW s \in Runners, pc'[s] = "cycle"
        PROVE  batch'[s] # <<>>
    <3>1. CASE s = r /\ Len(batch[r]) > 1
      <4>1. batch'[s] = Tail(batch[r])
        BY <3>1 DEF Causal, BatchTypes, DispatchEvent
      <4>2. Tail(batch[r]) # <<>>
        BY <1>1, <3>1, LongTail
      <4> QED
        BY <3>1, <4>1, <4>2
    <3>2. CASE s = r /\ ~(Len(batch[r]) > 1)
      BY <2>2, <3>2 DEF Causal, BatchTypes, DispatchEvent
    <3>3. CASE s # r
      BY <2>2, <3>3 DEF Causal, BatchTypes, BatchesAreReady, DispatchEvent
    <3> QED
      BY <3>1, <3>2, <3>3
  <2> QED
    BY <2>1, <2>2 DEF BatchesAreReady
<1>5. CausalOrder'
  <2> SUFFICES ASSUME NEW f \in Events, fate'[f] \in {"dispatched", "failed"}
               PROVE  Parents[f] \subseteq completed'
    BY DEF CausalOrder
  <2>1. CASE f = e
    BY <1>1, <1>2, <2>1 DEF Causal, BatchesAreReady
  <2>2. CASE f # e
    BY <1>2, <2>2 DEF Causal, BatchTypes, CausalOrder, DispatchEvent
  <2> QED
    BY <2>1, <2>2
<1> QED
  BY <1>3, <1>4, <1>5 DEF Causal

(* A cycle that starts takes a new batch or leaves all batches alone.      *)
LEMMA CausalStart ==
  ASSUME Causal, NEW r \in Runners, StartCycle(r)
  PROVE  Causal'
<1>1. CASE pc' = [pc EXCEPT ![r] = "cycle"] /\ pending # <<>> /\ ReadyEvents # {}
  <2>1. PICK order \in [1 .. Cardinality(ReadyEvents) -> ReadyEvents] :
          InOrder(order) /\ batch' = [batch EXCEPT ![r] = order]
    BY <1>1 DEF StartCycle
  <2>2. /\ order \in Seq(Events) /\ order # <<>>
        /\ \A i \in DOMAIN order : Parents[order[i]] \subseteq completed
    BY <1>1, <2>1, NewBatch
  <2>3. UNCHANGED <<completed, fate>>
    BY DEF StartCycle
  <2> QED
    BY <1>1, <2>1, <2>2, <2>3 DEF Causal, BatchTypes, BatchesAreReady, CausalOrder
<1>2. CASE pending = <<>> \/ ReadyEvents = {}
  <2>1. /\ \E s \in {"returned", "stuck", "loop"} : pc' = [pc EXCEPT ![r] = s]
        /\ UNCHANGED <<batch, completed, fate>>
    BY <1>2 DEF StartCycle
  <2> QED
    BY <2>1 DEF Causal, BatchTypes, BatchesAreReady, CausalOrder
<1> QED
  BY <1>1, <1>2 DEF StartCycle

(* Every step keeps the invariant.                                         *)
LEMMA CausalStep == Causal /\ [CausalNext]_causalVars => Causal'
<1> SUFFICES ASSUME Causal, [CausalNext]_causalVars PROVE Causal'
  OBVIOUS
<1>1. CASE \E e \in Events : Submit(e)
  BY <1>1 DEF Submit, runners, Causal, BatchTypes, BatchesAreReady, CausalOrder
<1>2. CASE \E r \in Runners : Run(r)
  BY <1>2 DEF Run, Causal, BatchTypes, BatchesAreReady, CausalOrder
<1>3. CASE \E r \in Runners : StartCycle(r)
  BY <1>3, CausalStart
<1>4. CASE \E r \in Runners : \E ok \in BOOLEAN : DispatchEvent(r, ok)
  BY <1>4, CausalDispatch
<1>5. CASE \E r \in Runners : DropAll(r)
  BY <1>5 DEF DropAll, Dropped, Causal, BatchTypes, BatchesAreReady, CausalOrder
<1>6. CASE UNCHANGED causalVars
  BY <1>6 DEF causalVars, runners, Causal, BatchTypes, BatchesAreReady, CausalOrder
<1> QED
  BY <1>1, <1>2, <1>3, <1>4, <1>5, <1>6 DEF CausalNext, Progress

(* run_cycle() hands an event out only behind its causal parents, for      *)
(* every graph and however the cycles of several runners overlap.          *)
THEOREM ParentsFirst == CausalSpec => []CausalOrder
<1>1. Causal => CausalOrder
  BY DEF Causal
<1> QED
  BY CausalStarts, CausalStep, <1>1, PTL DEF CausalSpec
===============================================================================
