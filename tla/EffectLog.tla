------------------------------ MODULE EffectLog ------------------------------
(***************************************************************************)
(* The write-ahead log of effects (core/transaction/effect_wal.py) and     *)
(* what the reconciler makes of it at the next start                       *)
(* (core/transaction/effect_reconciler.py).                                *)
(*                                                                         *)
(* A hash of the chain is represented by the global_seq of the record it   *)
(* was computed with, which is part of the record; 0 stands for genesis.   *)
(* The file object buffers: what a failed flush() has not written is       *)
(* written, before anything else, by the next.  A crash loses the buffer   *)
(* and keeps the file.  Callers log the states of a transaction in the     *)
(* order of WalState and go on only when append() has returned.            *)
(***************************************************************************)
EXTENDS Integers, FiniteSets, SequencesExt

CONSTANTS Txs,
          Reversible,   \* Reversible[t]: the is_reversible of its PREPARE
          MaxRecords,   \* bound: appends
          MaxFailures,  \* bound: appends that fail
          MaxStops      \* bound: how often the process ends

ASSUME LogAssumption ==
  /\ Reversible \in [Txs -> BOOLEAN]
  /\ MaxRecords \in Nat /\ MaxFailures \in Nat /\ MaxStops \in Nat

VARIABLES file,         \* the records in the file
          torn,         \* the file ends in a part of a record
          buffer,       \* records, or the rest of one, not yet in the file
          log,          \* open, refused (WalCorruptionError), or down
          global_seq, last_hash,
          transactions, \* transactions[t]: the states indexed for t (their order is not
                        \* looked at)
          at,           \* at[t]: how many steps of Order t has logged
          ran,          \* history: the effects the operating system has seen
          acked,        \* history: the records whose append() returned
          failures, stops

disk == <<file, torn, buffer>>
wal == <<log, global_seq, last_hash, transactions>>
bounds == <<failures, stops>>
logVars == <<disk, wal, at, ran, acked, bounds>>

WalState == {"PREPARE", "LEASE_BIND", "DISPATCH", "EXECUTE_BEGIN",
             "EXECUTE_END", "VERIFY", "COMMIT", "ROLLBACK"}

Order == <<"PREPARE", "LEASE_BIND", "DISPATCH", "EXECUTE_BEGIN", "EXECUTE_END",
           "VERIFY", "COMMIT">>

Records == [tx : Txs, state : WalState, seq : 1 .. MaxRecords, prev : 0 .. MaxRecords]

LogInit ==
  /\ file = <<>> /\ torn = FALSE /\ buffer = <<>>
  /\ log = "open" /\ global_seq = 0 /\ last_hash = 0
  /\ transactions = [t \in Txs |-> {}]
  /\ at = [t \in Txs |-> 0]
  /\ ran = {} /\ acked = {}
  /\ failures = 0 /\ stops = 0

LogTypeOK ==
  /\ Range(file) \subseteq Records /\ Range(buffer) \subseteq Records
  /\ torn \in BOOLEAN
  /\ log \in {"open", "refused", "down"}
  /\ global_seq \in 0 .. MaxRecords /\ last_hash \in 0 .. global_seq
  /\ transactions \in [Txs -> SUBSET WalState]
  /\ at \in [Txs -> 0 .. Len(Order)]
  /\ ran \subseteq Txs /\ acked \subseteq Records
  /\ failures \in 0 .. MaxFailures /\ stops \in 0 .. MaxStops

-------------------------------------------------------------------------------
(* append() *)

Record(t, s) == [tx |-> t, state |-> s, seq |-> global_seq + 1, prev |-> last_hash]

Logged(t, s) == s \in transactions[t]

Over(t) == Logged(t, "COMMIT") \/ Logged(t, "ROLLBACK")

(* The transaction goes on, or is rolled back.  One that was under way     *)
(* when the process ended is left to the reconciler.                       *)
Wants(t, s) ==
  /\ log = "open" /\ global_seq < MaxRecords /\ ~Over(t)
  /\ transactions[t] = {Order[n] : n \in 1 .. at[t]}
  /\ \/ at[t] < Len(Order) /\ s = Order[at[t] + 1]
     \/ at[t] > 0 /\ s = "ROLLBACK"

(* Mutant of NextHash: the chain does not move on.                         *)
HashKept(r) == last_hash

NextHash(r) == r.seq

AppendRecord(t, s) ==
  /\ Wants(t, s)
  /\ LET r == Record(t, s)
     IN  /\ file' = file \o Append(buffer, r)
         /\ last_hash' = NextHash(r)
         /\ acked' = acked \union {r}
  /\ torn' = FALSE /\ buffer' = <<>>
  /\ global_seq' = global_seq + 1
  /\ transactions' = [transactions EXCEPT ![t] = @ \union {s}]
  /\ at' = [at EXCEPT ![t] = IF s = "ROLLBACK" THEN @ ELSE @ + 1]
  /\ UNCHANGED <<log, ran, bounds>>

(* A flush that ends early: the first k of the pending records are in the  *)
(* file, and perhaps a part of the next.                                   *)
Flushed(pending, k, part) ==
  /\ part => k < Len(pending)
  /\ k = 0 /\ torn => part
  /\ file' = file \o SubSeq(pending, 1, k)
  /\ torn' = part

(* flush() or fsync() raises.  The number is used up, the chain and the    *)
(* index are as before; the caller gives the transaction up.  (A record    *)
(* that cannot be serialised uses up the number too, and is left out.)     *)
AppendFails(t, s) ==
  /\ Wants(t, s) /\ failures < MaxFailures
  /\ failures' = failures + 1
  /\ global_seq' = global_seq + 1
  /\ at' = [at EXCEPT ![t] = Len(Order)]
  /\ LET pending == Append(buffer, Record(t, s))
     IN  \E k \in 0 .. Len(pending), part \in BOOLEAN :
           /\ Flushed(pending, k, part)
           /\ buffer' = SubSeq(pending, k + 1, Len(pending))
  /\ UNCHANGED <<log, last_hash, transactions, ran, acked, stops>>

(* The worker acts once DISPATCH is logged; it reports when it has begun.  *)
RunEffect(t) ==
  /\ log = "open" /\ Logged(t, "DISPATCH") /\ ~Logged(t, "EXECUTE_END") /\ ~Over(t)
  /\ ran' = ran \union {t}
  /\ UNCHANGED <<disk, wal, at, acked, bounds>>

-------------------------------------------------------------------------------
(* The end of the process, and the next start *)

Down ==
  /\ log' = "down"
  /\ stops' = stops + 1
  /\ UNCHANGED <<global_seq, last_hash, transactions, at, ran, acked, failures>>

(* close() writes what is in the buffer.                                   *)
CloseLog ==
  /\ log = "open" /\ stops < MaxStops
  /\ file' = file \o buffer /\ buffer' = <<>> /\ torn' = FALSE
  /\ Down

Crash ==
  /\ log = "open" /\ stops < MaxStops
  /\ buffer' = <<>>
  /\ UNCHANGED <<file, torn>>
  /\ Down

(* The process ends within append().                                       *)
CrashInAppend(t, s) ==
  /\ Wants(t, s) /\ stops < MaxStops
  /\ LET pending == Append(buffer, Record(t, s))
     IN  \E k \in 0 .. Len(pending), part \in BOOLEAN : Flushed(pending, k, part)
  /\ buffer' = <<>>
  /\ Down

Recoverable ==
  /\ ~torn
  /\ \A i \in DOMAIN file : file[i].prev = (IF i = 1 THEN 0 ELSE file[i - 1].seq)

(* Mutant of StatesOf: the last record of the file is not read.            *)
StatesButLast(t) == {file[i].state : i \in {i \in 1 .. Len(file) - 1 : file[i].tx = t}}

StatesOf(t) == {file[i].state : i \in {i \in DOMAIN file : file[i].tx = t}}

(* _recover() builds the index and the chain anew.                         *)
Open ==
  /\ log = "down"
  /\ IF Recoverable
       THEN /\ log' = "open"
            /\ global_seq' = IF file = <<>> THEN 0 ELSE Last(file).seq
            /\ last_hash' = IF file = <<>> THEN 0 ELSE Last(file).seq
            /\ transactions' = [t \in Txs |-> StatesOf(t)]
            /\ at' = [t \in Txs |-> IF StatesOf(t) = {} THEN 0 ELSE Len(Order)]
       ELSE /\ log' = "refused"
            /\ UNCHANGED <<global_seq, last_hash, transactions, at>>
  /\ UNCHANGED <<disk, ran, acked, bounds>>

-------------------------------------------------------------------------------
(* analyze(): the verdict on a transaction that is not over.               *)

(* Mutant of Verdict: a dispatched effect is taken for one not begun.      *)
VerdictNotBegun(t) ==
  CASE Logged(t, "EXECUTE_BEGIN") -> "UNKNOWN_EFFECT_STATE"
    [] OTHER                      -> "SAFE_REPLAY"

Verdict(t) ==
  LET first ==
        IF Logged(t, "VERIFY") THEN "SAFE_REPLAY"
        ELSE IF Logged(t, "EXECUTE_END") THEN "EXTERNAL_STATE_DIVERGED"
        ELSE IF Logged(t, "EXECUTE_BEGIN") THEN "UNKNOWN_EFFECT_STATE"
        ELSE IF Logged(t, "DISPATCH") THEN "DUPLICATE_RISK"
        ELSE "SAFE_REPLAY"
  IN  CASE Reversible[t] -> first
        [] first \in {"UNKNOWN_EFFECT_STATE", "DUPLICATE_RISK"} -> "MANUAL_INTERVENTION"
        [] first = "EXTERNAL_STATE_DIVERGED" -> "COMPENSATION_REQUIRED"
        [] OTHER -> first

LogNext ==
  \/ \E t \in Txs, s \in WalState :
       AppendRecord(t, s) \/ AppendFails(t, s) \/ CrashInAppend(t, s)
  \/ \E t \in Txs : RunEffect(t)
  \/ CloseLog \/ Crash \/ Open

LogSpec == LogInit /\ [][LogNext]_logVars

-------------------------------------------------------------------------------
(* Properties *)

InFile(r) == \E i \in DOMAIN file : file[i] = r

(* A record whose append() returned is in the file whatever happens after, *)
(* and the log, whenever it is open, has it in its index ("fsync           *)
(* barriers").                                                             *)
AcknowledgedIsKept ==
  \A r \in acked : InFile(r) /\ (log = "open" => Logged(r.tx, r.state))

(* A log is refused only for a cause: a crash within an append, or an      *)
(* append that failed.                                                     *)
RefusedForCause ==
  log = "refused" => torn \/ failures > 0

(* An effect that the operating system may have seen and nobody has        *)
(* verified is never taken for safe to replay, and an irreversible one is  *)
(* always escalated.  Reconciliation reads the log alone, of which the     *)
(* record after the effect may be missing.                                 *)
SeenEffectIsEscalated ==
  \A t \in ran :
    log = "open" /\ ~Over(t) /\ ~Logged(t, "VERIFY") =>
      /\ Verdict(t) # "SAFE_REPLAY"
      /\ ~Reversible[t] => Verdict(t) \in {"MANUAL_INTERVENTION", "COMPENSATION_REQUIRED"}

(* "Durable Write-Ahead Log for side effects": what was acknowledged can   *)
(* be read back after the process has closed the log in order.  It cannot, *)
(* once an append has failed and another has succeeded: both name the same *)
(* predecessor.                                                            *)
AcknowledgedIsReadable ==
  log = "refused" /\ acked # {} => torn
===============================================================================
