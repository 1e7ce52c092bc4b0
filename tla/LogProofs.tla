------------------------------- MODULE LogProofs -------------------------------
(***************************************************************************)
(* The two hash chains on disk, which share no state.  The log of effects  *)
(* keeps what it has acknowledged, is refused only for a cause, and lets   *)
(* no effect that may have been seen be replayed: for any transactions and *)
(* any number of appends, failures and crashes.  The event journal, read   *)
(* with SALVAGE, with STRICT or by a recovery boot, shows no gap: for any  *)
(* events, any length of a segment and any number of failed commits,       *)
(* crashes and recoveries.                                                 *)
(***************************************************************************)
EXTENDS EffectLog, EventJournal, FiniteSetTheorems, SequenceTheorems, WellFoundedInduction,
        TLAPS

-------------------------------------------------------------------------------
(***************************************************************************)
(* The log of effects                                                      *)
(***************************************************************************)

LogTypes ==
  /\ file \in Seq(Records) /\ buffer \in Seq(Records)
  /\ torn \in BOOLEAN
  /\ log \in {"open", "refused", "down"}
  /\ global_seq \in 0 .. MaxRecords /\ last_hash \in 0 .. MaxRecords
  /\ transactions \in [Txs -> SUBSET WalState]
  /\ at \in [Txs -> 0 .. Len(Order)]
  /\ ran \subseteq Txs /\ acked \subseteq Records
  /\ failures \in 0 .. MaxFailures

(* The hash the chain of the file ends in.                                 *)
EndHash == IF file = <<>> THEN 0 ELSE Last(file).seq

Chained == \A i \in DOMAIN file : file[i].prev = (IF i = 1 THEN 0 ELSE file[i - 1].seq)

(* As long as no append has failed nothing waits in the buffer, and file   *)
(* and chain agree.                                                        *)
UnbrokenChain ==
  failures = 0 =>
    /\ buffer = <<>> /\ Chained
    /\ log = "open" => ~torn /\ last_hash = EndHash

OnFile(t, s) == \E i \in DOMAIN file : file[i].tx = t /\ file[i].state = s

(* What is in the index of an open log is in the file.                     *)
IndexIsOnFile ==
  log = "open" => \A t \in Txs : \A s \in transactions[t] : OnFile(t, s)

(* No effect without DISPATCH in the file, and in the index when the log   *)
(* is open.                                                                *)
SeenWasDispatched ==
  \A t \in ran : OnFile(t, "DISPATCH") /\ (log = "open" => Logged(t, "DISPATCH"))

LogInv ==
  /\ LogTypes /\ UnbrokenChain /\ RefusedForCause
  /\ IndexIsOnFile /\ AcknowledgedIsKept /\ SeenWasDispatched

-------------------------------------------------------------------------------
(* The file *)

(* The record append() writes is well-typed.                               *)
LEMMA RecordType ==
  ASSUME LogAssumption, LogTypes, NEW t \in Txs, NEW s \in WalState, Wants(t, s)
  PROVE  Record(t, s) \in Records
BY DEF LogTypes, Record, Records, Wants, LogAssumption

(* What is pending during a flush, and any beginning and end of it, is a   *)
(* sequence of records.                                                    *)
LEMMA PendingType ==
  ASSUME LogTypes, NEW r \in Records
  PROVE  /\ Append(buffer, r) \in Seq(Records)
         /\ Len(Append(buffer, r)) = Len(buffer) + 1
         /\ \A k \in 0 .. Len(Append(buffer, r)) :
              /\ SubSeq(Append(buffer, r), 1, k) \in Seq(Records)
              /\ SubSeq(Append(buffer, r), k + 1, Len(Append(buffer, r))) \in Seq(Records)
<1> DEFINE pending == Append(buffer, r)
<1>1. pending \in Seq(Records) /\ Len(pending) = Len(buffer) + 1
  BY AppendProperties DEF LogTypes
<1>2. ASSUME NEW k \in 0 .. Len(pending)
      PROVE  /\ SubSeq(pending, 1, k) \in Seq(Records)
             /\ SubSeq(pending, k + 1, Len(pending)) \in Seq(Records)
  <2>1. \A i \in 1 .. k : i \in 1 .. Len(pending)
    BY <1>1, LenProperties
  <2>2. \A i \in k + 1 .. Len(pending) : i \in 1 .. Len(pending)
    BY <1>1, LenProperties
  <2> QED
    BY <1>1, <2>1, <2>2, SubSeqProperties, ElementOfSeq, LenProperties
<1> QED
  BY <1>1, <1>2

(* A single pending record is in the file or is not.                       *)
LEMMA OneRecord ==
  ASSUME NEW r \in Records
  PROVE  /\ Len(<<r>>) = 1
         /\ SubSeq(<<r>>, 1, 1) = <<r>> /\ SubSeq(<<r>>, 1, 0) = <<>>
<1>1. <<r>> \in Seq(Records) /\ Len(<<r>>) = 1
  OBVIOUS
<1>2. SubSeq(<<r>>, 1, 1) = <<r>>
  BY <1>1, SubSeqFull
<1>3. SubSeq(<<r>>, 1, 0) = <<>>
  BY <1>1, SubSeqEmpty
<1> QED
  BY <1>1, <1>2, <1>3

(* A file that is extended keeps its records.                              *)
LEMMA ExtendedKeeps ==
  ASSUME NEW e \in Seq(Records), file \in Seq(Records), file' = file \o e
  PROVE  /\ file' \in Seq(Records)
         /\ \A r : InFile(r) => InFile(r)'
         /\ \A t, s : OnFile(t, s) => OnFile(t, s)'
<1>1. file' \in Seq(Records) /\ \A i \in DOMAIN file : i \in DOMAIN file' /\ file'[i] = file[i]
  BY ConcatProperties, LenProperties
<1> QED
  BY <1>1 DEF InFile, OnFile

(* A record written behind all that is pending is in the file.             *)
LEMMA LastOnFile ==
  ASSUME LogTypes, NEW r \in Records, file' = file \o Append(buffer, r)
  PROVE  InFile(r)' /\ OnFile(r.tx, r.state)'
<1> DEFINE pending == Append(buffer, r)
<1>1. pending \in Seq(Records) /\ Len(pending) = Len(buffer) + 1 /\ pending[Len(pending)] = r
  BY AppendProperties DEF LogTypes
<1>2. Len(file) \in Nat /\ Len(buffer) \in Nat
  BY LenProperties DEF LogTypes
<1>3. Len(file) + Len(pending) \in DOMAIN file' /\ file'[Len(file) + Len(pending)] = r
  BY <1>1, <1>2, ConcatProperties DEF LogTypes
<1> QED
  BY <1>3 DEF InFile, OnFile

(* Every step extends the file, if at all.                                 *)
LEMMA FileGrows ==
  ASSUME LogAssumption, LogTypes, [LogNext]_logVars
  PROVE  \E e \in Seq(Records) : file' = file \o e
<1>1. CASE UNCHANGED file
  <2>1. <<>> \in Seq(Records) /\ file = file \o <<>>
    BY EmptySeq, ConcatEmptySeq DEF LogTypes
  <2> QED
    BY <1>1, <2>1
<1>2. ASSUME NEW t \in Txs, NEW s \in WalState,
             AppendRecord(t, s) \/ AppendFails(t, s) \/ CrashInAppend(t, s)
      PROVE  \E e \in Seq(Records) : file' = file \o e
  <2>1. Wants(t, s)
    BY <1>2 DEF AppendRecord, AppendFails, CrashInAppend
  <2>2. Record(t, s) \in Records
    BY <2>1, RecordType
  <2> QED
    BY <1>2, <2>2, PendingType DEF AppendRecord, AppendFails, CrashInAppend, Flushed
<1>3. CASE CloseLog
  BY <1>3 DEF CloseLog, LogTypes
<1>4. CASE (\E t \in Txs : RunEffect(t)) \/ Crash \/ Open \/ UNCHANGED logVars
  BY <1>1, <1>4 DEF RunEffect, Crash, Open, logVars, disk
<1> QED
  BY <1>2, <1>3, <1>4 DEF LogNext

(* Every variable keeps its type.                                          *)
LEMMA NextTypes ==
  ASSUME LogAssumption, LogTypes, [LogNext]_logVars
  PROVE  LogTypes'
<1>1. file' \in Seq(Records)
  <2>1. PICK e \in Seq(Records) : file' = file \o e
    BY FileGrows
  <2> QED
    BY <2>1, ConcatProperties DEF LogTypes
<1>2. ASSUME NEW t \in Txs, NEW s \in WalState,
             AppendRecord(t, s) \/ AppendFails(t, s) \/ CrashInAppend(t, s)
      PROVE  LogTypes'
  <2>1. Wants(t, s)
    BY <1>2 DEF AppendRecord, AppendFails, CrashInAppend
  <2>2. Record(t, s) \in Records
    BY <2>1, RecordType
  <2>3. global_seq + 1 \in 1 .. MaxRecords /\ Len(Order) = 7
    BY <2>1 DEF LogTypes, Wants, LogAssumption, Order
  <2>4. buffer' \in Seq(Records) /\ torn' \in BOOLEAN
    BY <1>2, <2>2, PendingType, EmptySeq
       DEF AppendRecord, AppendFails, CrashInAppend, Flushed
  <2>5. CASE AppendRecord(t, s)
    <3>1. last_hash' \in 0 .. MaxRecords /\ acked' \subseteq Records
      BY <2>2, <2>3, <2>5 DEF LogTypes, AppendRecord, NextHash, Record
    <3>2. at' \in [Txs -> 0 .. Len(Order)]
      BY <2>1, <2>3, <2>5 DEF LogTypes, AppendRecord, Wants
    <3> QED
      BY <1>1, <2>3, <2>4, <2>5, <3>1, <3>2 DEF LogTypes, AppendRecord, bounds
  <2>6. CASE AppendFails(t, s)
    BY <1>1, <2>3, <2>4, <2>6 DEF LogTypes, AppendFails, LogAssumption
  <2>7. CASE CrashInAppend(t, s)
    BY <1>1, <2>4, <2>7 DEF LogTypes, CrashInAppend, Down
  <2> QED
    BY <1>2, <2>5, <2>6, <2>7
<1>3. ASSUME NEW t \in Txs, RunEffect(t)
      PROVE  LogTypes'
  BY <1>1, <1>3 DEF LogTypes, RunEffect, disk, wal, bounds
<1>4. CASE CloseLog \/ Crash
  BY <1>1, <1>4, EmptySeq DEF LogTypes, CloseLog, Crash, Down
<1>5. CASE Open
  <2>1. \A r \in Records : r.seq \in 0 .. MaxRecords /\ r.state \in WalState
    BY LogAssumption DEF Records
  <2>2. file # <<>> => Last(file) \in Records
    BY ElementOfSeq, LenProperties, EmptySeq DEF LogTypes, Last
  <2>3. \A t \in Txs : StatesOf(t) \subseteq WalState
    BY <2>1, ElementOfSeq, LenProperties DEF LogTypes, StatesOf
  <2>4. global_seq' \in 0 .. MaxRecords /\ last_hash' \in 0 .. MaxRecords
    BY <1>5, <2>1, <2>2, LogAssumption DEF Open, LogTypes
  <2>5. transactions' \in [Txs -> SUBSET WalState] /\ at' \in [Txs -> 0 .. Len(Order)]
    <3>1. Len(Order) = 7
      BY DEF Order
    <3> QED
      BY <1>5, <2>3, <3>1 DEF Open, LogTypes
  <2> QED
    BY <1>1, <1>5, <2>4, <2>5 DEF LogTypes, Open, disk, bounds
<1>6. CASE UNCHANGED logVars
  BY <1>6 DEF LogTypes, logVars, disk, wal, bounds
<1> QED
  BY <1>2, <1>3, <1>4, <1>5, <1>6 DEF LogNext

-------------------------------------------------------------------------------
(* The chain *)

(* Behind a record that names the end of the chain as its predecessor the  *)
(* chain goes on.                                                          *)
LEMMA ChainGoesOn ==
  ASSUME LogTypes, Chained, NEW r \in Records, r.prev = EndHash,
         file' = Append(file, r)
  PROVE  Chained' /\ EndHash' = r.seq
<1>1. /\ file' \in Seq(Records) /\ Len(file') = Len(file) + 1
      /\ \A i \in 1 .. Len(file) : file'[i] = file[i]
      /\ file'[Len(file) + 1] = r
  BY AppendProperties DEF LogTypes
<1>2. Len(file) \in Nat /\ DOMAIN file = 1 .. Len(file) /\ DOMAIN file' = 1 .. Len(file) + 1
  BY <1>1, LenProperties DEF LogTypes
<1>3. file' # <<>> /\ (file = <<>> <=> Len(file) = 0)
  BY <1>1, <1>2, EmptySeq DEF LogTypes
<1>4. Chained'
  <2>1. ASSUME NEW i \in 1 .. Len(file)
        PROVE  file'[i].prev = (IF i = 1 THEN 0 ELSE file'[i - 1].seq)
    BY <1>1, <1>2 DEF Chained
  <2>2. r.prev = (IF Len(file) + 1 = 1 THEN 0 ELSE file'[Len(file)].seq)
    <3>1. CASE Len(file) = 0
      BY <1>3, <3>1 DEF EndHash
    <3>2. CASE Len(file) # 0
      <4>1. Len(file) \in 1 .. Len(file) /\ Len(file) + 1 # 1
        BY <1>2, <3>2
      <4>2. file'[Len(file)] = Last(file)
        BY <1>1, <4>1 DEF Last
      <4> QED
        BY <1>3, <3>2, <4>1, <4>2 DEF EndHash
    <3> QED
      BY <3>1, <3>2
  <2>3. ASSUME NEW i \in 1 .. Len(file) + 1
        PROVE  file'[i].prev = (IF i = 1 THEN 0 ELSE file'[i - 1].seq)
    <3>1. CASE i = Len(file) + 1
      <4>1. i - 1 = Len(file)
        BY <1>2, <3>1
      <4> QED
        BY <1>1, <2>2, <3>1, <4>1
    <3>2. CASE i \in 1 .. Len(file)
      BY <2>1, <3>2
    <3> QED
      BY <1>2, <3>1, <3>2
  <2> QED
    BY <1>2, <2>3 DEF Chained
<1> QED
  BY <1>1, <1>3, <1>4 DEF EndHash, Last

(* Unless an append fails, the file stays a chain, the log knows where it  *)
(* ends, and only a torn file is refused.                                  *)
LEMMA NextChain ==
  ASSUME LogAssumption, LogInv, [LogNext]_logVars
  PROVE  UnbrokenChain' /\ RefusedForCause'
<1> USE DEF LogInv
<1>1. SUFFICES ASSUME failures' = 0
               PROVE  /\ buffer' = <<>> /\ Chained'
                      /\ log' = "open" => ~torn' /\ last_hash' = EndHash'
                      /\ log' = "refused" => torn'
  <2>1. failures' \in Nat
    BY NextTypes, LogAssumption DEF LogTypes
  <2> QED
    BY <1>1, <2>1 DEF UnbrokenChain, RefusedForCause
<1>2. failures = 0
  <2>1. failures' = failures \/ failures' = failures + 1
    BY DEF LogNext, logVars, bounds, AppendRecord, AppendFails, CrashInAppend, RunEffect, CloseLog,
           Crash, Open, Down
  <2> QED
    BY <1>1, <2>1, LogAssumption DEF LogTypes
<1>3. buffer = <<>> /\ Chained /\ (log = "open" => ~torn /\ last_hash = EndHash)
      /\ (log = "refused" => torn)
  BY <1>2 DEF UnbrokenChain, RefusedForCause
<1>4. ASSUME NEW t \in Txs, NEW s \in WalState, Wants(t, s)
      PROVE  /\ Append(buffer, Record(t, s)) = <<Record(t, s)>>
             /\ Record(t, s) \in Records /\ Record(t, s).prev = EndHash
             /\ file \o <<Record(t, s)>> = Append(file, Record(t, s))
  <2>1. Record(t, s) \in Records
    BY <1>4, RecordType
  <2>2. Record(t, s).prev = EndHash
    BY <1>3, <1>4 DEF Wants, Record
  <2>3. Append(<<>>, Record(t, s)) = <<Record(t, s)>>
    OBVIOUS
  <2>4. file \o <<Record(t, s)>> = Append(file, Record(t, s))
    BY <2>1, AppendIsConcat DEF LogTypes
  <2> QED
    BY <1>3, <2>1, <2>2, <2>3, <2>4
<1>5. ASSUME NEW t \in Txs, NEW s \in WalState, AppendRecord(t, s)
      PROVE  buffer' = <<>> /\ Chained' /\ log' = "open" /\ ~torn' /\ last_hash' = EndHash'
  <2>1. Wants(t, s)
    BY <1>5 DEF AppendRecord
  <2>2. Chained' /\ EndHash' = Record(t, s).seq
    BY <1>3, <1>4, <1>5, <2>1, ChainGoesOn DEF AppendRecord
  <2> QED
    BY <1>5, <2>1, <2>2 DEF AppendRecord, NextHash, Wants
<1>6. ASSUME NEW t \in Txs, NEW s \in WalState, CrashInAppend(t, s)
      PROVE  buffer' = <<>> /\ Chained' /\ log' = "down"
  <2>1. Wants(t, s)
    BY <1>6 DEF CrashInAppend
  <2> DEFINE one == <<Record(t, s)>>
  <2>2. PICK k \in 0 .. Len(one), part \in BOOLEAN : Flushed(one, k, part)
    BY <1>4, <1>6, <2>1 DEF CrashInAppend
  <2>3. Len(one) = 1 /\ SubSeq(one, 1, 1) = one /\ SubSeq(one, 1, 0) = <<>>
    BY <1>4, <2>1, OneRecord
  <2>4. CASE k = 1
    BY <1>3, <1>4, <1>6, <2>1, <2>2, <2>3, <2>4, ChainGoesOn DEF CrashInAppend, Flushed, Down
  <2>5. CASE k = 0
    <3>1. file' = file
      BY <2>2, <2>3, <2>5, ConcatEmptySeq DEF Flushed, LogTypes
    <3> QED
      BY <1>3, <1>6, <3>1 DEF CrashInAppend, Down, Chained
  <2> QED
    BY <2>2, <2>3, <2>4, <2>5
<1>7. ASSUME NEW t \in Txs, NEW s \in WalState, AppendFails(t, s)
      PROVE  FALSE
  BY <1>1, <1>2, <1>7 DEF AppendFails
<1>8. CASE CloseLog \/ Crash
  <2>1. file' = file
    BY <1>3, <1>8, ConcatEmptySeq DEF CloseLog, Crash, LogTypes
  <2> QED
    BY <1>3, <1>8, <2>1 DEF CloseLog, Crash, Down, Chained
<1>9. CASE Open
  BY <1>3, <1>9 DEF Open, disk, Recoverable, Chained, EndHash
<1>10. CASE (\E t \in Txs : RunEffect(t)) \/ UNCHANGED logVars
  BY <1>3, <1>10 DEF RunEffect, logVars, disk, wal, Chained, EndHash
<1> QED
  BY <1>5, <1>6, <1>7, <1>8, <1>9, <1>10 DEF LogNext

-------------------------------------------------------------------------------
(* Index, acknowledgements and effects *)

(* The index of an open log holds what the file holds.                     *)
LEMMA NextIndexed ==
  ASSUME LogAssumption, LogInv, [LogNext]_logVars
  PROVE  IndexIsOnFile'
<1>1. \A t, s : OnFile(t, s) => OnFile(t, s)'
  <2>1. PICK e \in Seq(Records) : file' = file \o e
    BY FileGrows DEF LogInv
  <2> QED
    BY <2>1, ExtendedKeeps DEF LogInv, LogTypes
<1>2. ASSUME NEW t \in Txs, NEW s \in WalState, AppendRecord(t, s)
      PROVE  IndexIsOnFile'
  <2>1. Wants(t, s)
    BY <1>2 DEF AppendRecord
  <2>2. OnFile(t, s)'
    <3>1. PICK r \in Records : r = Record(t, s)
      BY <2>1, RecordType DEF LogInv
    <3>2. file' = file \o Append(buffer, r) /\ r.tx = t /\ r.state = s
      BY <1>2, <3>1 DEF AppendRecord, Record
    <3> QED
      BY <3>2, LastOnFile DEF LogInv
  <2>3. \A u \in Txs : transactions'[u] \subseteq transactions[u] \union {v \in {s} : u = t}
    BY <1>2 DEF AppendRecord, LogInv, LogTypes
  <2> QED
    BY <1>1, <2>1, <2>2, <2>3 DEF LogInv, IndexIsOnFile, Wants
<1>3. CASE Open
  BY <1>3 DEF Open, StatesOf, IndexIsOnFile, OnFile, disk
<1>4. ASSUME NEW t \in Txs, NEW s \in WalState, AppendFails(t, s) \/ CrashInAppend(t, s)
      PROVE  IndexIsOnFile'
  BY <1>1, <1>4 DEF AppendFails, CrashInAppend, Down, LogInv, IndexIsOnFile
<1>5. CASE (\E t \in Txs : RunEffect(t)) \/ CloseLog \/ Crash \/ UNCHANGED logVars
  BY <1>1, <1>5 DEF RunEffect, CloseLog, Crash, Down, logVars, wal, LogInv, IndexIsOnFile
<1> QED
  BY <1>2, <1>3, <1>4, <1>5 DEF LogNext

(* What append() has returned for stays in file and index.                 *)
LEMMA NextKept ==
  ASSUME LogAssumption, LogInv, [LogNext]_logVars
  PROVE  AcknowledgedIsKept'
<1>1. \A r : InFile(r) => InFile(r)'
  <2>1. PICK e \in Seq(Records) : file' = file \o e
    BY FileGrows DEF LogInv
  <2> QED
    BY <2>1, ExtendedKeeps DEF LogInv, LogTypes
<1>2. ASSUME NEW t \in Txs, NEW s \in WalState, AppendRecord(t, s)
      PROVE  AcknowledgedIsKept'
  <2>1. Wants(t, s)
    BY <1>2 DEF AppendRecord
  <2>2. PICK new \in Records : new = Record(t, s)
    BY <2>1, RecordType DEF LogInv
  <2>3. /\ file' = file \o Append(buffer, new) /\ acked' = acked \union {new}
        /\ new.tx = t /\ new.state = s
    BY <1>2, <2>2 DEF AppendRecord, Record
  <2>4. InFile(new)'
    BY <2>3, LastOnFile DEF LogInv
  <2>5. s \in transactions'[t] /\ \A u \in Txs : transactions[u] \subseteq transactions'[u]
    BY <1>2 DEF AppendRecord, LogInv, LogTypes
  <2>6. ASSUME NEW r \in acked
        PROVE  InFile(r)' /\ r.state \in transactions'[r.tx]
    <3>1. r.tx \in Txs
      BY DEF LogInv, LogTypes, Records
    <3> QED
      BY <1>1, <2>1, <2>5, <3>1 DEF LogInv, AcknowledgedIsKept, Logged, Wants
  <2>7. \A r \in acked' : InFile(r)' /\ r.state \in transactions'[r.tx]
    BY <2>3, <2>4, <2>5, <2>6
  <2> QED
    BY <2>7 DEF AcknowledgedIsKept, Logged
<1>3. CASE Open
  <2>1. ASSUME NEW r \in acked
        PROVE  r.tx \in Txs /\ InFile(r) /\ r.state \in StatesOf(r.tx)
    BY DEF LogInv, LogTypes, Records, AcknowledgedIsKept, InFile, StatesOf
  <2> QED
    BY <1>1, <1>3, <2>1 DEF Open, AcknowledgedIsKept, Logged
<1>4. ASSUME NEW t \in Txs, NEW s \in WalState, AppendFails(t, s) \/ CrashInAppend(t, s)
      PROVE  AcknowledgedIsKept'
  BY <1>1, <1>4 DEF AppendFails, CrashInAppend, Down, LogInv, AcknowledgedIsKept, Logged
<1>5. CASE (\E t \in Txs : RunEffect(t)) \/ CloseLog \/ Crash \/ UNCHANGED logVars
  BY <1>1, <1>5
     DEF RunEffect, CloseLog, Crash, Down, logVars, wal, LogInv, AcknowledgedIsKept, Logged
<1> QED
  BY <1>2, <1>3, <1>4, <1>5 DEF LogNext

(* A worker acts behind DISPATCH only, and DISPATCH is not forgotten.      *)
LEMMA NextSeen ==
  ASSUME LogAssumption, LogInv, [LogNext]_logVars
  PROVE  SeenWasDispatched'
<1>1. \A t, s : OnFile(t, s) => OnFile(t, s)'
  <2>1. PICK e \in Seq(Records) : file' = file \o e
    BY FileGrows DEF LogInv
  <2> QED
    BY <2>1, ExtendedKeeps DEF LogInv, LogTypes
<1>2. ran \subseteq Txs
  BY DEF LogInv, LogTypes
<1>3. ASSUME NEW t \in Txs, NEW s \in WalState, AppendRecord(t, s)
      PROVE  SeenWasDispatched'
  <2>1. \A u \in Txs : transactions[u] \subseteq transactions'[u]
    BY <1>3 DEF AppendRecord, LogInv, LogTypes
  <2> QED
    BY <1>1, <1>2, <1>3, <2>1 DEF AppendRecord, LogInv, SeenWasDispatched, Logged
<1>4. ASSUME NEW t \in Txs, RunEffect(t)
      PROVE  SeenWasDispatched'
  <2>1. OnFile(t, "DISPATCH") /\ Logged(t, "DISPATCH")
    BY <1>4 DEF RunEffect, LogInv, IndexIsOnFile, Logged
  <2> QED
    BY <1>1, <1>4, <2>1 DEF RunEffect, wal, LogInv, SeenWasDispatched, Logged
<1>5. CASE Open
  <2>1. \A t \in Txs : OnFile(t, "DISPATCH") => "DISPATCH" \in StatesOf(t)
    BY DEF OnFile, StatesOf
  <2> QED
    BY <1>1, <1>2, <1>5, <2>1 DEF Open, LogInv, SeenWasDispatched, Logged
<1>6. ASSUME NEW t \in Txs, NEW s \in WalState, AppendFails(t, s) \/ CrashInAppend(t, s)
      PROVE  SeenWasDispatched'
  BY <1>1, <1>6 DEF AppendFails, CrashInAppend, Down, LogInv, SeenWasDispatched, Logged
<1>7. CASE CloseLog \/ Crash \/ UNCHANGED logVars
  BY <1>1, <1>7 DEF CloseLog, Crash, Down, logVars, wal, LogInv, SeenWasDispatched, Logged
<1> QED
  BY <1>3, <1>4, <1>5, <1>6, <1>7 DEF LogNext

-------------------------------------------------------------------------------
(* Theorems *)

(* A new log satisfies the invariant.                                      *)
LEMMA InitLog == ASSUME LogAssumption, LogInit PROVE LogInv
<1>1. LogTypes
  <2>1. <<>> \in Seq(Records) /\ Len(Order) = 7
    BY EmptySeq DEF Order
  <2>2. at \in [Txs -> 0 .. Len(Order)]
    BY <2>1 DEF LogInit
  <2>3. /\ transactions \in [Txs -> SUBSET WalState]
        /\ ran \subseteq Txs /\ acked \subseteq Records
    BY DEF LogInit
  <2>4. 0 \in 0 .. MaxRecords /\ 0 \in 0 .. MaxFailures
    BY LogAssumption
  <2>5. global_seq = 0 /\ last_hash = 0 /\ failures = 0 /\ file = <<>> /\ buffer = <<>>
        /\ torn = FALSE /\ log = "open"
    BY DEF LogInit
  <2> QED
    BY <2>1, <2>2, <2>3, <2>4, <2>5 DEF LogTypes
<1>2. Chained
  BY DEF LogInit, Chained
<1> QED
  BY <1>1, <1>2
     DEF LogInit, LogInv, UnbrokenChain, RefusedForCause, IndexIsOnFile, AcknowledgedIsKept,
         SeenWasDispatched, EndHash

(* The invariant holds for good.                                           *)
LEMMA LogHolds == LogSpec => []LogInv
<1>1. LogInit => LogInv
  BY InitLog, LogAssumption
<1>2. LogInv /\ [LogNext]_logVars => LogInv'
  BY NextTypes, NextChain, NextIndexed, NextKept, NextSeen, LogAssumption DEF LogInv
<1> QED
  BY <1>1, <1>2, PTL DEF LogSpec

(* EffectWal.append(): a record whose append() returned is in the file     *)
(* whatever fails or crashes after it, and in the index of every log that  *)
(* is opened again.                                                        *)
THEOREM AcknowledgedStays == LogSpec => []AcknowledgedIsKept
<1>1. LogInv => AcknowledgedIsKept
  BY DEF LogInv
<1> QED
  BY <1>1, LogHolds, PTL

(* _recover(): a log is refused only when a crash has torn its last record *)
(* or an append has failed.                                                *)
THEOREM RefusalHasCause == LogSpec => []RefusedForCause
<1>1. LogInv => RefusedForCause
  BY DEF LogInv
<1> QED
  BY <1>1, LogHolds, PTL

(* EffectReconciler.analyze(): an effect the operating system may have     *)
(* seen is not taken for safe to replay unless it was verified, and an     *)
(* irreversible one is escalated.                                          *)
THEOREM SeenIsEscalated == LogSpec => []SeenEffectIsEscalated
<1>1. LogInv => SeenEffectIsEscalated
  <2>1. SUFFICES ASSUME LogInv, NEW t \in ran, log = "open",
                        ~Over(t), ~Logged(t, "VERIFY")
                 PROVE  /\ Verdict(t) # "SAFE_REPLAY"
                        /\ ~Reversible[t] =>
                             Verdict(t) \in {"MANUAL_INTERVENTION", "COMPENSATION_REQUIRED"}
    BY DEF SeenEffectIsEscalated
  <2>2. Logged(t, "DISPATCH")
    BY <2>1 DEF LogInv, SeenWasDispatched
  <2>3. CASE Reversible[t]
    BY <2>1, <2>2, <2>3 DEF Verdict
  <2>4. CASE ~Reversible[t]
    BY <2>1, <2>2, <2>4 DEF Verdict
  <2> QED
    BY <2>3, <2>4
<1> QED
  BY <1>1, LogHolds, PTL

-------------------------------------------------------------------------------
(***************************************************************************)
(* The event journal                                                       *)
(***************************************************************************)

(* The file of the segment that is written to exists, the files follow     *)
(* each other, and the last one ends where the lines end.                  *)
IsEnds(es, n) ==
  /\ es \in Seq(Nat) /\ es # <<>>
  /\ es[Len(es)] = n
  /\ \A i, j \in 1 .. Len(es) : i <= j => es[i] <= es[j]

JournalTypes ==
  /\ lines \in Seq(Line)
  /\ IsEnds(ends, Len(lines))
  /\ listed \in 1 .. Len(ends)
  /\ segment \in Nat /\ segment < Len(ends)
  /\ count \in Nat
  /\ committed \in Seq(Events) /\ tried \subseteq Events

(* Nobody commits an event twice, and what is in the files, or was         *)
(* acknowledged, or is the hash of the chain, was tried.                   *)
TriedBefore ==
  /\ \A i, j \in 1 .. Len(committed) : committed[i] = committed[j] => i = j
  /\ \A i \in 1 .. Len(committed) : committed[i] \in tried
  /\ lastHash \in tried \cup {NoHash}
  /\ \A i \in 1 .. Len(lines) :
       /\ Readable(lines[i]) => lines[i].event \in tried
       /\ lines[i].prev \in tried \cup {NoHash}

WrittenOnce ==
  \A i, j \in 1 .. Len(lines) :
    Readable(lines[i]) /\ lines[i].event = lines[j].event => i = j

(* The first n lines can be read, each after the one before it.            *)
IntactTo(n) ==
  \A i \in 1 .. n : Readable(lines[i]) /\ (i > 1 => Follows(lines[i], lines[i - 1]))

Holds(n, e) == \E h \in 1 .. n : lines[h].event = e

(* What was acknowledged before the event of an intact line is in front of *)
(* that line.                                                              *)
IntactHasNoGap ==
  \A i \in 1 .. Len(lines), j \in 1 .. Len(committed) :
    IntactTo(i) /\ lines[i].event = committed[j] =>
      \A k \in 1 .. j - 1 : Holds(i - 1, committed[k])

(* The line a process would chain the next one to is behind everything     *)
(* that was acknowledged.                                                  *)
ChainIsBehind ==
  \A i \in 1 .. Len(lines) :
    IntactTo(i) /\ lines[i].event = lastHash =>
      \A k \in 1 .. Len(committed) : Holds(i, committed[k])

(* Nothing was acknowledged before there was a first line.                 *)
StartsEmpty == ends[1] = 0 => segment = 0 /\ count = 0 /\ committed = <<>>

(* An acknowledged event is missing only where a line is broken.           *)
MissingIsBroken ==
  \/ \E i \in 1 .. Len(lines) : ~Readable(lines[i])
  \/ \A k \in 1 .. Len(committed) : Holds(Len(lines), committed[k])

BootWasHonest ==
  boot.ok /\ boot.mode = "STRICT" =>
    HasNoGap(boot.applied) /\ \A i \in DOMAIN boot.applied : boot.applied[i] \in tried

JournalInv ==
  /\ JournalTypes /\ TriedBefore /\ WrittenOnce
  /\ IntactHasNoGap /\ ChainIsBehind /\ StartsEmpty /\ MissingIsBroken
  /\ BootWasHonest

-------------------------------------------------------------------------------

(* A bounded set of numbers has a greatest one.                            *)
LEMMA MaxOfBounded ==
  ASSUME NEW N \in Nat, NEW S, S \subseteq 0 .. N, S # {}
  PROVE  Max(S) \in S /\ \A x \in S : x <= Max(S)
<1> DEFINE T == {N - x : x \in S}
<1>1. T \subseteq Nat /\ T # {}
  <2>1. \A x \in S : N - x \in Nat
    OBVIOUS
  <2> QED BY <2>1
<1>2. IsWellFoundedOn(OpToRel(<, Nat), Nat)
  BY NatLessThanWellFounded
<1>3. PICK t \in T : \A y \in T : ~ (<<y, t>> \in OpToRel(<, Nat))
  <2> HIDE DEF T
  <2> QED BY <1>1, <1>2, WFMin
<1>4. \A y \in T : ~(y < t)
  <2> HIDE DEF T
  <2> QED BY <1>1, <1>3 DEF OpToRel
<1>5. PICK m \in S : t = N - m
  BY <1>3
<1>6. ASSUME NEW x \in S PROVE m >= x
  <2>1. ~(N - x < N - m)
    BY <1>4, <1>5
  <2> QED BY <2>1
<1>7. \E x \in S : \A y \in S : x >= y
  BY <1>6
<1>8. Max(S) \in S /\ \A x \in S : Max(S) >= x
  BY <1>7, Zenon DEF Max
<1> QED BY <1>8

(* What InsertAt of the community modules builds.                          *)
LEMMA InsertAtIs ==
  ASSUME NEW S, NEW s \in Seq(S), NEW p \in 1 .. Len(s) + 1, NEW e \in S
  PROVE  /\ InsertAt(s, p, e) \in Seq(S) 
         /\ Len(InsertAt(s, p, e)) = Len(s) + 1 /\ InsertAt(s, p, e)[p] = e
         /\ \A i \in 1 .. p - 1 : InsertAt(s, p, e)[i] = s[i]
         /\ \A i \in p .. Len(s) : InsertAt(s, p, e)[i + 1] = s[i]
<1> DEFINE f == SubSeq(s, 1, p - 1)  r == SubSeq(s, p, Len(s)) h == f \o <<e>> t == h \o r
<1>1. Len(s) \in Nat /\ p \in Nat \ {0} /\ p <= Len(s) + 1
  OBVIOUS
<1>2. f \in Seq(S) /\ Len(f) = p - 1 /\ \A i \in 1 .. p - 1 : f[i] = s[i]
  BY <1>1
<1>3. r \in Seq(S) /\ Len(r) = Len(s) + 1 - p /\ \A i \in 1 .. Len(s) + 1 - p : r[i] = s[p + i - 1]
  BY <1>1
<1>4. InsertAt(s, p, e) = t
  BY DEF InsertAt
<1> HIDE DEF f, r
<1>5. h \in Seq(S) /\ Len(h) = p /\ h[p] = e /\ \A i \in 1 .. p - 1 : h[i] = s[i]
  BY <1>1, <1>2
<1> HIDE DEF h
<1>6. /\ t \in Seq(S) /\ Len(t) = Len(h) + Len(r)
      /\ \A i \in 1 .. Len(h) + Len(r) : t[i] = IF i <= Len(h) THEN h[i] ELSE r[i - Len(h)]
  <2>1. h \in Seq(S) /\ r \in Seq(S)
    BY <1>3, <1>5
  <2> QED BY <2>1, ConcatProperties
<1>7. Len(h) + Len(r) = Len(s) + 1
  BY <1>1, <1>3, <1>5
<1> HIDE DEF t
<1>8. ASSUME NEW i \in 1 .. p PROVE t[i] = h[i]
  <2>1. i \in 1 .. Len(s) + 1 /\ i <= p
    BY <1>1
  <2> QED BY <1>5, <1>6, <1>7, <2>1
<1>9. ASSUME NEW i \in p .. Len(s) PROVE t[i + 1] = s[i]
  <2>1. /\ i + 1 \in 1 .. Len(s) + 1 /\ ~(i + 1 <= p)
        /\ i + 1 - p \in 1 .. Len(s) + 1 - p /\ p + (i + 1 - p) - 1 = i
    BY <1>1
  <2>2. t[i + 1] = r[i + 1 - p]
    BY <1>5, <1>6, <1>7, <2>1
  <2>3. r[i + 1 - p] = s[p + (i + 1 - p) - 1]
    BY <1>3, <2>1
  <2> QED BY <2>1, <2>2, <2>3
<1>10. p \in 1 .. p /\ \A i \in 1 .. p - 1 : i \in 1 .. p
  BY <1>1
<1> QED BY <1>4, <1>5, <1>6, <1>7, <1>8, <1>9, <1>10

(* The first file ends before every other.                                 *)
LEMMA FirstEndsFirst ==
  ASSUME NEW es, NEW n, IsEnds(es, n), NEW k \in Nat, k < Len(es)
  PROVE  es[1] \in Nat /\ es[k + 1] \in Nat /\ es[1] <= es[k + 1]
<1>1. es \in Seq(Nat) /\ Len(es) \in Nat
  BY LenProperties DEF IsEnds
<1>2. 1 \in 1 .. Len(es) /\ k + 1 \in 1 .. Len(es) /\ 1 <= k + 1
  BY <1>1
<1>3. es[1] <= es[k + 1]
  BY <1>2 DEF IsEnds
<1> QED BY <1>1, <1>2, <1>3, ElementOfSeq

(* Opening a segment leaves the end of the first file where it was.        *)
LEMMA CreateKeepsEnds ==
  ASSUME NEW n \in Nat, NEW es, IsEnds(es, n), NEW k \in 0 .. Len(es)
  PROVE  /\ IsEnds(Create(k, es), n)
         /\ k < Len(Create(k, es)) /\ Len(es) <= Len(Create(k, es))
         /\ Create(k, es)[1] = es[1]
<1>1. es \in Seq(Nat) /\ Len(es) \in Nat \ {0} /\ DOMAIN es = 1 .. Len(es) /\ Last(es) = n
  BY EmptySeq, LenProperties DEF IsEnds, Last
<1>2. CASE k < Len(es)
  BY <1>1, <1>2 DEF Create
<1>3. CASE ~(k < Len(es))
  <2> DEFINE new == Append(es, n)
  <2>1. Create(k, es) = new
    BY <1>1, <1>3 DEF Create
  <2>2. /\ new \in Seq(Nat) /\ new # <<>> /\ Len(new) = Len(es) + 1
        /\ new[Len(es) + 1] = n /\ \A i \in 1 .. Len(es) : new[i] = es[i]
    BY <1>1, AppendProperties
  <2>3. \A i \in 1 .. Len(es) : es[i] \in Nat /\ es[i] <= n
    BY <1>1 DEF IsEnds
  <2> HIDE DEF new
  <2>4. ASSUME NEW i \in 1 .. Len(new), NEW j \in 1 .. Len(new), i <= j
        PROVE  new[i] <= new[j]
    <3>1. CASE j <= Len(es)
      BY <1>1, <2>2, <2>4, <3>1 DEF IsEnds
    <3>2. CASE j = Len(es) + 1
      BY <1>1, <2>2, <2>3, <2>4, <3>2
    <3> QED BY <1>1, <2>2, <3>1, <3>2
  <2> QED BY <1>1, <1>3, <2>1, <2>2, <2>4 DEF IsEnds
<1> QED BY <1>2, <1>3

(* What a write leaves: a line written at p, or a fragment at p that is    *)
(* broken for good.                                                        *)
Inserted(p, line, new) ==
  /\ Len(new) = Len(lines) + 1 /\ p \in 1 .. Len(new)
  /\ \A i \in 1 .. p - 1 : new[i] = lines[i]
  /\ new[p] = line
  /\ \A i \in p .. Len(lines) : new[i + 1] = lines[i]

Spoiled(p, new) ==
  /\ Len(new) = Len(lines) /\ p \in 1 .. Len(new)
  /\ \A i \in 1 .. Len(new) : i # p => new[i] = lines[i]
  /\ ~Readable(lines[p]) /\ ~Readable(new[p])
  /\ new[p].prev = NoHash

(* A write to the file of segment k is one of the two above, and the files *)
(* still follow each other.                                                *)
LEMMA WrittenIs ==
  ASSUME NEW es, IsEnds(es, Len(lines)), lines \in Seq(Line),
         NEW k \in Nat, k < Len(es), NEW line \in Line
  PROVE  /\ Written(k, line, es) \in Seq(Line)
         /\ IsEnds(Grown(k, es), Len(Written(k, line, es)))
         /\ Len(Grown(k, es)) = Len(es)
         /\ \/ /\ ~EndsTorn(k, es)
               /\ Inserted(es[k + 1] + 1, line, Written(k, line, es))
            \/ /\ EndsTorn(k, es)
               /\ Spoiled(es[k + 1], Written(k, line, es))
         /\ Grown(k, es)[1] = 0 => es[1] = 0 /\ k > 0
<1> DEFINE p == es[k + 1]  new == Written(k, line, es)
<1>1. /\ es \in Seq(Nat) /\ Len(es) \in Nat \ {0} /\ DOMAIN es = 1 .. Len(es)
      /\ k + 1 \in 1 .. Len(es) /\ p \in Nat /\ p <= Len(lines) /\ es[1] \in Nat /\ es[1] <= p
      /\ \A i \in 1 .. Len(es) : es[i] \in Nat
  BY EmptySeq, LenProperties DEF IsEnds
<1>2. Len(lines) \in Nat /\ DOMAIN lines = 1 .. Len(lines)
  BY LenProperties
<1> DEFINE grown == Grown(k, es)
<1>3. /\ grown \in Seq(Nat) /\ Len(grown) = Len(es)
      /\ \A i \in 1 .. Len(es) :
           grown[i] = IF i > k /\ ~EndsTorn(k, es) THEN es[i] + 1 ELSE es[i]
  <2>1. grown \in [1 .. Len(es) -> Nat]
    BY <1>1 DEF Grown
  <2> QED BY <1>1, <2>1 DEF Grown
<1>4. /\ grown # <<>>
      /\ \A i, j \in 1 .. Len(grown) : i <= j => grown[i] <= grown[j]
      /\ grown[Len(grown)] = IF EndsTorn(k, es) THEN Len(lines) ELSE Len(lines) + 1
  <2> HIDE DEF grown
  <2>1. grown # <<>>
    BY <1>1, <1>3, EmptySeq
  <2>2. ASSUME NEW i \in 1 .. Len(grown), NEW j \in 1 .. Len(grown), i <= j
        PROVE  grown[i] <= grown[j]
    <3>1. es[i] <= es[j]
      BY <1>1, <1>3, <2>2 DEF IsEnds
    <3>2. es[i] \in Nat /\ es[j] \in Nat /\ i \in Nat /\ j \in Nat
      BY <1>1, <1>3
    <3>3. CASE i > k /\ ~EndsTorn(k, es)
      BY <1>3, <2>2, <3>1, <3>2, <3>3
    <3>4. CASE ~(i > k /\ ~EndsTorn(k, es))
      BY <1>3, <2>2, <3>1, <3>2, <3>4
    <3> QED BY <3>3, <3>4
  <2> QED BY <1>1, <1>3, <2>1, <2>2 DEF IsEnds
<1>5. grown[1] = 0 => es[1] = 0 /\ k > 0
  <2>1. CASE EndsTorn(k, es) /\ k = 0
    <3>1. es[1] > 0
      BY <2>1 DEF EndsTorn
    <3> QED BY <1>1, <1>3, <2>1, <3>1
  <2>2. CASE ~EndsTorn(k, es) /\ k = 0
    <3> HIDE DEF grown
    <3> QED BY <1>1, <1>3, <2>2
  <2>3. CASE k > 0
    <3> HIDE DEF grown
    <3> QED BY <1>1, <1>3, <2>3
  <2> QED BY <2>1, <2>2, <2>3
<1>6. CASE EndsTorn(k, es)
  <2>1. p \in 1 .. Len(lines) /\ lines[p] = Broken(Fragment)
    <3>1. p > (IF k = 0 THEN 0 ELSE es[k]) /\ lines[p] = Broken(Fragment)
      BY <1>6 DEF EndsTorn
    <3>2. k > 0 => es[k] \in Nat
      BY <1>1
    <3> QED BY <1>1, <1>2, <3>1, <3>2
  <2>2. Glued(line) \in Line /\ ~Readable(Glued(line)) /\ Glued(line).prev = NoHash
    BY JournalAssumption DEF Glued, Broken, Line, Readable
  <2>3. new = [lines EXCEPT ![p] = Glued(line)]
    BY <1>6 DEF Written, ReplaceAt
  <2>4. /\ new \in Seq(Line) /\ Len(new) = Len(lines)
        /\ \A i \in 1 .. Len(lines) : new[i] = IF i = p THEN Glued(line) ELSE lines[i]
    BY <2>1, <2>2, <2>3, ExceptSeq
  <2>5. ~Readable(lines[p])
    BY <2>1, JournalAssumption DEF Broken, Readable
  <2> QED BY <1>3, <1>4, <1>5, <1>6, <2>1, <2>2, <2>4, <2>5 DEF Spoiled, IsEnds
<1>7. CASE ~EndsTorn(k, es)
  <2> DEFINE q == p + 1
  <2>1. q \in 1 .. Len(lines) + 1 /\ new = InsertAt(lines, q, line)
    BY <1>1, <1>2, <1>7 DEF Written
  <2> HIDE DEF q, new
  <2>2. /\ new \in Seq(Line) /\ Len(new) = Len(lines) + 1 /\ new[q] = line
        /\ \A i \in 1 .. q - 1 : new[i] = lines[i]
        /\ \A i \in q .. Len(lines) : new[i + 1] = lines[i]
    BY <2>1, InsertAtIs
  <2>3. Inserted(q, line, new)
    BY <2>1, <2>2 DEF Inserted
  <2>4. IsEnds(grown, Len(new))
    BY <1>3, <1>4, <1>7, <2>2 DEF IsEnds
  <2> QED BY <1>3, <1>5, <1>7, <2>2, <2>3, <2>4 DEF new, q
<1> QED BY <1>6, <1>7

-------------------------------------------------------------------------------

(* One line is written, for an event nobody has tried before.              *)
Writes(e, line, p) ==
  /\ e \in Events \ tried /\ line \in {LineOf(e), Broken(Fragment)}
  /\ lines' \in Seq(Line)
  /\ \/ Inserted(p, line, lines') /\ (p = 1 => committed = <<>>)
     \/ Spoiled(p, lines')
  /\ tried' = tried \cup {e}
  /\ \/ committed' = committed /\ lastHash' \in {lastHash, e}
     \/ committed' = Append(committed, e) /\ lastHash' = e

(* Neither a fragment nor what is glued to one can be decoded.             *)
LEMMA BrokenIsUnreadable == ~Readable(Broken(Fragment)) /\ ~Readable(Broken(Garbage))
BY JournalAssumption DEF Readable, Broken

(* What commit_sync() acknowledges is added behind what it acknowledged.   *)
LEMMA AcknowledgedWith ==
  ASSUME JournalInv, NEW e, NEW line, NEW p, Writes(e, line, p)
  PROVE  /\ committed' \in Seq(Events) /\ Len(committed) \in Nat
         /\ \A k \in 1 .. Len(committed) : committed'[k] = committed[k]
         /\ \/ Len(committed') = Len(committed)
            \/ /\ Len(committed') = Len(committed) + 1 /\ lastHash' = e
               /\ committed'[Len(committed) + 1] = e
<1>1. committed \in Seq(Events) /\ Len(committed) \in Nat /\ e \in Events
  BY LenProperties DEF JournalInv, JournalTypes, Writes
<1>2. CASE committed' = committed
  BY <1>1, <1>2
<1>3. CASE committed' = Append(committed, e) /\ lastHash' = e
  BY <1>1, <1>3, AppendProperties
<1> QED BY <1>2, <1>3 DEF Writes

(* The lines in front of p are as before, and every other line is an old   *)
(* one or the one at p.                                                    *)
LEMMA LinesAfter ==
  ASSUME JournalInv, NEW e, NEW line, NEW p, Writes(e, line, p)
  PROVE  /\ Len(lines) \in Nat /\ Len(lines') \in Nat /\ p \in 1 .. Len(lines')
         /\ Len(lines) <= Len(lines')
         /\ \A i \in 1 .. p - 1 : i \in 1 .. Len(lines) /\ lines'[i] = lines[i]
         /\ \A i \in 1 .. Len(lines') :
              \/ i = p
              \/ i < p /\ i \in 1 .. Len(lines) /\ lines'[i] = lines[i]
              \/ i > p /\ Spoiled(p, lines') /\ i \in 1 .. Len(lines) /\ lines'[i] = lines[i]
              \/ i > p /\ Inserted(p, line, lines') /\ i - 1 \in 1 .. Len(lines)
                 /\ lines'[i] = lines[i - 1]
         /\ \A i \in 1 .. Len(lines) : Readable(lines[i]) =>
              \E j \in 1 .. Len(lines') : lines'[j] = lines[i]
<1>1. Len(lines) \in Nat /\ Len(lines') \in Nat
  BY LenProperties DEF JournalInv, JournalTypes, Writes
<1>2. CASE Inserted(p, line, lines')
  <2>1. /\ Len(lines') = Len(lines) + 1 /\ p \in 1 .. Len(lines')
        /\ \A i \in 1 .. p - 1 : i \in 1 .. Len(lines) /\ lines'[i] = lines[i]
    BY <1>1, <1>2 DEF Inserted
  <2>2. ASSUME NEW i \in 1 .. Len(lines'), i > p
        PROVE  i - 1 \in 1 .. Len(lines) /\ lines'[i] = lines[i - 1]
    <3>1. i - 1 \in p .. Len(lines) /\ i - 1 \in 1 .. Len(lines) /\ (i - 1) + 1 = i
      BY <1>1, <2>1, <2>2
    <3> QED BY <1>2, <3>1 DEF Inserted
  <2>3. ASSUME NEW i \in 1 .. Len(lines)
        PROVE  \E j \in 1 .. Len(lines') : lines'[j] = lines[i]
    <3>1. CASE i < p
      BY <1>1, <2>1, <3>1
    <3>2. CASE i >= p
      <4>1. i \in p .. Len(lines) /\ i + 1 \in 1 .. Len(lines')
        BY <1>1, <2>1, <3>2
      <4> QED BY <1>2, <4>1 DEF Inserted
    <3> QED BY <1>1, <2>1, <3>1, <3>2
  <2>4. ASSUME NEW i \in 1 .. Len(lines'), i < p
        PROVE  i \in 1 .. Len(lines) /\ lines'[i] = lines[i]
    BY <1>1, <2>1, <2>4
  <2>5. \A i \in 1 .. Len(lines') : i = p \/ i < p \/ i > p
    BY <1>1, <2>1
  <2>6. Len(lines) <= Len(lines')
    BY <1>1, <2>1
  <2> QED BY <1>1, <1>2, <2>1, <2>2, <2>3, <2>4, <2>5, <2>6
<1>3. CASE Spoiled(p, lines')
  <2>1. /\ Len(lines') = Len(lines) /\ p \in 1 .. Len(lines') /\ ~Readable(lines[p])
        /\ \A i \in 1 .. Len(lines) : i # p => lines'[i] = lines[i]
    BY <1>3 DEF Spoiled
  <2>2. \A i \in 1 .. Len(lines') : i = p \/ (i < p /\ i # p) \/ (i > p /\ i # p)
    BY <1>1, <2>1
  <2>3. \A i \in 1 .. p - 1 : i \in 1 .. Len(lines) /\ i # p
    BY <1>1, <2>1
  <2>4. Len(lines) <= Len(lines')
    BY <1>1, <2>1
  <2> QED BY <1>1, <1>3, <2>1, <2>2, <2>3, <2>4
<1> QED BY <1>2, <1>3 DEF Writes

(* What is intact afterwards was intact before, or ends in the new line,   *)
(* chained to the hash of the writer.                                      *)
LEMMA IntactAfter ==
  ASSUME JournalInv, NEW e, NEW line, NEW p, Writes(e, line, p),
         NEW i \in 1 .. Len(lines'), IntactTo(i)'
  PROVE  \/ i < p /\ i \in 1 .. Len(lines) /\ IntactTo(i)
         \/ /\ i = p /\ Inserted(p, line, lines') /\ lines'[p].event = e
            /\ p > 1 => /\ p - 1 \in 1 .. Len(lines) /\ IntactTo(p - 1)
                        /\ lines[p - 1].event = lastHash
<1>1. /\ Len(lines) \in Nat /\ Len(lines') \in Nat /\ p \in 1 .. Len(lines')
      /\ \A j \in 1 .. p - 1 : j \in 1 .. Len(lines) /\ lines'[j] = lines[j]
  BY LinesAfter
<1>2. ASSUME NEW n \in 1 .. p - 1, n <= i PROVE n \in 1 .. Len(lines) /\ IntactTo(n)
  <2>1. \A j \in 1 .. n : j \in 1 .. i /\ j \in 1 .. p - 1 /\ (j > 1 => j - 1 \in 1 .. p - 1)
    BY <1>1, <1>2
  <2> QED BY <1>1, <1>2, <2>1 DEF IntactTo, Readable, Follows
<1>3. CASE i < p
  <2>1. i \in 1 .. p - 1 /\ i <= i
    BY <1>1, <1>3
  <2> QED BY <1>2, <1>3, <2>1
<1>4. CASE i >= p
  <2>1. p \in 1 .. i
    BY <1>1, <1>4
  <2>2. Readable(lines'[p]) /\ (p > 1 => lines'[p].prev = lines'[p - 1].event)
    BY <2>1 DEF IntactTo, Readable, Follows
  <2>3. Inserted(p, line, lines') /\ lines'[p] = LineOf(e)
    BY <2>2, BrokenIsUnreadable DEF Writes, Spoiled, Inserted
  <2>4. lines'[p].event = e /\ lines'[p].prev = lastHash
    BY <2>3 DEF LineOf
  <2>5. i = p
    <3> SUFFICES ASSUME i > p PROVE FALSE
      BY <1>1, <1>4
    <3>1. p + 1 \in 1 .. i /\ p + 1 > 1 /\ (p + 1) - 1 = p /\ p \in p .. Len(lines) /\ p \in 1 .. Len(lines)
      BY <1>1, <2>3 DEF Inserted
    <3>2. lines'[p + 1].prev = lines'[p].event
      BY <3>1 DEF IntactTo, Follows
    <3>3. lines'[p + 1] = lines[p]
      BY <2>3, <3>1 DEF Inserted
    <3>4. lines[p].prev \in tried \cup {NoHash}
      BY <3>1 DEF JournalInv, TriedBefore
    <3>5. e \notin tried /\ e # NoHash
      BY JournalAssumption DEF Writes
    <3> QED BY <2>4, <3>2, <3>3, <3>4, <3>5
  <2>6. ASSUME p > 1
        PROVE  p - 1 \in 1 .. Len(lines) /\ IntactTo(p - 1) /\ lines[p - 1].event = lastHash
    <3>1. p - 1 \in 1 .. p - 1 /\ p - 1 <= i
      BY <1>1, <2>5, <2>6
    <3> QED BY <1>1, <1>2, <2>2, <2>4, <2>6, <3>1
  <2> QED BY <2>3, <2>4, <2>5, <2>6
<1> QED BY <1>1, <1>3, <1>4

(* Which old line each line but the one at p is.                           *)
LEMMA OtherLineIsOld ==
  ASSUME JournalInv, NEW e, NEW line, NEW p, Writes(e, line, p),
         NEW i \in 1 .. Len(lines'), i # p
  PROVE  \E h \in 1 .. Len(lines) :
           /\ lines'[i] = lines[h]
           /\ h = IF i < p \/ Spoiled(p, lines') THEN i ELSE i - 1
<1>1. \/ i < p /\ i \in 1 .. Len(lines) /\ lines'[i] = lines[i]
      \/ i > p /\ Spoiled(p, lines') /\ i \in 1 .. Len(lines) /\ lines'[i] = lines[i]
      \/ i > p /\ Inserted(p, line, lines') /\ i - 1 \in 1 .. Len(lines)
         /\ lines'[i] = lines[i - 1]
  BY LinesAfter
<1>2. p \in 1 .. Len(lines') /\ Len(lines') \in Nat /\ Len(lines) \in Nat
  BY LinesAfter
<1>3. ~(Inserted(p, line, lines') /\ Spoiled(p, lines'))
  BY <1>2 DEF Inserted, Spoiled
<1> QED BY <1>1, <1>2, <1>3

(* A write leaves nothing in the files that nobody tried to commit.        *)
LEMMA WriteIsTried ==
  ASSUME JournalInv, NEW e, NEW line, NEW p, Writes(e, line, p)
  PROVE  TriedBefore'
<1> DEFINE n == Len(committed)
<1>1. /\ n \in Nat /\ tried' = tried \cup {e} /\ e \notin tried
      /\ \A k \in 1 .. n : committed'[k] = committed[k] /\ committed[k] \in tried
      /\ \A j, k \in 1 .. n : committed[j] = committed[k] => j = k
      /\ \/ Len(committed') = n
         \/ Len(committed') = n + 1 /\ committed'[n + 1] = e
  BY AcknowledgedWith DEF JournalInv, TriedBefore, Writes
<1> HIDE DEF n
<1>2. ASSUME NEW j \in 1 .. Len(committed'), NEW k \in 1 .. Len(committed'),
             committed'[j] = committed'[k]
      PROVE  j = k
  BY <1>1, <1>2
<1>3. \A k \in 1 .. Len(committed') : committed'[k] \in tried'
  BY <1>1
<1>4. lastHash' \in tried' \cup {NoHash}
  BY <1>1 DEF JournalInv, TriedBefore, Writes
<1>5. ASSUME NEW i \in 1 .. Len(lines')
      PROVE  /\ Readable(lines'[i]) => lines'[i].event \in tried'
             /\ lines'[i].prev \in tried' \cup {NoHash}
  <2>1. CASE \E j \in 1 .. Len(lines) : lines'[i] = lines[j]
    BY <1>1, <2>1 DEF JournalInv, TriedBefore
  <2>2. CASE i = p /\ Inserted(p, line, lines')
    <3>1. lines'[i] = LineOf(e) \/ lines'[i] = Broken(Fragment)
      BY <2>2 DEF Writes, Inserted
    <3>2. CASE lines'[i] = LineOf(e)
      BY <1>1, <3>2 DEF LineOf, JournalInv, TriedBefore
    <3>3. CASE lines'[i] = Broken(Fragment)
      BY <3>3, BrokenIsUnreadable DEF Broken
    <3> QED BY <3>1, <3>2, <3>3
  <2>3. CASE i = p /\ Spoiled(p, lines')
    BY <2>3 DEF Spoiled
  <2>4. CASE i # p
    BY <2>1, <2>4, OtherLineIsOld
  <2> QED BY <2>2, <2>3, <2>4 DEF Writes
<1> QED BY <1>2, <1>3, <1>4, <1>5 DEF TriedBefore, Readable

(* A write does not bring an event into the files for the second time.     *)
LEMMA WriteIsOnce ==
  ASSUME JournalInv, NEW e, NEW line, NEW p, Writes(e, line, p)
  PROVE  WrittenOnce'
<1> SUFFICES ASSUME NEW i \in 1 .. Len(lines'), NEW j \in 1 .. Len(lines'),
                    Readable(lines'[i]), lines'[i].event = lines'[j].event
             PROVE  i = j
  BY DEF WrittenOnce, Readable
<1>1. /\ Len(lines) \in Nat /\ Len(lines') \in Nat /\ p \in 1 .. Len(lines')
  BY LinesAfter
(* The event at p is new, or there is none.                                *)
<1>2. Readable(lines'[p]) => lines'[p].event = e
  BY BrokenIsUnreadable DEF Writes, Spoiled, Inserted, LineOf
<1>3. \A k \in 1 .. Len(lines) : Readable(lines[k]) => lines[k].event # e
  BY DEF JournalInv, TriedBefore, Writes
<1>4. Readable(lines'[j])
  BY DEF Readable
<1>5. i = p <=> j = p
  <2>1. ASSUME NEW k \in 1 .. Len(lines'), k # p, Readable(lines'[k])
        PROVE  lines'[k].event # e
    <3>1. \E h \in 1 .. Len(lines) : lines'[k] = lines[h]
      BY <2>1, OtherLineIsOld
    <3> QED BY <1>3, <2>1, <3>1
  <2> QED BY <1>2, <1>4, <2>1
<1>6. \A h, k \in 1 .. Len(lines) : Readable(lines[h]) /\ lines[h].event = lines[k].event => h = k
  BY DEF JournalInv, WrittenOnce
<1>7. CASE i # p
  <2>1. PICK h \in 1 .. Len(lines) :
          /\ lines'[i] = lines[h]
          /\ h = IF i < p \/ Spoiled(p, lines') THEN i ELSE i - 1
    BY <1>7, OtherLineIsOld
  <2>2. PICK k \in 1 .. Len(lines) :
          /\ lines'[j] = lines[k]
          /\ k = IF j < p \/ Spoiled(p, lines') THEN j ELSE j - 1
    BY <1>5, <1>7, OtherLineIsOld
  <2>3. h = k
    BY <1>6, <2>1, <2>2
  <2> QED BY <1>1, <1>5, <1>7, <2>1, <2>2, <2>3
<1> QED BY <1>5, <1>7

(* The new line, if all before it is intact, is behind everything that was *)
(* acknowledged.                                                           *)
LEMMA NewLineIsBehind ==
  ASSUME JournalInv, NEW e, NEW line, NEW p, Writes(e, line, p),
         Inserted(p, line, lines'), NEW k \in 1 .. Len(committed),
         p > 1 => p - 1 \in 1 .. Len(lines) /\ IntactTo(p - 1) /\ lines[p - 1].event = lastHash
  PROVE  Holds(p - 1, committed[k])'
<1>1. p \in 1 .. Len(lines') /\ Len(lines') \in Nat /\ Len(lines) \in Nat /\ Len(committed) \in Nat
  BY LinesAfter, AcknowledgedWith
<1>2. p # 1
  <2> SUFFICES ASSUME p = 1 PROVE FALSE
    OBVIOUS
  <2>1. committed = <<>>
    BY <1>1 DEF Writes, Spoiled, Inserted
  <2> QED BY <2>1
<1>3. p > 1 /\ p - 1 \in Nat /\ p - 1 < p
  BY <1>1, <1>2
<1>4. Holds(p - 1, committed[k])
  BY <1>3 DEF JournalInv, ChainIsBehind
<1>5. committed'[k] = committed[k]
  BY AcknowledgedWith
<1>6. \A h \in 1 .. p - 1 : lines'[h] = lines[h]
  BY LinesAfter
<1> QED BY <1>4, <1>5, <1>6 DEF Holds

(* A write leaves nothing out in front of an intact line.                  *)
LEMMA WriteLeavesNoGap ==
  ASSUME JournalInv, NEW e, NEW line, NEW p, Writes(e, line, p)
  PROVE  IntactHasNoGap'
<1> SUFFICES ASSUME NEW i \in 1 .. Len(lines'), NEW j \in 1 .. Len(committed'),
                    IntactTo(i)', lines'[i].event = committed'[j],
                    NEW k \in 1 .. j - 1
             PROVE  Holds(i - 1, committed[k])'
  BY DEF IntactHasNoGap
<1>1. /\ Len(committed) \in Nat
      /\ \A h \in 1 .. Len(committed) : committed'[h] = committed[h]
      /\ \/ Len(committed') = Len(committed)
         \/ /\ Len(committed') = Len(committed) + 1
            /\ committed'[Len(committed) + 1] = e
  BY AcknowledgedWith
<1>2. k \in 1 .. Len(committed) /\ committed'[k] = committed[k]
  BY <1>1
<1>3. p \in 1 .. Len(lines') /\ Len(lines') \in Nat /\ \A h \in 1 .. p - 1 : lines'[h] = lines[h]
  BY LinesAfter
<1>4. CASE i < p /\ i \in 1 .. Len(lines) /\ IntactTo(i)
  <2>1. lines'[i] = lines[i] /\ \A h \in 1 .. i - 1 : h \in 1 .. p - 1
    BY <1>3, <1>4
  <2>2. i \in 1 .. i
    BY <1>4
  <2>3. lines[i].event \in tried /\ e \notin tried
    BY <1>4, <2>2 DEF IntactTo, JournalInv, TriedBefore, Writes
  <2>4. j \in 1 .. Len(committed) /\ committed[j] = lines[i].event
    BY <1>1, <2>1, <2>3
  <2>5. Holds(i - 1, committed[k])
    BY <1>4, <2>4 DEF JournalInv, IntactHasNoGap
  <2> QED BY <1>2, <1>3, <2>1, <2>5 DEF Holds
<1>5. CASE /\ i = p /\ Inserted(p, line, lines')
           /\ p > 1 => /\ p - 1 \in 1 .. Len(lines) /\ IntactTo(p - 1)
                       /\ lines[p - 1].event = lastHash
  BY <1>2, <1>5, NewLineIsBehind
<1> QED BY <1>4, <1>5, IntactAfter

(* The hash the chain goes on with stays behind what was acknowledged.     *)
LEMMA WriteKeepsChain ==
  ASSUME JournalInv, NEW e, NEW line, NEW p, Writes(e, line, p)
  PROVE  ChainIsBehind'
<1> SUFFICES ASSUME NEW i \in 1 .. Len(lines'), IntactTo(i)', lines'[i].event = lastHash',
                    NEW k \in 1 .. Len(committed')
             PROVE  Holds(i, committed[k])'
  BY DEF ChainIsBehind
<1>1. /\ Len(committed) \in Nat
      /\ \A h \in 1 .. Len(committed) : committed'[h] = committed[h]
      /\ \/ Len(committed') = Len(committed)
         \/ /\ Len(committed') = Len(committed) + 1 /\ lastHash' = e
            /\ committed'[Len(committed) + 1] = e
  BY AcknowledgedWith
<1>2. p \in 1 .. Len(lines') /\ Len(lines') \in Nat /\ \A h \in 1 .. p - 1 : lines'[h] = lines[h]
  BY LinesAfter
<1>3. lastHash \in tried \cup {NoHash} /\ e \notin tried /\ e # NoHash /\ lastHash' \in {lastHash, e}
  BY JournalAssumption DEF JournalInv, TriedBefore, Writes
<1>4. CASE i < p /\ i \in 1 .. Len(lines) /\ IntactTo(i)
  <2>1. lines'[i] = lines[i] /\ \A h \in 1 .. i : h \in 1 .. p - 1
    BY <1>2, <1>4
  <2>2. i \in 1 .. i
    BY <1>4
  <2>3. lines[i].event \in tried
    BY <1>4, <2>2 DEF IntactTo, JournalInv, TriedBefore
  <2>4. lastHash' = lastHash /\ lastHash' # e
    BY <1>3, <2>1, <2>3
  <2>5. k \in 1 .. Len(committed) /\ committed'[k] = committed[k]
    BY <1>1, <2>4
  <2>6. Holds(i, committed[k])
    BY <1>4, <2>1, <2>4, <2>5 DEF JournalInv, ChainIsBehind
  <2> QED BY <1>2, <2>1, <2>5, <2>6 DEF Holds
<1>5. CASE /\ i = p /\ Inserted(p, line, lines') /\ lines'[p].event = e
           /\ p > 1 => /\ p - 1 \in 1 .. Len(lines) /\ IntactTo(p - 1)
                       /\ lines[p - 1].event = lastHash
  <2>1. CASE k \in 1 .. Len(committed)
    <3>1. Holds(p - 1, committed[k])'
      BY <1>5, <2>1, NewLineIsBehind
    <3>2. \A h \in 1 .. p - 1 : h \in 1 .. i
      BY <1>2, <1>5
    <3> QED BY <3>1, <3>2 DEF Holds
  <2>2. CASE k \notin 1 .. Len(committed)
    <3>1. committed'[k] = e
      BY <1>1, <2>2
    <3>2. i \in 1 .. i
      BY <1>2, <1>5
    <3> QED BY <1>5, <3>1, <3>2 DEF Holds
  <2> QED BY <2>1, <2>2
<1> QED BY <1>4, <1>5, IntactAfter

(* An acknowledged event stays in the files, or a line is broken.          *)
LEMMA WriteBreaksWhatIsMissing ==
  ASSUME JournalInv, NEW e, NEW line, NEW p, Writes(e, line, p),
         committed' # committed => line = LineOf(e)
  PROVE  MissingIsBroken'
<1>1. /\ p \in 1 .. Len(lines') /\ Len(lines') \in Nat /\ Len(lines) \in Nat
      /\ \A i \in 1 .. Len(lines) : Readable(lines[i]) =>
           \E j \in 1 .. Len(lines') : lines'[j] = lines[i]
  BY LinesAfter
<1>2. CASE ~Readable(lines'[p])
  BY <1>1, <1>2 DEF MissingIsBroken, Readable
<1>3. CASE Readable(lines'[p])
  <2>1. Inserted(p, line, lines') /\ lines'[p] = LineOf(e) /\ lines'[p].event = e
    BY <1>3, BrokenIsUnreadable DEF Writes, Spoiled, Inserted, LineOf
  <2>2. ASSUME NEW i \in 1 .. Len(lines), ~Readable(lines[i])
        PROVE  \E j \in 1 .. Len(lines') : ~Readable(lines'[j])
    <3>1. CASE i < p
      BY <1>1, <2>1, <2>2, <3>1 DEF Inserted
    <3>2. CASE ~(i < p)
      <4>1. i \in p .. Len(lines) /\ i + 1 \in 1 .. Len(lines')
        BY <1>1, <2>1, <3>2 DEF Inserted
      <4> QED BY <2>1, <2>2, <4>1 DEF Inserted
    <3> QED BY <3>1, <3>2
  <2>3. ASSUME \A i \in 1 .. Len(lines) : Readable(lines[i]), NEW k \in 1 .. Len(committed')
        PROVE  Holds(Len(lines), committed[k])'
    <3>1. CASE k \in 1 .. Len(committed)
      <4>1. Holds(Len(lines), committed[k]) /\ committed'[k] = committed[k]
        BY <2>3, <3>1, AcknowledgedWith DEF JournalInv, MissingIsBroken
      <4> QED BY <1>1, <2>3, <4>1 DEF Holds
    <3>2. CASE k \notin 1 .. Len(committed)
      <4>1. committed'[k] = e
        BY <3>2, AcknowledgedWith
      <4> QED BY <1>1, <2>1, <4>1 DEF Holds
    <3> QED BY <3>1, <3>2
  <2> QED BY <2>2, <2>3 DEF MissingIsBroken, Readable
<1> QED BY <1>2, <1>3

(* What a boot has applied was acknowledged before, or never.              *)
LEMMA BootStaysHonest ==
  ASSUME JournalInv, boot' = boot, NEW e, e \notin tried, tried' = tried \cup {e},
         committed' = committed \/ committed' = Append(committed, e)
  PROVE  BootWasHonest'
<1> SUFFICES ASSUME boot.ok, boot.mode = "STRICT"
             PROVE  /\ HasNoGap(boot.applied)'
                    /\ \A i \in DOMAIN boot.applied : boot.applied[i] \in tried'
  BY DEF BootWasHonest
<1> DEFINE read == boot.applied
<1>1. HasNoGap(read) /\ \A i \in DOMAIN read : read[i] \in tried
  BY DEF JournalInv, BootWasHonest
<1>2. committed \in Seq(Events) /\ Len(committed) \in Nat /\ DOMAIN committed = 1 .. Len(committed)
  BY LenProperties DEF JournalInv, JournalTypes
<1> HIDE DEF read
<1>3. ASSUME NEW i \in DOMAIN read, NEW j \in DOMAIN committed', read[i] = committed'[j],
             NEW k \in 1 .. j - 1
      PROVE  \E h \in 1 .. i - 1 : read[h] = committed'[k]
  <2>1. CASE committed' = committed
    BY <1>1, <1>3, <2>1 DEF HasNoGap
  <2>2. CASE committed' = Append(committed, e)
    <3>1. /\ DOMAIN committed' = 1 .. Len(committed) + 1 /\ committed'[Len(committed) + 1] = e
          /\ \A h \in 1 .. Len(committed) : committed'[h] = committed[h]
      BY <1>2, <2>2
    <3>2. read[i] # e
      BY <1>1, <1>3
    <3>3. j \in 1 .. Len(committed) /\ k \in 1 .. Len(committed)
      BY <1>2, <1>3, <3>1, <3>2
    <3> QED BY <1>1, <1>2, <1>3, <3>1, <3>3 DEF HasNoGap
  <2> QED BY <2>1, <2>2
<1>4. HasNoGap(read)'
  BY <1>1, <1>3 DEF HasNoGap, read
<1> QED BY <1>1, <1>4 DEF read

-------------------------------------------------------------------------------

(* The files with the one the next line goes to.                           *)
LEMMA OpenedIs ==
  ASSUME JournalInv
  PROVE  /\ Target \in Nat /\ Target \in {segment, segment + 1}
         /\ IsEnds(Opened, Len(lines)) /\ Target < Len(Opened) /\ Len(ends) <= Len(Opened)
         /\ Len(ends) \in Nat /\ Len(Opened) \in Nat
         /\ Opened[1] = ends[1] /\ ends[1] \in Nat
         /\ ends[1] = 0 => Target = 0 /\ ~Full
<1>1. /\ IsEnds(ends, Len(lines)) /\ ends \in Seq(Nat) /\ Len(ends) \in Nat \ {0}
      /\ segment \in Nat /\ segment < Len(ends) /\ Len(lines) \in Nat
  BY LenProperties, EmptySeq DEF JournalInv, JournalTypes, IsEnds
<1>2. Target \in 0 .. Len(ends) /\ Target \in {segment, segment + 1}
  BY <1>1 DEF Target
<1>3. /\ IsEnds(Opened, Len(lines)) /\ Target < Len(Opened) /\ Len(ends) <= Len(Opened)
      /\ Opened[1] = ends[1]
  BY <1>1, <1>2, CreateKeepsEnds DEF Opened
<1>4. Opened \in Seq(Nat) /\ Len(Opened) \in Nat
  BY <1>3, LenProperties DEF IsEnds
<1>5. ends[1] \in Nat
  BY <1>1
<1>6. ends[1] = 0 => Target = 0 /\ ~Full
  <2> SUFFICES ASSUME ends[1] = 0 PROVE Target = 0 /\ ~Full
    OBVIOUS
  <2>1. segment = 0 /\ count = 0
    BY DEF JournalInv, StartsEmpty
  <2>2. ~Full
    BY <2>1, JournalAssumption DEF Full
  <2> QED BY <2>1, <2>2 DEF Target
<1> QED BY <1>1, <1>2, <1>3, <1>4, <1>5, <1>6

(* What commit_sync() does to the files is a write in the sense of Writes. *)
LEMMA AWriteWrites ==
  ASSUME JournalInv, NEW e \in Events \ tried,
         NEW line \in {LineOf(e), Broken(Fragment)},
         lines' = Written(Target, line, Opened), tried' = tried \cup {e},
         \/ committed' = committed /\ lastHash' \in {lastHash, e}
         \/ committed' = Append(committed, e) /\ lastHash' = e
  PROVE  /\ \E p : Writes(e, line, p)
         /\ lines' \in Seq(Line)
         /\ IsEnds(Grown(Target, Opened), Len(lines'))
         /\ Len(Grown(Target, Opened)) = Len(Opened)
         /\ Grown(Target, Opened)[1] # 0
<1>1. lines \in Seq(Line)
  BY DEF JournalInv, JournalTypes
<1>2. line \in Line
  <2>1. tried \subseteq Events /\ lastHash \in tried \cup {NoHash}
    BY DEF JournalInv, JournalTypes, TriedBefore
  <2> QED BY <2>1 DEF Line, LineOf, Broken
<1>3. /\ lines' \in Seq(Line)
      /\ IsEnds(Grown(Target, Opened), Len(lines'))
      /\ Len(Grown(Target, Opened)) = Len(Opened)
      /\ \/ Inserted(Opened[Target + 1] + 1, line, lines')
         \/ Spoiled(Opened[Target + 1], lines')
      /\ Grown(Target, Opened)[1] = 0 => Opened[1] = 0 /\ Target > 0
  BY <1>1, <1>2, OpenedIs, WrittenIs
<1>4. Opened[Target + 1] + 1 = 1 => committed = <<>>
  <2> SUFFICES ASSUME Opened[Target + 1] + 1 = 1 PROVE committed = <<>>
    OBVIOUS
  <2>1. /\ Opened[1] \in Nat /\ Opened[Target + 1] \in Nat
        /\ Opened[1] <= Opened[Target + 1]
    <3>1. IsEnds(Opened, Len(lines)) /\ Target \in Nat /\ Target < Len(Opened)
      BY OpenedIs
    <3> QED BY <3>1, FirstEndsFirst
  <2>2. Opened[1] = 0
    BY <2>1
  <2>3. ends[1] = 0
    BY <2>2, OpenedIs
  <2> QED BY <2>3 DEF JournalInv, StartsEmpty
<1>5. \E p : Writes(e, line, p)
  BY <1>3, <1>4 DEF Writes
<1>6. Grown(Target, Opened)[1] # 0
  BY <1>3, OpenedIs
<1> QED BY <1>3, <1>5, <1>6

(* A write, and where the files end after it, keep all of the invariant.   *)
LEMMA AWriteKeeps ==
  ASSUME JournalInv, NEW e \in Events \ tried,
         NEW line \in {LineOf(e), Broken(Fragment)},
         lines' = Written(Target, line, Opened), tried' = tried \cup {e},
         \/ committed' = committed /\ lastHash' \in {lastHash, e}
         \/ committed' = Append(committed, e) /\ lastHash' = e /\ line = LineOf(e),
         IsEnds(ends', Len(lines')), ends'[1] # 0,
         segment' \in Nat, segment' < Len(ends'), listed' \in 1 .. Len(ends'), count' \in Nat,
         boot' = boot
  PROVE  JournalInv'
<1>1. PICK p : Writes(e, line, p)
  BY AWriteWrites
<1>2. JournalTypes'
  <2>1. lines' \in Seq(Line)
    BY AWriteWrites
  <2>2. committed' \in Seq(Events)
    BY <1>1, AcknowledgedWith
  <2>3. tried' \subseteq Events
    BY DEF JournalInv, JournalTypes
  <2> QED BY <2>1, <2>2, <2>3 DEF JournalTypes, IsEnds
<1>3. TriedBefore' /\ WrittenOnce' /\ IntactHasNoGap' /\ ChainIsBehind'
  BY <1>1, WriteIsTried, WriteIsOnce, WriteLeavesNoGap, WriteKeepsChain
<1>4. MissingIsBroken'
  BY <1>1, WriteBreaksWhatIsMissing
<1>5. StartsEmpty'
  BY DEF StartsEmpty
<1>6. BootWasHonest'
  BY BootStaysHonest
<1> QED BY <1>2, <1>3, <1>4, <1>5, <1>6 DEF JournalInv

(* The manifest never counts a segment that has no file.                   *)
LEMMA ListingIs ==
  ASSUME JournalInv, NEW k \in Nat, NEW n \in Nat, k < n, Len(ends) <= n
  PROVE  Listing(k) \in 1 .. n
BY DEF Listing, JournalInv, JournalTypes

(* A line was written, and perhaps the next segment was opened behind it.  *)
LEMMA LineKeepsJournal ==
  ASSUME JournalInv, NEW e \in Events \ tried, NEW next \in {Target, Target + 1},
         Landed(e, next), tried' = tried \cup {e},
         \/ committed' = committed /\ lastHash' \in {lastHash, e}
         \/ committed' = Append(committed, e) /\ lastHash' = e,
         segment' \in {segment, next}, listed' \in {Listing(Target), Listing(next)},
         count' \in Nat, boot' = boot
  PROVE  JournalInv'
<1> DEFINE grown == Grown(Target, Opened)
<1>1. /\ LineOf(e) \in {LineOf(e), Broken(Fragment)}
      /\ lines' = Written(Target, LineOf(e), Opened) /\ ends' = Create(next, grown)
  BY DEF Landed
<1>2. /\ lines' \in Seq(Line) /\ IsEnds(grown, Len(lines'))
      /\ Len(grown) = Len(Opened) /\ grown[1] # 0
  BY <1>1, AWriteWrites
<1>3. /\ Target \in Nat /\ Target < Len(Opened) /\ Len(ends) <= Len(Opened)
      /\ Len(Opened) \in Nat /\ Len(ends) \in Nat
  BY OpenedIs
<1>4. next \in Nat /\ next \in 0 .. Len(grown)
  BY <1>2, <1>3
<1>5. Len(lines') \in Nat
  BY <1>2, LenProperties
<1> HIDE DEF grown
<1>6. /\ IsEnds(ends', Len(lines')) /\ next < Len(ends') /\ Len(grown) <= Len(ends')
      /\ ends'[1] = grown[1]
  BY <1>1, <1>2, <1>4, <1>5, CreateKeepsEnds
<1>7. Len(ends') \in Nat
  BY <1>6, LenProperties DEF IsEnds
<1>8. listed' \in 1 .. Len(ends')
  <2>1. Len(ends) <= Len(ends') /\ Target < Len(ends')
    BY <1>2, <1>3, <1>6, <1>7
  <2>2. Listing(next) \in 1 .. Len(ends')
    BY <1>4, <1>6, <1>7, <2>1, ListingIs
  <2>3. Listing(Target) \in 1 .. Len(ends')
    BY <1>3, <1>7, <2>1, ListingIs
  <2> QED BY <2>2, <2>3
<1>9. segment' \in Nat /\ segment' < Len(ends')
  BY <1>2, <1>3, <1>4, <1>6, <1>7 DEF JournalInv, JournalTypes
<1> QED BY <1>1, <1>2, <1>6, <1>8, <1>9, AWriteKeeps

(* The invariant speaks of these variables only.                           *)
LEMMA SameJournal ==
  ASSUME JournalInv, UNCHANGED <<directory, segment, count, lastHash, committed, tried, boot>>
  PROVE  JournalInv'
<1>0. /\ lines' = lines /\ ends' = ends /\ listed' = listed /\ segment' = segment
      /\ count' = count /\ lastHash' = lastHash /\ committed' = committed /\ tried' = tried
      /\ boot' = boot
  BY DEF directory
<1>1. JournalTypes'
  <2>1. IsEnds(ends, Len(lines))'
    BY <1>0 DEF JournalInv, JournalTypes, IsEnds
  <2> QED BY <1>0, <2>1 DEF JournalInv, JournalTypes
<1>2. TriedBefore'
  BY <1>0 DEF JournalInv, TriedBefore, Readable
<1>3. WrittenOnce'
  BY <1>0 DEF JournalInv, WrittenOnce, Readable
<1>4. IntactHasNoGap' /\ ChainIsBehind'
  <2>1. \A n \in Nat : IntactTo(n)' <=> IntactTo(n)
    BY <1>0 DEF IntactTo, Readable, Follows
  <2>2. \A n, x : Holds(n, x)' <=> Holds(n, x)
    BY <1>0 DEF Holds
  <2>3. 1 .. Len(lines) \subseteq Nat
    OBVIOUS
  <2>4. IntactHasNoGap'
    BY <1>0, <2>1, <2>2, <2>3 DEF JournalInv, IntactHasNoGap
  <2> QED BY <1>0, <2>1, <2>2, <2>3, <2>4 DEF JournalInv, ChainIsBehind
<1>6. StartsEmpty'
  BY <1>0 DEF JournalInv, StartsEmpty
<1>7. MissingIsBroken'
  BY <1>0 DEF JournalInv, MissingIsBroken, Holds, Readable
<1>8. BootWasHonest'
  BY <1>0 DEF JournalInv, BootWasHonest, HasNoGap
<1> QED BY <1>1, <1>2, <1>3, <1>4, <1>6, <1>7, <1>8 DEF JournalInv

(* commit_sync() keeps the invariant,                                      *)
LEMMA CommitKeepsJournal ==
  ASSUME JournalInv, NEW e \in Events, NEW quiescent \in BOOLEAN, Commit(e, quiescent)
  PROVE  JournalInv'
<1> DEFINE next == IF quiescent THEN Target + 1 ELSE Target
<1>1. /\ e \in Events \ tried /\ next \in {Target, Target + 1}
      /\ Landed(e, next) /\ tried' = tried \cup {e}
      /\ committed' = Append(committed, e) /\ lastHash' = e
      /\ segment' = next /\ listed' = Listing(next) /\ boot' = boot
      /\ count' = IF quiescent THEN 0 ELSE IF Full THEN 1 ELSE count + 1
  BY DEF Commit
<1>2. count' \in Nat
  BY <1>1 DEF JournalInv, JournalTypes
<1> HIDE DEF next
<1> QED BY <1>1, <1>2, LineKeepsJournal

(* A part of a line, or a line nobody knows of, was written.               *)
LEMMA PartlyKeepsJournal ==
  ASSUME JournalInv, NEW e \in Events \ tried,
         NEW line \in {LineOf(e), Broken(Fragment)}, Partly(line),
         tried' = tried \cup {e}, committed' = committed, lastHash' \in {lastHash, e},
         segment' \in {segment, Target}, listed' \in {listed, Listing(Target)},
         count' \in {0, count}, boot' = boot
  PROVE  JournalInv'
<1> DEFINE grown == Grown(Target, Opened)
<1>1. lines' = Written(Target, line, Opened) /\ ends' = grown
  BY DEF Partly
<1>2. IsEnds(grown, Len(lines')) /\ Len(grown) = Len(Opened) /\ grown[1] # 0
  BY <1>1, AWriteWrites
<1>3. /\ Target \in Nat /\ Target < Len(Opened) /\ Len(ends) <= Len(Opened)
      /\ Len(Opened) \in Nat /\ Len(ends) \in Nat
  BY OpenedIs
<1>4. /\ segment \in Nat /\ segment < Len(ends) /\ count \in Nat /\ listed \in 1 .. Len(ends)
  BY DEF JournalInv, JournalTypes
<1>5. Listing(Target) \in 1 .. Len(Opened)
  BY <1>3, ListingIs
<1> HIDE DEF grown
<1>6. /\ segment' \in Nat /\ segment' < Len(ends') /\ listed' \in 1 .. Len(ends')
      /\ count' \in Nat
  BY <1>1, <1>2, <1>3, <1>4, <1>5
<1> QED BY <1>1, <1>2, <1>6, AWriteKeeps

(* Nothing was written; the hash of the chain may be that of the lost      *)
(* line, and the segment it was meant for may have been opened.            *)
LEMMA LostKeepsJournal ==
  ASSUME JournalInv, NEW e \in Events \ tried, UNCHANGED <<lines, committed, boot>>,
         ends' = Opened, tried' = tried \cup {e}, lastHash' \in {lastHash, e},
         segment' \in {segment, Target}, listed' \in {listed, Listing(Target)},
         count' \in {count, IF Full THEN 0 ELSE count}
  PROVE  JournalInv'
<1>1. /\ Target \in Nat /\ Target < Len(Opened) /\ Len(ends) <= Len(Opened)
      /\ Len(Opened) \in Nat /\ Len(ends) \in Nat /\ IsEnds(Opened, Len(lines))
      /\ Opened[1] = ends[1]
      /\ ends[1] = 0 => Target = 0 /\ ~Full
  BY OpenedIs
<1>2. /\ segment \in Nat /\ segment < Len(ends) /\ count \in Nat /\ listed \in 1 .. Len(ends)
      /\ lines \in Seq(Line) /\ committed \in Seq(Events) /\ tried \subseteq Events
  BY DEF JournalInv, JournalTypes
<1>3. Listing(Target) \in 1 .. Len(Opened)
  BY <1>1, ListingIs
<1>4. JournalTypes'
  <2>1. listed' \in 1 .. Len(ends') /\ count' \in Nat
    BY <1>1, <1>2, <1>3
  <2>2. ends' = Opened /\ lines' = lines
    OBVIOUS
  <2>3. IsEnds(ends, Len(lines))'
    BY <1>1, <2>2 DEF IsEnds
  <2>4. segment' \in Nat /\ segment' < Len(ends')
    BY <1>1, <1>2, <2>2
  <2>5. lines' \in Seq(Line) /\ committed' \in Seq(Events) /\ tried' \subseteq Events
    BY <1>2
  <2> QED BY <2>1, <2>3, <2>4, <2>5 DEF JournalTypes
<1>5. TriedBefore' /\ WrittenOnce'
  BY DEF JournalInv, TriedBefore, WrittenOnce, Readable
<1>6. \A i \in 1 .. Len(lines) : IntactTo(i)' <=> IntactTo(i)
  BY DEF IntactTo, Readable, Follows
<1>7. IntactHasNoGap'
  BY <1>6 DEF JournalInv, IntactHasNoGap, Holds
<1>8. ASSUME NEW i \in 1 .. Len(lines), IntactTo(i) PROVE lines[i].event # e
  <2>1. i \in 1 .. i /\ Readable(lines[i])
    BY <1>2, <1>8, LenProperties DEF IntactTo
  <2> QED BY <2>1 DEF JournalInv, TriedBefore
<1>9. ChainIsBehind'
  <2>1. CASE lastHash' = e
    BY <1>6, <1>8, <2>1 DEF ChainIsBehind
  <2>2. CASE lastHash' = lastHash
    BY <1>6, <2>2 DEF JournalInv, ChainIsBehind, Holds
  <2> QED BY <2>1, <2>2
<1>10. StartsEmpty'
  <2>1. ends[1] = 0 => Target = 0 /\ ~Full
    BY <1>1
  <2> QED BY <1>1, <2>1 DEF JournalInv, StartsEmpty
<1>11. MissingIsBroken'
  BY DEF JournalInv, MissingIsBroken, Holds, Readable
<1>12. BootWasHonest'
  BY BootStaysHonest
<1> QED BY <1>4, <1>5, <1>7, <1>9, <1>10, <1>11, <1>12 DEF JournalInv

(* and so does one that raises, wherever it does,                          *)
LEMMA CommitFailsKeepsJournal ==
  ASSUME JournalInv, NEW e \in Events, NEW fault \in FaultKinds, CommitFails(e, fault)
  PROVE  JournalInv'
<1>1. /\ e \in Events \ tried /\ tried' = tried \cup {e} /\ committed' = committed
      /\ lastHash' = e /\ listed' \in {listed, Listing(Target)}
      /\ count' = (IF Full \/ fault = "unrotated" THEN 0 ELSE count) /\ boot' = boot
  BY DEF CommitFails, AfterFailure
<1>2. CASE fault = "unrotated"
  <2>1. /\ Landed(e, Target + 1)
        /\ segment' = Target + 1 /\ listed' = Listing(Target) /\ count' = 0
    BY <1>2 DEF CommitFails
  <2>2. Target + 1 \in {Target, Target + 1} /\ count' \in Nat
    BY <2>1
  <2> QED BY <1>1, <2>1, <2>2, LineKeepsJournal
<1>3. CASE fault # "unrotated"
  <2>1. /\ segment' = Target /\ count' = (IF Full THEN 0 ELSE count)
        /\ \/ Partly(LineOf(e)) \/ Partly(Broken(Fragment))
           \/ lines' = lines /\ ends' = Opened
    BY <1>3 DEF CommitFails
  <2>2. CASE Partly(LineOf(e))
    BY <1>1, <2>1, <2>2, PartlyKeepsJournal
  <2>3. CASE Partly(Broken(Fragment))
    BY <1>1, <2>1, <2>3, PartlyKeepsJournal
  <2>4. CASE lines' = lines /\ ends' = Opened
    BY <1>1, <2>1, <2>4, LostKeepsJournal
  <2> QED BY <2>1, <2>2, <2>3, <2>4
<1> QED BY <1>2, <1>3

(* and the death of the process, between two commits or inside one.        *)
LEMMA DieKeepsJournal ==
  ASSUME JournalInv, Die
  PROVE  JournalInv'
<1>1. UNCHANGED <<segment, count, lastHash, committed, boot>>
  BY DEF Die
<1>2. CASE UNCHANGED <<directory, tried>>
  BY <1>1, <1>2, SameJournal
<1>3. ASSUME NEW e \in Events \ tried, tried' = tried \cup {e},
             Partly(LineOf(e)) \/ Partly(Broken(Fragment)), listed' = Listing(Target)
      PROVE  JournalInv'
  BY <1>1, <1>3, PartlyKeepsJournal
<1>4. ASSUME NEW e \in Events \ tried, tried' = tried \cup {e},
             Full, ends' = Opened, UNCHANGED <<lines, listed>>
      PROVE  JournalInv'
  BY <1>1, <1>4, LostKeepsJournal
<1>5. ASSUME NEW e \in Events \ tried, tried' = tried \cup {e}, Landed(e, Target + 1),
             listed' \in {Listing(Target), Listing(Target + 1)}
      PROVE  JournalInv'
  <2>1. count' \in Nat
    BY <1>1 DEF JournalInv, JournalTypes
  <2> QED BY <1>1, <1>5, <2>1, LineKeepsJournal
<1> QED BY <1>2, <1>3, <1>4, <1>5 DEF Die

-------------------------------------------------------------------------------
(* What the reader makes of the lines                                       *)

(* The lines of the first n files are those up to the end of file n.       *)
LEMMA LinesIs ==
  ASSUME JournalTypes, NEW n \in 1 .. Len(ends)
  PROVE  /\ ends[n] \in 0 .. Len(lines) /\ Len(lines) \in Nat
         /\ Lines(n) \in Seq(Line) /\ Len(Lines(n)) = ends[n]
         /\ DOMAIN Lines(n) = 1 .. ends[n]
         /\ \A i \in 1 .. ends[n] : Lines(n)[i] = lines[i]
         /\ n = Len(ends) => ends[n] = Len(lines)
<1>1. lines \in Seq(Line) /\ Len(lines) \in Nat
  BY LenProperties DEF JournalTypes
<1>2. ends[n] \in 0 .. Len(lines) /\ (n = Len(ends) => ends[n] = Len(lines))
  <2>1. /\ ends \in Seq(Nat) /\ Len(ends) \in 1 .. Len(ends) /\ n <= Len(ends)
        /\ ends[Len(ends)] = Len(lines)
    BY LenProperties DEF JournalTypes, IsEnds
  <2>2. \A i, j \in 1 .. Len(ends) : i <= j => ends[i] <= ends[j]
    BY DEF JournalTypes, IsEnds
  <2>3. ends[n] \in Nat
    BY <2>1
  <2> QED BY <1>1, <2>1, <2>2, <2>3
<1>3. \A i \in 1 .. ends[n] : lines[i] \in Line
  BY <1>1, <1>2
<1>4. /\ Lines(n) \in Seq(Line)
      /\ Len(Lines(n)) = IF 1 <= ends[n] THEN ends[n] - 1 + 1 ELSE 0
      /\ \A i \in 1 .. ends[n] - 1 + 1 : Lines(n)[i] = lines[1 + i - 1]
  BY <1>2, <1>3, SubSeqProperties DEF Lines
<1>5. Len(Lines(n)) = ends[n] /\ \A i \in 1 .. ends[n] : Lines(n)[i] = lines[i]
  BY <1>2, <1>4
<1>6. DOMAIN Lines(n) = 1 .. ends[n]
  BY <1>4, <1>5, LenProperties
<1> QED BY <1>1, <1>2, <1>4, <1>5, <1>6

(* The first n lines of what is read are the first n lines.                *)
LEMMA IntactIs ==
  ASSUME JournalTypes, NEW n \in Nat, NEW ls \in Seq(Line), Len(ls) = n,
         \A i \in 1 .. n : ls[i] = lines[i]
  PROVE  Intact(ls) <=> IntactTo(n)
<1>1. DOMAIN ls = 1 .. n /\ \A i \in 1 .. n : i > 1 => i - 1 \in 1 .. n
  BY LenProperties
<1> QED BY <1>1 DEF Intact, IntactTo, Readable, Follows

(* Reading intact lines in their order leaves no gap.                      *)
LEMMA IntactReadHasNoGap ==
  ASSUME JournalInv, NEW n \in 0 .. Len(lines), IntactTo(n),
         NEW read, DOMAIN read = 1 .. n, \A i \in 1 .. n : read[i] = lines[i].event
  PROVE  HasNoGap(read)
<1>1. Len(lines) \in Nat /\ Len(committed) \in Nat /\ DOMAIN committed = 1 .. Len(committed)
  BY LenProperties DEF JournalInv, JournalTypes
<1>2. \A i \in 1 .. n : i \in 1 .. Len(lines) /\ Readable(lines[i])
  BY <1>1 DEF IntactTo
<1>3. IsInjective(read)
  BY <1>2 DEF JournalInv, WrittenOnce, IsInjective
<1>4. ASSUME NEW i \in 1 .. n, NEW j \in 1 .. Len(committed), read[i] = committed[j],
             NEW k \in 1 .. j - 1
      PROVE  \E h \in 1 .. i - 1 : read[h] = committed[k]
  <2>1. IntactTo(i)
    <3>1. \A h \in 1 .. i : h \in 1 .. n
      BY <1>1
    <3> QED BY <3>1 DEF IntactTo
  <2>2. Holds(i - 1, committed[k])
    BY <1>2, <1>4, <2>1 DEF JournalInv, IntactHasNoGap
  <2>3. \A h \in 1 .. i - 1 : h \in 1 .. n
    BY <1>1
  <2> QED BY <2>2, <2>3 DEF Holds
<1> QED BY <1>1, <1>3, <1>4 DEF HasNoGap

(* SALVAGE stops behind an intact line.                                    *)
LEMMA SalvageIs ==
  ASSUME JournalTypes, NEW n \in 1 .. Len(ends)
  PROVE  \E m \in 0 .. ends[n] :
           /\ IntactTo(m)
           /\ DOMAIN ReadDeltas("SALVAGE", Lines(n)) = 1 .. m
           /\ \A i \in 1 .. m : ReadDeltas("SALVAGE", Lines(n))[i] = lines[i].event
<1> DEFINE ls == Lines(n)
           S == {m \in 0 .. Len(ls) : Intact(SubSeq(ls, 1, m))}
           read == ReadDeltas("SALVAGE", ls)
<1>1. /\ ends[n] \in 0 .. Len(lines) /\ Len(lines) \in Nat /\ ls \in Seq(Line)
      /\ Len(ls) = ends[n] /\ \A i \in 1 .. ends[n] : ls[i] = lines[i]
  BY LinesIs
<1> HIDE DEF ls
<1>2. ASSUME NEW m \in 0 .. Len(ls)
      PROVE  /\ SubSeq(ls, 1, m) \in Seq(Line) /\ Len(SubSeq(ls, 1, m)) = m
             /\ \A i \in 1 .. m : SubSeq(ls, 1, m)[i] = lines[i]
             /\ Intact(SubSeq(ls, 1, m)) <=> IntactTo(m)
  <2>1. \A i \in 1 .. m : ls[i] \in Line /\ ls[i] = lines[i]
    BY <1>1
  <2>2. /\ SubSeq(ls, 1, m) \in Seq(Line)
        /\ Len(SubSeq(ls, 1, m)) = IF 1 <= m THEN m - 1 + 1 ELSE 0
        /\ \A i \in 1 .. m - 1 + 1 : SubSeq(ls, 1, m)[i] = ls[1 + i - 1]
    BY <1>1, <2>1, SubSeqProperties
  <2> DEFINE front == SubSeq(ls, 1, m)
  <2>3. m \in Nat /\ Len(front) = m /\ \A i \in 1 .. m : front[i] = lines[i]
    BY <1>1, <2>1, <2>2
  <2> HIDE DEF front
  <2>4. front \in Seq(Line)
    BY <2>2 DEF front
  <2>5. Intact(front) <=> IntactTo(m)
    BY <2>3, <2>4, IntactIs
  <2> QED BY <2>3, <2>4, <2>5 DEF front
<1>3. 0 \in S
  <2>1. 0 \in 0 .. Len(ls)
    BY <1>1
  <2>2. Intact(SubSeq(ls, 1, 0))
    BY <1>2, <2>1 DEF IntactTo
  <2> QED BY <2>1, <2>2
<1> DEFINE m == Max(S)
<1>4. m \in S
  <2>1. S \subseteq 0 .. Len(ls) /\ Len(ls) \in Nat /\ S # {}
    BY <1>1, <1>3
  <2> HIDE DEF S
  <2> QED BY <2>1, MaxOfBounded
<1>5. m = IntactLines(ls)
  BY DEF IntactLines
<1> HIDE DEF m
<1>6. m \in 0 .. Len(ls) /\ Intact(SubSeq(ls, 1, m))
  BY <1>4
<1>7. IntactTo(m)
  BY <1>2, <1>6
<1>8. read = EventsOf(SubSeq(ls, 1, m))
  BY <1>5 DEF ReadDeltas, Salvaged
<1>9. DOMAIN SubSeq(ls, 1, m) = 1 .. m
  BY <1>1, <1>2, <1>6, LenProperties
<1>10. DOMAIN read = 1 .. m /\ \A i \in 1 .. m : read[i] = lines[i].event
  BY <1>2, <1>6, <1>8, <1>9 DEF EventsOf
<1> QED BY <1>1, <1>6, <1>7, <1>10 DEF ls

(* STRICT yields the lines if they are intact.                             *)
LEMMA StrictIs ==
  ASSUME JournalTypes, NEW n \in 1 .. Len(ends), Intact(Lines(n))
  PROVE  /\ IntactTo(ends[n])
         /\ DOMAIN ReadDeltas("STRICT", Lines(n)) = 1 .. ends[n]
         /\ \A i \in 1 .. ends[n] : ReadDeltas("STRICT", Lines(n))[i] = lines[i].event
<1>1. /\ ends[n] \in 0 .. Len(lines) /\ Len(lines) \in Nat /\ Lines(n) \in Seq(Line)
      /\ Len(Lines(n)) = ends[n] /\ DOMAIN Lines(n) = 1 .. ends[n]
      /\ \A i \in 1 .. ends[n] : Lines(n)[i] = lines[i]
  BY LinesIs
<1>2. IntactTo(ends[n])
  BY <1>1, IntactIs
<1>3. ReadDeltas("STRICT", Lines(n)) = EventsOf(Lines(n))
  BY DEF ReadDeltas
<1> QED BY <1>1, <1>2, <1>3 DEF EventsOf

(* A recovery boot keeps the invariant: what STRICT accepts has no gap.    *)
LEMMA BootKeepsJournal ==
  ASSUME JournalInv, NEW mode \in Modes, NEW failing, Boot(mode, failing)
  PROVE  JournalInv'
<1>1. /\ UNCHANGED <<lines, ends, committed, tried>>
      /\ segment' = 0 /\ count' = 0 /\ lastHash' = NoHash /\ listed' = 1
  BY DEF Boot, Reopen
<1>2. /\ ends \in Seq(Nat) /\ Len(ends) \in Nat \ {0} /\ 1 \in 1 .. Len(ends)
  BY LenProperties, EmptySeq DEF JournalInv, JournalTypes, IsEnds
<1>3. JournalTypes'
  BY <1>1, <1>2 DEF JournalInv, JournalTypes, IsEnds
<1>4. TriedBefore' /\ WrittenOnce'
  BY <1>1 DEF JournalInv, TriedBefore, WrittenOnce, Readable
<1>5. \A i \in 1 .. Len(lines) : IntactTo(i)' <=> IntactTo(i)
  BY <1>1 DEF IntactTo, Readable, Follows
<1>6. IntactHasNoGap'
  BY <1>1, <1>5 DEF JournalInv, IntactHasNoGap, Holds
<1>7. ChainIsBehind'
  <2>1. ASSUME NEW i \in 1 .. Len(lines), IntactTo(i) PROVE lines[i].event # NoHash
    <3>1. i \in 1 .. i /\ Readable(lines[i])
      BY <2>1, LenProperties DEF IntactTo, JournalInv, JournalTypes
    <3> QED BY <3>1, JournalAssumption DEF Readable
  <2> QED BY <1>1, <1>5, <2>1 DEF ChainIsBehind
<1>8. StartsEmpty'
  BY <1>1 DEF JournalInv, StartsEmpty
<1>9. MissingIsBroken'
  BY <1>1 DEF JournalInv, MissingIsBroken, Holds, Readable
<1>10. BootWasHonest'
  <2> DEFINE ls == Lines(1)
             read == ReadDeltas(mode, ls)
             applied == Dispatched(read, failing)
  <2>1. boot' = [mode |-> mode, applied |-> applied,
                 ok |-> Succeeded(mode, ls, read, applied)]
    BY DEF Boot
  <2> HIDE DEF ls, read, applied
  <2> SUFFICES ASSUME boot'.ok, boot'.mode = "STRICT"
               PROVE  /\ HasNoGap(boot.applied)'
                      /\ \A i \in DOMAIN boot'.applied : boot'.applied[i] \in tried'
    BY DEF BootWasHonest
  <2>2. mode = "STRICT" /\ Intact(ls) /\ applied = read /\ boot'.applied = applied
    BY <2>1 DEF Succeeded
  <2>3. /\ IntactTo(ends[1]) /\ DOMAIN read = 1 .. ends[1]
        /\ \A i \in 1 .. ends[1] : read[i] = lines[i].event
    BY <1>2, <2>2, StrictIs DEF JournalInv, ls, read
  <2>4. ends[1] \in 0 .. Len(lines) /\ Len(lines) \in Nat
    BY <1>2, LinesIs DEF JournalInv
  <2>5. HasNoGap(read)
    BY <2>3, <2>4, IntactReadHasNoGap
  <2>6. \A i \in 1 .. ends[1] : i \in 1 .. Len(lines) /\ Readable(lines[i])
    BY <2>3, <2>4 DEF IntactTo
  <2>7. \A i \in 1 .. ends[1] : read[i] \in tried
    BY <2>3, <2>6 DEF JournalInv, TriedBefore
  <2>8. HasNoGap(boot.applied)'
    BY <1>1, <2>2, <2>5 DEF HasNoGap
  <2> QED BY <1>1, <2>2, <2>3, <2>7, <2>8
<1> QED BY <1>3, <1>4, <1>6, <1>7, <1>8, <1>9, <1>10 DEF JournalInv

(* The journal of a new session.                                           *)
LEMMA JournalStarts == Init => JournalInv
<1> SUFFICES ASSUME Init PROVE JournalInv
  OBVIOUS
<1>1. /\ lines = <<>> /\ ends = <<0>> /\ listed = 1 /\ segment = 0 /\ count = 0
      /\ lastHash = NoHash /\ committed = <<>> /\ tried = {} /\ boot = NoBoot
  BY DEF Init
<1>2. Len(lines) = 0 /\ Len(committed) = 0 /\ Len(ends) = 1 /\ ends[1] = 0
  BY <1>1
<1>3. JournalTypes
  BY <1>1, <1>2 DEF JournalTypes, IsEnds
<1>4. TriedBefore /\ WrittenOnce /\ IntactHasNoGap /\ ChainIsBehind /\ StartsEmpty
  BY <1>1, <1>2 DEF TriedBefore, WrittenOnce, IntactHasNoGap, ChainIsBehind, StartsEmpty
<1>5. MissingIsBroken
  BY <1>2 DEF MissingIsBroken
<1>6. BootWasHonest
  <2>1. boot.applied = <<>> /\ DOMAIN boot.applied = {}
    BY <1>1 DEF NoBoot
  <2> QED BY <2>1 DEF BootWasHonest, HasNoGap, IsInjective
<1> QED BY <1>3, <1>4, <1>5, <1>6 DEF JournalInv

(* Each step keeps the invariant.                                          *)
LEMMA JournalStep == JournalInv /\ [Next]_vars => JournalInv'
<1> SUFFICES ASSUME JournalInv, [Next]_vars PROVE JournalInv'
  OBVIOUS
<1>1. ASSUME NEW e \in Events, NEW quiescent \in BOOLEAN, Commit(e, quiescent)
      PROVE  JournalInv'
  BY <1>1, CommitKeepsJournal
<1>2. ASSUME NEW e \in Events, NEW fault \in FaultKinds, CommitFails(e, fault)
      PROVE  JournalInv'
  BY <1>2, CommitFailsKeepsJournal
<1>3. CASE Die
  BY <1>3, DieKeepsJournal
<1>4. ASSUME NEW mode \in Modes, NEW failing \in SUBSET Events, Boot(mode, failing)
      PROVE  JournalInv'
  BY <1>4, BootKeepsJournal
<1>5. CASE UNCHANGED vars
  BY <1>5, SameJournal DEF vars, writer
<1> QED BY <1>1, <1>2, <1>3, <1>4, <1>5 DEF Next

(* The inductive invariant of the event journal: what is intact in the     *)
(* files has no gap, and the chain goes on behind all that was             *)
(* acknowledged, however commits fail and processes die.                   *)
THEOREM JournalInvariant == Spec => []JournalInv
BY JournalStarts, JournalStep, PTL DEF Spec

(* What SALVAGE reads back holds, of the events whose commit_sync()        *)
(* returned, the first ones in their order: for any events, any length of  *)
(* a segment, any number of failed commits, of crashes and of recoveries.  *)
THEOREM SalvageNeverSkips == Spec => []SalvageHasNoGaps
<1>1. ASSUME JournalInv PROVE SalvageHasNoGaps
  <2> DEFINE read == ReadDeltas("SALVAGE", Lines(listed))
  <2>1. PICK m \in 0 .. ends[listed] :
          /\ IntactTo(m) /\ DOMAIN read = 1 .. m
          /\ \A i \in 1 .. m : read[i] = lines[i].event
    BY <1>1, SalvageIs DEF JournalInv, JournalTypes
  <2>2. ends[listed] \in 0 .. Len(lines) /\ Len(lines) \in Nat
    BY <1>1, LinesIs DEF JournalInv, JournalTypes
  <2> HIDE DEF read
  <2>3. m \in 0 .. Len(lines)
    BY <2>1, <2>2
  <2>4. HasNoGap(read)
    BY <1>1, <2>1, <2>3, IntactReadHasNoGap
  <2> QED BY <2>4 DEF SalvageHasNoGaps, read
<1> QED BY <1>1, JournalInvariant, PTL

(* A directory STRICT accepts, all of whose segments are in the manifest,  *)
(* yields every event whose commit_sync() returned, in order.              *)
THEOREM StrictMissesNothing == Spec => []StrictIsComplete
<1>1. ASSUME JournalInv PROVE StrictIsComplete
  <2> DEFINE read == ReadDeltas("STRICT", Lines(listed))
  <2> SUFFICES ASSUME listed = Len(ends), Intact(Lines(listed))
               PROVE  HasNoGap(read) /\ IsComplete(read)
    BY DEF StrictIsComplete
  <2>1. /\ ends[listed] = Len(lines) /\ Len(lines) \in Nat /\ listed \in 1 .. Len(ends)
    BY <1>1, LinesIs DEF JournalInv, JournalTypes
  <2>2. /\ IntactTo(Len(lines)) /\ DOMAIN read = 1 .. Len(lines)
        /\ \A i \in 1 .. Len(lines) : read[i] = lines[i].event
    BY <1>1, <2>1, StrictIs DEF JournalInv
  <2> HIDE DEF read
  <2>3. HasNoGap(read)
    <3>1. Len(lines) \in 0 .. Len(lines)
      BY <2>1
    <3> QED BY <1>1, <2>2, <3>1, IntactReadHasNoGap
  <2>4. ASSUME NEW k \in 1 .. Len(committed)
        PROVE  \E i \in DOMAIN read : read[i] = committed[k]
    BY <1>1, <2>2 DEF JournalInv, MissingIsBroken, Holds, IntactTo
  <2>5. DOMAIN committed = 1 .. Len(committed)
    BY <1>1, LenProperties DEF JournalInv, JournalTypes
  <2>6. IsComplete(read)
    BY <2>4, <2>5 DEF IsComplete, Range
  <2> QED BY <2>3, <2>6
<1> QED BY <1>1, JournalInvariant, PTL

(* A STRICT recovery boot that reports success has applied the beginning   *)
(* of what the session had acknowledged, without a gap.                    *)
THEOREM BootNeverPretends == Spec => []BootIsHonest
<1>1. JournalInv => BootIsHonest
  BY DEF JournalInv, BootWasHonest, BootIsHonest
<1> QED BY <1>1, JournalInvariant, PTL
===============================================================================
