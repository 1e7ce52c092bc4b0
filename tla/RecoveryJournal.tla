--------------------------- MODULE RecoveryJournal ---------------------------
(***************************************************************************)
(* The kernel's write-ahead log of intent transitions                      *)
(* (core/execution/recovery_journal.py) and its analysis                   *)
(* (core/replay/replay_coordinator.py).                                    *)
(*                                                                         *)
(* The analysis folds the file per intent, so the file is kept as one      *)
(* lineage per intent.  log_transition() writes a line, flushes and fsyncs.*)
(* When it raises, the line may still be on its way: it may already be in  *)
(* the file (only fsync failed), or wait in the file object's buffer and   *)
(* reach the file in front of the next line, with a prefix of it on disk   *)
(* or not.  A kernel crash drops the buffer; a prefix it leaves at the end *)
(* of the file is glued to the next line, and neither can be parsed.       *)
(***************************************************************************)
EXTENDS IntentLifecycle

CONSTANT MaxWalFaults   \* bound on the number of log_transition() failures

VARIABLES wal,        \* wal[i]: the states of intent i's parsable lines
          buffer,     \* buffer[i]: states written to the file object only
          tail,       \* how the file ends: "whole", "partial" or "torn"
          garbled,    \* the file holds a line that does not parse
          walFaults   \* number of failures so far

journalVars == <<wal, buffer, tail, garbled, walFaults>>

ASSUME WalFaultsAssumption == MaxWalFaults \in Nat

NoLines == [i \in Intents |-> <<>>]

JournalInit ==
  /\ wal = NoLines
  /\ buffer = NoLines
  /\ tail = "whole"
  /\ garbled = FALSE
  /\ walFaults = 0

JournalTypeOK ==
  /\ wal \in [Intents -> Seq(IntentExecutionState)]
  /\ buffer \in [Intents -> Seq(IntentExecutionState)]
  /\ tail \in {"whole", "partial", "torn"}
  /\ garbled \in BOOLEAN
  /\ walFaults \in 0 .. MaxWalFaults

(* The lines the next successful flush hands to the file: what is already  *)
(* buffered, then the line of this call.                                   *)
Outgoing(i, s) == [buffer EXCEPT ![i] = Append(@, s)]

(* A flush that reaches the file.  Behind a torn line the first outgoing   *)
(* line is lost with it; which intent's line came first is left open.      *)
Flush(i, s) ==
  LET out == Outgoing(i, s) IN
  /\ buffer' = NoLines
  /\ tail' = "whole"
  /\ \/ /\ tail # "torn"
        /\ wal' = [j \in Intents |-> wal[j] \o out[j]]
        /\ UNCHANGED garbled
     \/ /\ tail = "torn"
        /\ garbled' = TRUE
        /\ \E first \in Intents :
              /\ out[first] # <<>>
              /\ wal' = [j \in Intents |->
                           wal[j] \o IF j = first THEN Tail(out[j]) ELSE out[j]]

(* log_transition() returns.                                               *)
LogReturns(i, s) == Flush(i, s) /\ UNCHANGED walFaults

(* log_transition() raises "WAL Persistence Barrier failed".               *)
LogRaises(i, s) ==
  /\ walFaults < MaxWalFaults
  /\ walFaults' = walFaults + 1
  /\ \/ Flush(i, s)                             \* only fsync failed
     \/ /\ buffer' = Outgoing(i, s)             \* the flush failed
        /\ tail' \in IF tail = "torn" THEN {"torn"} ELSE {tail, "partial"}
        /\ UNCHANGED <<wal, garbled>>

(* The process that holds the file object dies.                            *)
JournalCrash ==
  /\ buffer' = NoLines
  /\ tail' = IF tail = "partial" THEN "torn" ELSE tail
  /\ UNCHANGED <<wal, garbled, walFaults>>

(* analyze_lineage() reports no divergence: every line parses and every    *)
(* step from a line to the next line of its intent is legal.  The first    *)
(* line of an intent is not compared with anything.                        *)
NoDivergence ==
  /\ tail = "whole"
  /\ ~garbled
  /\ \A i \in Intents : \A k \in 2 .. Len(wal[i]) : CanGo(wal[i][k - 1], wal[i][k])
==============================================================================
