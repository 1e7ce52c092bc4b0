----------------------------- MODULE EventJournal -----------------------------
(***************************************************************************)
(* The hash-chained event journal of a session (RecoveryJournal in         *)
(* core/replay/event_recorder.py), what a crash leaves of it, and the      *)
(* recovery boot that opens it again (core/state/runtime_store.py) and     *)
(* replays it (core/replay/replay_engine.py).                              *)
(*                                                                         *)
(* The files are read one after the other, so they are kept as one         *)
(* sequence of lines and the positions at which they end.  A line is its   *)
(* event and the hash it is chained to; the hash of a line is named by its *)
(* event, for hashes do not collide and an event is committed once.  A     *)
(* file ends in a Fragment when its last line has no newline; what is      *)
(* written behind it becomes Garbage with it.  A line kept in the text     *)
(* buffer of a failed flush() goes to the file with the next one, in front *)
(* of it, or never: the landed or the lost line.                           *)
(***************************************************************************)
EXTENDS Naturals, FiniteSets, Sequences, SequencesExt

CONSTANTS Events,
          SegmentEvents,  \* MAX_SEGMENT_EVENTS
          FaultKinds,     \* how commit_sync() may fail
          MaxFaults, MaxReopens, \* bounds
          NoHash, Fragment, Garbage

ASSUME JournalAssumption ==
  /\ IsFiniteSet(Events)
  /\ SegmentEvents \in Nat \ {0}
  /\ FaultKinds \subseteq {"lost", "landed", "torn", "unlisted", "unrotated"}
  /\ {MaxFaults, MaxReopens} \subseteq Nat
  /\ {NoHash, Fragment, Garbage} \cap Events = {}
  /\ Cardinality({NoHash, Fragment, Garbage}) = 3

VARIABLES lines,      \* the lines of the files k.jsonl, as they follow each other
          ends,       \* ends[k + 1]: how many of them precede the end of file k
          listed,     \* segment_count in the manifest
          isOpen,     \* a process has the journal open
          segment,    \* _segment_index
          count,      \* _current_segment_events
          lastHash,   \* _last_hash
          committed,  \* the events whose commit_sync() returned, in order (history)
          tried,      \* the events somebody tried to commit (history)
          faults, reopens,
          boot        \* what the last recovery boot applied and answered

directory == <<lines, ends, listed>>
writer == <<isOpen, segment, count, lastHash>>
vars == <<directory, writer, committed, tried, faults, reopens, boot>>

Line == [event : Events \cup {Fragment, Garbage}, prev : Events \cup {NoHash}]
Modes == {"STRICT", "DIAGNOSTIC", "SALVAGE"}
NoBoot == [mode |-> "STRICT", ok |-> TRUE, applied |-> <<>>]

Init ==
  /\ lines = <<>> /\ ends = <<0>> /\ listed = 1
  /\ isOpen = TRUE /\ segment = 0 /\ count = 0 /\ lastHash = NoHash
  /\ committed = <<>> /\ tried = {}
  /\ faults = 0 /\ reopens = 0
  /\ boot = NoBoot

TypeOK ==
  /\ lines \in Seq(Line) /\ ends \in Seq(0 .. Len(lines))
  /\ listed \in DOMAIN ends
  /\ isOpen \in BOOLEAN /\ segment + 1 \in DOMAIN ends
  /\ count \in 0 .. SegmentEvents
  /\ lastHash \in Events \cup {NoHash}
  /\ committed \in Seq(Events) /\ tried \subseteq Events
  /\ faults \in 0 .. MaxFaults /\ reopens \in 0 .. MaxReopens
  /\ boot \in [mode : Modes, ok : BOOLEAN, applied : Seq(Events)]

-------------------------------------------------------------------------------
(* Files                                                                    *)

(* open(..., "a"): the file of segment k exists from then on.              *)
Create(k, es) == IF k < Len(es) THEN es ELSE Append(es, Last(es))

Broken(what) == [event |-> what, prev |-> NoHash]

EndsTorn(k, es) ==
  /\ es[k + 1] > (IF k = 0 THEN 0 ELSE es[k])
  /\ lines[es[k + 1]] = Broken(Fragment)

(* What is written behind a fragment is one unreadable line with it.       *)
Glued(line) == IF line = Broken(Fragment) THEN line ELSE Broken(Garbage)

Written(k, line, es) ==
  IF EndsTorn(k, es) THEN ReplaceAt(lines, es[k + 1], Glued(line))
                     ELSE InsertAt(lines, es[k + 1] + 1, line)

(* The ends of the files once a line is written to file k.                 *)
Grown(k, es) ==
  [n \in DOMAIN es |-> IF n > k /\ ~EndsTorn(k, es) THEN es[n] + 1 ELSE es[n]]

-------------------------------------------------------------------------------
(* commit_sync()                                                            *)

(* The ceiling of bytes is left out: it only rotates earlier.              *)
Full == count >= SegmentEvents

(* The segment this commit writes to: _rotate_segment() precedes the write. *)
Target == IF Full THEN segment + 1 ELSE segment

(* Mutant: a failed commit looks like a success.                           *)
SwallowedBy(e) == Append(committed, e)

(* _update_manifest() after segment k was opened.                          *)
Listing(k) == IF k = segment THEN listed ELSE k + 1

(* A commit that fails raises: nobody takes it for done.                   *)
AfterFailure(e) == committed

LineOf(e) == [event |-> e, prev |-> lastHash]

(* The files, with the one this commit writes to.                          *)
Opened == Create(Target, ends)

(* The whole line is in the file, and the segment `next` is open.          *)
Landed(e, next) ==
  /\ lines' = Written(Target, LineOf(e), Opened)
  /\ ends' = Create(next, Grown(Target, Opened))

(* With `quiescent` the event is the SchedulerEvent that closes a          *)
(* checkpoint segment.                                                     *)
Commit(e, quiescent) ==
  LET next == IF quiescent THEN Target + 1 ELSE Target IN
  /\ isOpen /\ e \notin tried
  /\ Landed(e, next)
  /\ listed' = Listing(next)
  /\ segment' = next
  /\ count' = IF quiescent THEN 0 ELSE IF Full THEN 1 ELSE count + 1
  /\ lastHash' = e
  /\ committed' = Append(committed, e)
  /\ tried' = tried \cup {e}
  /\ UNCHANGED <<isOpen, faults, reopens, boot>>

(* The write of the line breaks off, or its fsync fails.                   *)
Partly(line) ==
  /\ lines' = Written(Target, line, Opened)
  /\ ends' = Grown(Target, Opened)

(* commit_sync() raises and the process goes on.  The hash of the chain    *)
(* was advanced before anything was written.  "unlisted" and "unrotated"   *)
(* are segments that were opened and did not get into the manifest, before *)
(* the line was written and behind the line that closes a segment.         *)
CommitFails(e, fault) ==
  LET next == IF fault = "unrotated" THEN Target + 1 ELSE Target IN
  /\ isOpen /\ e \notin tried
  /\ faults < MaxFaults
  /\ \/ fault = "landed" /\ Partly(LineOf(e))
     \/ fault = "torn" /\ Partly(Broken(Fragment))
     \/ (fault = "lost" \/ (fault = "unlisted" /\ Full)) /\ UNCHANGED lines /\ ends' = Opened
     \/ fault = "unrotated" /\ Landed(e, next)
  /\ listed' = IF fault = "unlisted" THEN listed ELSE Listing(Target)
  /\ segment' = next
  /\ count' = IF Full \/ fault = "unrotated" THEN 0 ELSE count
  /\ lastHash' = e
  /\ tried' = tried \cup {e}
  /\ faults' = faults + 1
  /\ committed' = AfterFailure(e)
  /\ UNCHANGED <<isOpen, reopens, boot>>

(* The process dies, between two commits or inside one, with the line, or  *)
(* a part of it, in the file, or within the rotation before or behind it.  *)
Die ==
  /\ isOpen
  /\ isOpen' = FALSE
  /\ \/ UNCHANGED <<directory, tried>>
     \/ \E e \in Events \ tried :
          /\ tried' = tried \cup {e}
          /\ \/ /\ Partly(LineOf(e)) \/ Partly(Broken(Fragment))
                /\ listed' = Listing(Target)
             \/ Full /\ ends' = Opened /\ UNCHANGED <<lines, listed>>
             \/ Landed(e, Target + 1) /\ listed' \in {Listing(Target), Listing(Target + 1)}
  /\ UNCHANGED <<segment, count, lastHash, committed, faults, reopens, boot>>

-------------------------------------------------------------------------------
(* ReplayEngine._read_deltas()                                              *)

(* The lines of the segments the manifest counts.                          *)
Lines(n) == SubSeq(lines, 1, ends[n])

Readable(line) == line.event \in Events

(* Mutant: a line without a predecessor starts a chain of its own.         *)
FollowsOrFirst(line, before) == line.prev \in {before.event, NoHash}

Follows(line, before) == line.prev = before.event

(* Every line can be decoded and names the line before it.                 *)
Intact(ls) ==
  \A i \in DOMAIN ls : Readable(ls[i]) /\ (i > 1 => Follows(ls[i], ls[i - 1]))

EventsOf(ls) == [i \in DOMAIN ls |-> ls[i].event]

(* How many lines the reader passes before the first broken one.           *)
IntactLines(ls) == Max({n \in 0 .. Len(ls) : Intact(SubSeq(ls, 1, n))})

Salvaged(ls) == SubSeq(ls, 1, IntactLines(ls))

Decoded(ls) == SelectSeq(ls, Readable)

(* The mode decides what a broken line means: raise, stop, or pass over.   *)
ReadDeltas(mode, ls) ==
  CASE mode = "STRICT"  -> IF Intact(ls) THEN EventsOf(ls) ELSE <<>>
    [] mode = "SALVAGE" -> EventsOf(Salvaged(ls))
    [] OTHER            -> EventsOf(Decoded(ls))

-------------------------------------------------------------------------------
(* The recovery boot: RuntimeStore opens the journal of the dead session -  *)
(* its segment 0, with a manifest that counts no other - and               *)
(* execute_recovery() dispatches what it reads.  No record of this journal *)
(* has a sequence_id, so none is passed over for the snapshot, and none    *)
(* has a msg_id a causal parent could name, so they go out in their order. *)

Reopen ==
  /\ ~isOpen /\ reopens < MaxReopens
  /\ reopens' = reopens + 1
  /\ isOpen' = TRUE /\ segment' = 0 /\ count' = 0 /\ lastHash' = NoHash
  /\ listed' = 1

(* Mutant: events that could not be dispatched do not fail a STRICT boot.  *)
SucceededAnyhow(mode, ls, read, applied) == mode = "STRICT" => Intact(ls)

Succeeded(mode, ls, read, applied) ==
  mode = "STRICT" => Intact(ls) /\ applied = read

(* What goes out of what was read.                                         *)
Dispatched(read, failing) == SelectSeq(read, LAMBDA e : e \notin failing)

(* RuntimeStore opens the journal, ReplayEngine reads it and dispatches to *)
(* a bus that has publish().  The program's own has none: its boot raises  *)
(* there and reports no success.                                           *)
Boot(mode, failing) ==
  LET read    == ReadDeltas(mode, Lines(1))
      applied == Dispatched(read, failing) IN
  /\ Reopen
  /\ failing \subseteq Range(read)
  /\ boot' = [mode |-> mode, applied |-> applied,
              ok |-> Succeeded(mode, Lines(1), read, applied)]
  /\ UNCHANGED <<lines, ends, committed, tried, faults>>

Next ==
  \/ \E e \in Events :
       \/ \E quiescent \in BOOLEAN : Commit(e, quiescent)
       \/ \E fault \in FaultKinds : CommitFails(e, fault)
  \/ Die
  \/ \E mode \in Modes, failing \in SUBSET Events : Boot(mode, failing)

Spec == Init /\ [][Next]_vars

-------------------------------------------------------------------------------
(* Correctness, of whoever replays the directory in this state              *)

(* Nothing is read twice, and whatever was acknowledged before an event    *)
(* that is read is read before it: of the acknowledged events, read holds  *)
(* the first ones, in their order.                                         *)
HasNoGap(read) ==
  /\ IsInjective(read)
  /\ \A i \in DOMAIN read, j \in DOMAIN committed :
       read[i] = committed[j] =>
         \A k \in 1 .. j - 1 : \E h \in 1 .. i - 1 : read[h] = committed[k]

IsComplete(read) == Range(committed) \subseteq Range(read)

(* SALVAGE stops before the first gap: the acknowledged events it yields   *)
(* are the first ones acknowledged, in their order - whatever was lost,    *)
(* torn or left out of the manifest, and however often the journal was     *)
(* opened again.                                                           *)
SalvageHasNoGaps == HasNoGap(ReadDeltas("SALVAGE", Lines(listed)))

(* A directory whose segments are all in the manifest and that STRICT      *)
(* accepts holds every acknowledged event, in order.                       *)
StrictIsComplete ==
  LET read == ReadDeltas("STRICT", Lines(listed)) IN
  listed = Len(ends) /\ Intact(Lines(listed)) => HasNoGap(read) /\ IsComplete(read)

(* A STRICT boot that reports success has applied the beginning of what    *)
(* the session had acknowledged, without a gap.                            *)
BootIsHonest ==
  boot.ok /\ boot.mode = "STRICT" => HasNoGap(boot.applied)

(* Nothing failed, so STRICT should accept the journal and yield every     *)
(* event: "preserve topological determinism across crashes"                *)
(* (event_recorder.py) is not kept (README, section 7).                    *)
FaultlessJournalReplays ==
  faults = 0 /\ (\A i \in DOMAIN lines : lines[i].event \in Range(committed))
    => IsComplete(ReadDeltas("STRICT", Lines(listed)))
===============================================================================
