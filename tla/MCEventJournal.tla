--------------------------- MODULE MCEventJournal ---------------------------
(* Small instances of EventJournal.                                        *)
EXTENDS EventJournal
CONSTANTS a, b, c, d, e5
Symmetric == Permutations(Events)
=============================================================================
