--------------------------- MODULE MCWatchJournal ---------------------------
(* Model-checking instances of WatchJournal. *)
EXTENDS WatchJournal

\* A new store, and one resumed after two recovered transactions.
MCSeeds == {0, 2}

\* The liveness instance starts empty.
MCSeedsFresh == {0}
=============================================================================
