---------------------------- MODULE MCWatchStore ----------------------------
(* Model-checking instances of WatchStore. *)
EXTENDS WatchStore

MCSeeds == {0}

\* Death of the process and failed appends and deletions, around idle
\* maintenance and close.
CrashFaults == {"append", "unlink", "crash"}
CrashCalls == {"maintain", "close"}

\* Power loss and failed snapshot publication, around flush.
PowerFaults == {"snapshot", "sync", "power"}
PowerCalls == {"flush"}

\* Errors of the journal and of the snapshot, no crash: the close must end.
ErrorFaults == {"append", "flush", "snapshot"}
CloseCalls == {"save", "close"}

\* No fault at all: save against close.
NoFaults == {}
SaveCalls == {"save", "close"}
=============================================================================
