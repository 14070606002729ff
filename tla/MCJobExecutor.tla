--------------------------- MODULE MCJobExecutor ---------------------------
(* JobExecutor for TLC: a foreground and a Watch job, two threads.         *)
EXTENDS JobExecutor
=============================================================================
