----------------------------- MODULE DurableLog -----------------------------
(***************************************************************************)
(* What the Watch state store promises its callers, with nothing of how it *)
(* does it: a log of numbered transactions of which a crash may lose a     *)
(* suffix, but never a transaction whose commit has returned.  A commit    *)
(* that returned without asking for durability is safe against the death   *)
(* of the process only; a durable one against power loss too.              *)
(***************************************************************************)
EXTENDS Integers

CONSTANT Limit      \* bound: transactions in the log

VARIABLES
    length,     \* transactions in the log
    safe,       \* prefix that survives the death of the process
    durable     \* prefix that survives power loss

logVars == <<length, safe, durable>>

LogInit == length = 0 /\ safe = 0 /\ durable = 0

AppendOne ==
    /\ length < Limit
    /\ length' = length + 1
    /\ UNCHANGED <<safe, durable>>

\* A commit returns: the log up to some transaction is acknowledged.
Acknowledge ==
    /\ safe' \in safe..length
    /\ durable' \in durable..safe'
    /\ UNCHANGED length

LoseProcess ==
    /\ length' \in safe..length
    /\ UNCHANGED <<safe, durable>>

LosePower ==
    /\ length' \in durable..length
    /\ safe' = durable
    /\ UNCHANGED durable

LogNext == AppendOne \/ Acknowledge \/ LoseProcess \/ LosePower

LogSpec == LogInit /\ [][LogNext]_logVars
=============================================================================
