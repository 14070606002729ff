--------------------------- MODULE MCOutputWriter ---------------------------
(* OutputWriter for TLC: one job with a file of three units, that is one   *)
(* full buffer and a short one, and with an empty file.                    *)
EXTENDS OutputWriter

CONSTANTS j1, f1, f2

MCJobOf == (f1 :> j1) @@ (f2 :> j1)
MCSize == (f1 :> 3) @@ (f2 :> 0)
=============================================================================
