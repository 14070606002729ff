----------------------------- MODULE MCSpaceGate -----------------------------
(* SpaceGate for TLC: two jobs on one volume.                              *)
EXTENDS SpaceGate
=============================================================================
