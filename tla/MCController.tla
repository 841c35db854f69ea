----------------------------- MODULE MCController -----------------------------
(***************************************************************************)
(* Instances of ControllerProperties for TLC.                              *)
(***************************************************************************)
EXTENDS ControllerProperties, TLC

\* Instructions and clients are interchangeable in the runs without liveness.
Interchangeable == Permutations(Instrs) \cup Permutations(Clients)
=============================================================================
