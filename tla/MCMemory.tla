------------------------------- MODULE MCMemory -------------------------------
(* Instances of Memory small enough for TLC. *)
EXTENDS Memory

OneSeed == <<None>>
=============================================================================
