----------------------------- MODULE MCTaskGate -----------------------------
(* Instance of TaskGate: the sets are small enough to be written in the     *)
(* configuration files.                                                     *)
EXTENDS TaskGate
=============================================================================
