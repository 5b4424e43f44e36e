----------------------------- MODULE MCAIJobs -----------------------------
(* Instance of AIJobs: numbered jobs and tokens, model values as products. *)
EXTENDS AIJobs

CONSTANTS p1
=============================================================================
