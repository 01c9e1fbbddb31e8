----------------------------- MODULE MCLogStream -----------------------------
(* Small logs for the model checker.                                       *)
EXTENDS LogStream
CONSTANTS v1, v2
=============================================================================
