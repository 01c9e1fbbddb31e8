------------------------------ MODULE MCLiveIndex -----------------------------
(* Small tables for the model checker.                                     *)
EXTENDS LiveIndex
=============================================================================
