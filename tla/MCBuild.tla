------------------------------- MODULE MCBuild --------------------------------
EXTENDS Build

TwoTars   == <<1, 2>>

(* Two versions of one crate.                                              *)
OneName   == <<1, 1>>

(* Two crates, the first of which is last in the order of names.           *)
TwoNames   == <<2, 1>>
=============================================================================
