----------------------------- MODULE MCScheduler -----------------------------
(* A small workload for the scheduler.                                     *)
EXTENDS Scheduler

CONSTANTS j1, j2, j3, b1, b2, t1, t2

(* j1 and j3 carry the same tar.                                           *)
TwoTars == j1 :> t1 @@ j2 :> t2 @@ j3 :> t1
(* j1 insists on one board, the others take any.                           *)
Picky == [j \in Jobs |-> IF j = j1 THEN {b1} ELSE Boards]
ById == <<b1, b2>>
=============================================================================
