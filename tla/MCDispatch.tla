------------------------------ MODULE MCDispatch ------------------------------
(***************************************************************************)
(* Small workloads for the dispatcher.  One board is the tight case for    *)
(* the boards, two slots for two jobs of one tar the tight case for the    *)
(* build pool.                                                             *)
(***************************************************************************)
EXTENDS DispatchInvariant, TLC

CONSTANTS j1, j2, b1, t1, s1, s2

TwinTar == j1 :> t1 @@ j2 :> t1
AnyBoard == [j \in Jobs |-> Boards]
(* j2 waits for a board that does not exist.                               *)
OnlyFirst == [j \in Jobs |-> IF j = j1 THEN Boards ELSE {}]
(* Jobs of one tar and of one selector are alike, and so are the slots.     *)
Symmetric == Permutations(Jobs) \cup Permutations(Slots)
=============================================================================
