------------------------------- MODULE MCWorker -------------------------------
(***************************************************************************)
(* Instances of Worker for TLC: firmware that passes, passes after noise,  *)
(* says nothing, fails, and talks after its `Test OK`.                     *)
(***************************************************************************)
EXTENDS Worker

Sketches ==
  { <<>>, <<"ok">>, <<"ok", "log">>, <<"bad", "ok">>,
    <<"log", "log", "ok">>, <<"bad", "bad", "ok">> }
=============================================================================
