----------------------------- MODULE MCIpcSession -----------------------------
(***************************************************************************)
(* IpcSession for TLC: two requests at a time, in every combination of     *)
(* kinds whose handlers meet in the runtime, with one event of a           *)
(* background task and one grid update.                                    *)
(***************************************************************************)
EXTENDS IpcSession, TLC
CONSTANTS r1, r2
Pair(x, y) == r1 :> x @@ r2 :> y
MCScenarios ==
  {Pair("streams", "spawned"), Pair("apply", "cancel"), Pair("inline", "oneway")}
===============================================================================
