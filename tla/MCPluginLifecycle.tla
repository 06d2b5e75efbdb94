------------------------- MODULE MCPluginLifecycle -------------------------
(***************************************************************************)
(* PluginLifecycle for TLC.  Because every step of the watcher may be late,*)
(* one directory that comes, goes and comes back shows every order of its  *)
(* events; the second one keeps the watcher, the scan and the IPC loop     *)
(* busy with something else meanwhile.                                     *)
(***************************************************************************)
EXTENDS PluginLifecycle

CONSTANTS x, y   \* two names

\* The one in front comes back once, the other appears once.
ArrivalBound == [n \in Names |-> IF n = x THEN 2 ELSE 1]
=============================================================================
