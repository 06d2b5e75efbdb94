---------------------------- MODULE MCMpvPlayer ----------------------------
(***************************************************************************)
(* MpvPlayer for TLC.  Two launches and one more request are enough for    *)
(* every overlap the code can meet: an old and a new mpv with their IPC    *)
(* loops, and a stop() that starts and ends anywhere between their steps.  *)
(* The requests are model values of the .cfg files and are not symmetric:  *)
(* each set has one member.                                                *)
(***************************************************************************)
EXTENDS MpvPlayer
=============================================================================
