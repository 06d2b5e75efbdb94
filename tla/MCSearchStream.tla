-------------------------- MODULE MCSearchStream --------------------------
(* SearchStream for TLC: two scopes, two overlapping searches, a tab switch *)
(* and the end of the runtime process.  No symmetry: the run checks         *)
(* liveness.                                                                *)
EXTENDS SearchStream
=============================================================================
