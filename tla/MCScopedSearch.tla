-------------------------- MODULE MCScopedSearch --------------------------
(***************************************************************************)
(* ScopedSearch for TLC.  Three sources allow one answer of each kind and  *)
(* any order; no symmetry, because the run checks liveness.                *)
(***************************************************************************)
EXTENDS ScopedSearch
===========================================================================
