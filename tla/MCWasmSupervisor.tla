-------------------------- MODULE MCWasmSupervisor --------------------------
(* Model-checking instance of WasmSupervisor; the plugin-reported outcomes,
   crashes and timeouts are all nondeterministic, the bounds are in the cfgs. *)
EXTENDS WasmSupervisor, TLC

CallerSymmetry == Permutations(Callers)
=============================================================================
