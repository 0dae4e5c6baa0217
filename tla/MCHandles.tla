----------------------------- MODULE MCHandles -----------------------------
(* Handles, and its mapping to Lifecycle, on small sets of threads,        *)
(* wrapper objects and addresses.                                          *)
EXTENDS HandlesLifecycle, TLC

Symmetry == Permutations(Thread) \cup Permutations(Object) \cup Permutations(Addr)
=============================================================================
