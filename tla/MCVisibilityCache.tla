------------------------- MODULE MCVisibilityCache -------------------------
(* VisibilityCache for TLC: two handlers that race for one repository, with *)
(* enough time for an entry to expire after a fetch that began before it.   *)
EXTENDS VisibilityCache, TLC

Symmetry == Permutations(Handlers) \cup Permutations(Visibilities)
============================================================================
