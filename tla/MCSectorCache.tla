--------------------------- MODULE MCSectorCache ---------------------------
(* Threads and sectors for SectorCache; both sets are symmetric. *)
EXTENDS SectorCache, TLC

Symmetry == Permutations(Thread) \cup Permutations(Sector)

=============================================================================
