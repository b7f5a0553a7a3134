---------------------------- MODULE MCAllocator ----------------------------
(* Two groups.  Each file is one of the two shapes a volume may have when it *)
(* is mounted: as Linux left it, or as it was before the journal's replay.  *)
EXTENDS Allocator

Shape(b, i) == <<[g \in Group |-> IF g = 0 THEN b ELSE {}], [g \in Group |-> IF g = 0 THEN i ELSE {}]>>

MCUsedBitmaps == {Shape({0}, {0}), Shape({0, 2}, {0, 1})}
=============================================================================
