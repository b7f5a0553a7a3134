----------------------------- MODULE MCDirBlock -----------------------------
(* A directory of up to two blocks of 48 bytes, with names of three lengths. *)
EXTENDS DirBlock

CONSTANTS na, nb, nm, nlong, i1, i2

MCNameLen == [n \in Name |-> CASE n = nm -> 5 [] n = nlong -> 14 [] OTHER -> 4]

Symmetry == Permutations({na, nb}) \cup Permutations({i1, i2})
=============================================================================
