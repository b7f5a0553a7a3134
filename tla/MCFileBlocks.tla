--------------------------- MODULE MCFileBlocks ---------------------------
(* Files that start empty, with a hole, and with an uninitialised extent. *)
EXTENDS FileBlocks

Ext(l, n, s, u) == [lblk |-> l, len |-> n, start |-> s, uninit |-> u]

Empty == <<>>
WithHole == <<Ext(0, 1, 2, FALSE), Ext(2, 1, 5, FALSE)>>
Preallocated == <<Ext(0, 2, 2, TRUE)>>

AnyFile == {Empty, WithHole, Preallocated}
EmptyFile == {Empty}
=============================================================================
