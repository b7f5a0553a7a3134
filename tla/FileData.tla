----------------------------- MODULE FileData -----------------------------
(***************************************************************************)
(* A file as a caller of the file system sees it: its length, and what is  *)
(* read at every position it could grow to.  Written data stay, and what   *)
(* lies beyond the end reads as zeroes when the file grows over it.        *)
(* Nothing is promised at the positions in suspect: FileBlocks says which  *)
(* operations make a position suspect, and a later write makes it good.    *)
(***************************************************************************)
EXTENDS Integers

CONSTANT MaxUnits   \* bound on the length of the file

VARIABLES
  size,
  contents,   \* what a read of each position below MaxUnits would give
  suspect     \* positions at which contents is not to be relied on

vars == <<size, contents, suspect>>

Position == 0 .. (MaxUnits - 1)
Zero == 0

\* What a write stores at p: data that are different at every position.
Written(p) == p + 1

\* c is what has to be read at every position that is not suspect.
Holds(c) == \A p \in Position \ suspect' : contents'[p] = c[p]

Init ==
  /\ size \in 0 .. MaxUnits
  /\ suspect = {}
  /\ contents \in [Position -> Int]
  /\ \A p \in Position : p >= size => contents[p] = Zero

\* The n positions from at on are written.
Write(at, n) ==
  LET range == at .. (at + n - 1)
  IN  /\ size' = IF at + n > size THEN at + n ELSE size
      /\ suspect \ range \subseteq suspect'
      /\ Holds([p \in Position |-> IF p \in range THEN Written(p) ELSE contents[p]])

\* The length becomes n: what is cut off is gone.
SetSize(n) ==
  /\ size' = n
  /\ {p \in suspect : p < n} = {p \in suspect' : p < n}
  /\ Holds([p \in Position |-> IF p < n THEN contents[p] ELSE Zero])

\* A write that fails changes nothing a caller may rely on.
FailedWrite ==
  /\ size' = size
  /\ suspect \subseteq suspect'
  /\ Holds(contents)

Next ==
  \/ \E at \in Position : \E n \in 1 .. (MaxUnits - at) : Write(at, n)
  \/ \E n \in 0 .. MaxUnits : SetSize(n)
  \/ FailedWrite

Spec == Init /\ [][Next]_vars
=============================================================================
