----------------------------- MODULE MCHandlers -----------------------------
(* A file with two names; a file beside an empty directory; a directory in *)
(* a directory.                                                            *)
EXTENDS Handlers, TLC

CONSTANTS r, i1, i2, a, b, t1, t2

Volume(entries, kinds, links) ==
  [entries |-> entries, kind |-> kinds, links |-> links, up |-> [i \in Inode |-> r], lost |-> {}]

In(d, first, second) == d :> [n \in Name |-> IF n = a THEN first ELSE second]
Both(one, two) == i1 :> one @@ i2 :> two

MCTrees ==
  {Volume(In(r, i1, i1) @@ Both(NoEntries, NoEntries),
          r :> "dir" @@ Both("file", "free"), r :> 2 @@ Both(2, 0)),
   Volume(In(r, i1, i2) @@ Both(NoEntries, NoEntries),
          r :> "dir" @@ Both("dir", "file"), r :> 3 @@ Both(2, 1)),
   [Volume(In(r, i1, None) @@ In(i1, i2, None) @@ i2 :> NoEntries,
           r :> "dir" @@ Both("dir", "dir"), r :> 3 @@ Both(3, 2))
      EXCEPT !.up[i2] = i1]}
=============================================================================
