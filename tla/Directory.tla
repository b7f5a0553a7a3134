----------------------------- MODULE Directory -----------------------------
(***************************************************************************)
(* What a directory promises its users: a set of entries, each a name and  *)
(* the inode it stands for.  A name is added only where it is not in use,  *)
(* and removing a name takes that name out and nothing else.               *)
(***************************************************************************)
CONSTANTS Name, Inode

VARIABLE entries

Init == entries = {}

Uses(n) == \E e \in entries : e[1] = n

Add(n, i) == ~Uses(n) /\ entries' = entries \cup {<<n, i>>}

Remove(n) == Uses(n) /\ entries' = {e \in entries : e[1] # n}

Next == \E n \in Name : Remove(n) \/ \E i \in Inode : Add(n, i)

Spec == Init /\ [][Next]_entries
=============================================================================
