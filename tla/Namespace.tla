----------------------------- MODULE Namespace -----------------------------
(***************************************************************************)
(* What the functions that edit directories make of the tree of files.  A  *)
(* tree is a record: the entries of every directory, what every inode is,  *)
(* its link count, the directory its ".." entry stands for, and the set of *)
(* inodes that an operation has taken the last name from without freeing   *)
(* them.  Blocks and records of one directory are DirBlock's subject.      *)
(***************************************************************************)
EXTENDS Integers, FiniteSets

CONSTANTS Inode, Root, Name, None

ASSUME NamespaceAssumption ==
  Root \in Inode /\ None \notin Inode /\ IsFiniteSet(Inode) /\ IsFiniteSet(Name)

Kind == {"free", "file", "dir"}

Tree == [entries : [Inode -> [Name -> Inode \cup {None}]], kind : [Inode -> Kind],
         links : [Inode -> Nat], up : [Inode -> Inode], lost : SUBSET Inode]

NoEntries == [n \in Name |-> None]

\* The names of an inode: the entries that stand for it.
Names(ns, i) == {e \in Inode \X Name : ns.kind[e[1]] = "dir" /\ ns.entries[e[1]][e[2]] = i}

dir_is_empty(ns, d) == ns.entries[d] = NoEntries

Subdirectories(ns, D) ==
  {i \in Inode : ns.kind[i] = "dir" /\ \E d \in D, n \in Name : ns.entries[d][n] = i}

\* The directories found from those of D; from the root, by resolve_path.
ReachableFrom(ns, D) ==
  {i \in Inode : \A S \in SUBSET Inode : D \cup Subdirectories(ns, S) \subseteq S => i \in S}

Reachable(ns) == ReachableFrom(ns, {Root})

\* A name stands for an inode in use, and a file has a link for each name.
LinksCoverNames(ns) ==
  \A i \in Inode :
    /\ Names(ns, i) # {} => ns.kind[i] # "free"
    /\ ns.kind[i] = "file" => Cardinality(Names(ns, i)) <= ns.links[i]

\* A tree but for what was lost: a file has as many links as names, a directory
\* one name, in the directory that its ".." stands for, and every directory is
\* found from the root or from one that was lost.
IsATree(ns) ==
  /\ \A i \in {i \in Inode : ns.kind[i] = "file"} \ ns.lost : Cardinality(Names(ns, i)) = ns.links[i]
  /\ \A i \in {i \in Inode : ns.kind[i] = "dir"} \ (ns.lost \cup {Root}) :
       \E n \in Name : Names(ns, i) = {<<ns.up[i], n>>}
  /\ \A i \in Inode : ns.kind[i] = "dir" => i \in ReachableFrom(ns, {Root} \cup ns.lost)

\* What mke2fs makes and e2fsck passes.
Consistent(ns) ==
  /\ ns.kind[Root] = "dir" /\ Names(ns, Root) = {}
  /\ LinksCoverNames(ns) /\ IsATree(ns) /\ ns.lost = {}

-----------------------------------------------------------------------------
\* dir_remove_entry, on the name alone.
WithoutEntry(ns, d, n) == [ns EXCEPT !.entries[d][n] = None]

\* init_inode gives a directory the one link of a file.
init_inode(ns, i, k) ==
  [ns EXCEPT !.kind[i] = k, !.links[i] = 1, !.entries[i] = NoEntries]

\* create_handle, with the link count of the parent that it read before.
create_handle(ns, d, n, i, k, links) ==
  LET made == [init_inode(ns, i, k) EXCEPT !.entries[d][n] = i]
  IN  IF k = "file" THEN made ELSE [made EXCEPT !.up[i] = d, !.links[d] = links + 1]

\* Mutant: the inode goes with the name, however many others it has.
do_delete_all(ns, d, n, i, links) ==
  [WithoutEntry(ns, d, n) EXCEPT !.kind[i] = "free", !.links[i] = 0]

\* do_delete, with the link count of the file that it read before.
do_delete(ns, d, n, i, links) ==
  IF links <= 1
  THEN [WithoutEntry(ns, d, n) EXCEPT !.kind[i] = "free", !.links[i] = 0]
  ELSE [WithoutEntry(ns, d, n) EXCEPT !.links[i] = links - 1]

\* The entry dir_rename finds in its way goes, and a file loses a link, if that
\* is not its last one.
WithoutTarget(ns, d, n) ==
  LET i == ns.entries[d][n] IN
    IF i = None THEN ns
    ELSE IF ns.kind[i] = "file" /\ ns.links[i] > 1
         THEN [WithoutEntry(ns, d, n) EXCEPT !.links[i] = @ - 1]
         ELSE [WithoutEntry(ns, d, n) EXCEPT !.lost = @ \cup {i}]

\* update_dotdot goes by the block on disk: a directory moved into itself loses
\* the entry it was given in the same transaction.
update_dotdot(ns, i, d) ==
  [ns EXCEPT !.up[i] = d, !.entries[i] = IF i = d THEN [n \in Name |-> IF @[n] = i THEN None ELSE @[n]] ELSE @]

\* A directory moved into or below itself: nothing leads to it any more.
MovesBelowItself(ns, sd, sn, dd) == dd \notin Reachable(WithoutEntry(ns, sd, sn))

rename_fails(ns, sd, sn, dd, dn) ==
  \/ ns.entries[sd][sn] = None
  \/ LET i == ns.entries[dd][dn] IN
       i # None /\ ns.kind[i] = "dir" /\ ~dir_is_empty(ns, i)

\* Mutant: ".." is left alone.
dir_rename_keeps_dotdot(ns, sd, sn, dd, dn) ==
  LET i == ns.entries[sd][sn]
      added == [WithoutTarget(ns, dd, dn) EXCEPT !.entries[dd][dn] = i]
      removed == WithoutEntry(added, sd, sn)
  IN  IF MovesBelowItself(ns, sd, sn, dd) THEN [removed EXCEPT !.lost = @ \cup {i}] ELSE removed

dir_rename(ns, sd, sn, dd, dn) ==
  LET i == ns.entries[sd][sn]
      added == [WithoutTarget(ns, dd, dn) EXCEPT !.entries[dd][dn] = i]
      removed == WithoutEntry(added, sd, sn)
      moved == IF ns.kind[i] = "dir" /\ sd # dd THEN update_dotdot(removed, i, dd) ELSE removed
  IN  IF MovesBelowItself(ns, sd, sn, dd) THEN [moved EXCEPT !.lost = @ \cup {i}] ELSE moved
=============================================================================
