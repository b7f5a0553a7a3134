------------------------------ MODULE Extents ------------------------------
(***************************************************************************)
(* The extent tree of one file and the functions that search and edit it.  *)
(* An extent maps a run of logical blocks to a run of physical blocks; an  *)
(* uninitialised one reserves its blocks and reads as a hole.  The root is *)
(* in the inode.  At depth 0 it holds extents, at depth 1 it points to     *)
(* leaf blocks.  The code reads deeper trees but builds no deeper one: a   *)
(* split adds an entry to the root, and a full root refuses it.            *)
(*                                                                         *)
(* A tree is what the disk holds: every function below writes a changed    *)
(* node and the inode through to the disk before it pins them, so what it  *)
(* reads next is what it wrote, whichever copy it reads.                   *)
(***************************************************************************)
EXTENDS Integers, FiniteSets, SequencesExt

CONSTANTS
  GroupSize,     \* blocks of a group
  GroupCount,
  Foreign,       \* blocks that are not this file's
  RootMax,       \* entries of a root
  LeafMax,       \* entries of a leaf block
  MaxExtentLen   \* length of an extent, and of one request to the allocator

Group == 0 .. (GroupCount - 1)
Blocks == 0 .. (GroupCount * GroupSize - 1)
NoBlock == -1

ASSUME TreeAssumption ==
  /\ GroupSize \in Nat \ {0} /\ GroupCount \in Nat \ {0}
  /\ Foreign \subseteq Blocks
  /\ RootMax \in Nat \ {0} /\ LeafMax \in Nat \ {0}
  /\ RootMax < LeafMax
  /\ MaxExtentLen \in Nat \ {0}

Extent == [lblk : Nat, len : 1 .. MaxExtentLen, start : Blocks, uninit : BOOLEAN]
Index == [lblk : Nat, child : Blocks]

-----------------------------------------------------------------------------
(* The allocator, as far as the extents see it. *)

\* The first n free blocks in a row in group g.
first_free_run(used, g, n) ==
  LET runs == {b \in (g * GroupSize) .. ((g + 1) * GroupSize - n) :
                 \A i \in 0 .. (n - 1) : b + i \notin used}
  IN  IF runs = {} THEN NoBlock ELSE Min(runs)

\* Groups are tried in order from the one of the hint.
alloc_blocks(used, n, hint) ==
  LET run == [i \in 1 .. GroupCount |-> first_free_run(used, (hint + i - 1) % GroupCount, n)]
      k == SelectInSeq(run, LAMBDA b : b # NoBlock)
  IN  IF k = 0 THEN NoBlock ELSE run[k]

-----------------------------------------------------------------------------
(* Searching. *)

EndOf(e) == e.lblk + e.len

\* The block of the first extent of es that covers lb.
InLeaf(es, lb) ==
  LET k == SelectInSeq(es, LAMBDA e : ~e.uninit /\ lb \in e.lblk .. (EndOf(e) - 1))
  IN  IF k = 0 THEN NoBlock ELSE es[k].start + lb - es[k].lblk

\* Mutant: the entry that starts at lb counts as beyond.
ChildBefore(idx, lb) ==
  LET beyond == SelectInSeq(idx, LAMBDA x : x.lblk >= lb)
  IN  IF beyond = 0 THEN Len(idx) ELSE beyond - 1

\* The last index entry before the first one beyond lb (0: there is none).
ChildFor(idx, lb) ==
  LET beyond == SelectInSeq(idx, LAMBDA x : x.lblk > lb)
  IN  IF beyond = 0 THEN Len(idx) ELSE beyond - 1

\* root comes from the caller's copy of the inode, leaf from the disk.
lookup_block(root, leaf, lb) ==
  IF root.depth = 0
  THEN InLeaf(root.entries, lb)
  ELSE LET k == ChildFor(root.entries, lb)
       IN  IF k = 0 THEN NoBlock ELSE InLeaf(leaf[root.entries[k].child], lb)

Children(root) ==
  IF root.depth = 0 THEN {} ELSE {x.child : x \in ToSet(root.entries)}

\* All extents of the tree.
collect_leaves(root, leaf) ==
  IF root.depth = 0
  THEN ToSet(root.entries)
  ELSE UNION {ToSet(leaf[c]) : c \in Children(root)}

\* A reader of the whole file collects and sorts the extents and takes the
\* last one that starts at lb or before.
resolve_lblock(root, leaf, lb) ==
  LET before == {e \in collect_leaves(root, leaf) : e.lblk <= lb}
      last == CHOOSE e \in before : \A f \in before : f.lblk <= e.lblk
  IN  IF before = {} THEN NoBlock
      ELSE IF last.uninit \/ lb >= EndOf(last) THEN NoBlock
      ELSE last.start + lb - last.lblk

BlocksOf(e) == e.start .. (e.start + e.len - 1)

\* The logical block an appended extent gets, whatever block is written.
next_logical_block(es) == IF es = <<>> THEN 0 ELSE EndOf(Last(es))

Rightmost(root) == Last(root.entries).child

Frontier(root, leaf) ==
  IF root.depth = 0 THEN next_logical_block(root.entries)
  ELSE IF root.entries = <<>> THEN 0
  ELSE next_logical_block(leaf[Rightmost(root)])

-----------------------------------------------------------------------------
(* Appending the n blocks from phys on.  t is a tree with the blocks in    *)
(* use: [root, leaf, used, iblocks, why], why being "ok" or the failure.   *)

can_coalesce(es, phys, n) ==
  /\ es # <<>>
  /\ ~Last(es).uninit
  /\ Last(es).start + Last(es).len = phys
  /\ Last(es).len + n <= MaxExtentLen

coalesce(es, n) == [es EXCEPT ![Len(es)].len = @ + n]

WithExtent(es, at, phys, n) ==
  Append(es, [lblk |-> at, len |-> n, start |-> phys, uninit |-> FALSE])

WithLeaf(leaf, b, es) == [c \in DOMAIN leaf \cup {b} |-> IF c = b THEN es ELSE leaf[c]]

Counted(t, n) == [t EXCEPT !.iblocks = @ + n]
FailedWith(t, why) == [t EXCEPT !.why = why]

\* The root is full: its extents move into a new leaf block, which then
\* takes the new one.
extent_tree_grow(t, phys, n, hint) ==
  LET b == alloc_blocks(t.used, 1, hint)
      es == t.root.entries
  IN  IF b = NoBlock THEN FailedWith(t, "no_space")
      ELSE Counted([t EXCEPT
             !.used = @ \cup {b},
             !.root = [depth |-> 1, entries |-> <<[lblk |-> 0, child |-> b]>>],
             !.leaf = WithLeaf(@, b, WithExtent(es, next_logical_block(es), phys, n))], n)

\* Mutant: the old leaf keeps the entries that were copied.
split_keeping_upper_half(t, phys, n, hint) ==
  LET b == alloc_blocks(t.used, 1, hint)
      es == t.leaf[Rightmost(t.root)]
      upper == SubSeq(es, Len(es) \div 2 + 1, Len(es))
  IN  IF b = NoBlock THEN FailedWith(t, "no_space")
      ELSE IF Len(t.root.entries) = RootMax
      THEN FailedWith([t EXCEPT !.used = @ \cup {b}], "depth_limit")
      ELSE Counted([t EXCEPT
             !.used = @ \cup {b},
             !.root.entries = Append(@, [lblk |-> upper[1].lblk, child |-> b]),
             !.leaf = WithLeaf(@, b, WithExtent(upper, next_logical_block(es), phys, n))], n)

\* The rightmost leaf is full: its upper half moves into a new block, which
\* then takes the new extent.  Both blocks are written before the root is
\* found to have no room for another entry.
extent_leaf_split(t, phys, n, hint) ==
  LET b == alloc_blocks(t.used, 1, hint)
      old == Rightmost(t.root)
      es == t.leaf[old]
      half == Len(es) \div 2
      upper == SubSeq(es, half + 1, Len(es))
      halved == [t EXCEPT !.used = @ \cup {b}, !.leaf[old] = SubSeq(es, 1, half)]
  IN  IF b = NoBlock THEN FailedWith(t, "no_space")
      ELSE IF Len(t.root.entries) = RootMax THEN FailedWith(halved, "depth_limit")
      ELSE Counted([halved EXCEPT
             !.root.entries = Append(@, [lblk |-> upper[1].lblk, child |-> b]),
             !.leaf = WithLeaf(@, b, WithExtent(upper, next_logical_block(es), phys, n))], n)

\* Mutants: one entry more than there is room for, and a
\* longer extent that is not counted.
append_to_root_one_more(t, phys, n, hint) ==
  LET es == t.root.entries
  IN  IF can_coalesce(es, phys, n)
      THEN Counted([t EXCEPT !.root.entries = coalesce(@, n)], n)
      ELSE IF Len(es) <= RootMax
      THEN Counted([t EXCEPT !.root.entries = WithExtent(@, next_logical_block(@), phys, n)], n)
      ELSE extent_tree_grow(t, phys, n, hint)

append_to_root_uncounted(t, phys, n, hint) ==
  LET es == t.root.entries
  IN  IF can_coalesce(es, phys, n)
      THEN [t EXCEPT !.root.entries = coalesce(@, n)]
      ELSE IF Len(es) < RootMax
      THEN Counted([t EXCEPT !.root.entries = WithExtent(@, next_logical_block(@), phys, n)], n)
      ELSE extent_tree_grow(t, phys, n, hint)

append_to_root(t, phys, n, hint) ==
  LET es == t.root.entries
  IN  IF can_coalesce(es, phys, n)
      THEN Counted([t EXCEPT !.root.entries = coalesce(@, n)], n)
      ELSE IF Len(es) < RootMax
      THEN Counted([t EXCEPT !.root.entries = WithExtent(@, next_logical_block(@), phys, n)], n)
      ELSE extent_tree_grow(t, phys, n, hint)

append_to_leaf_block(t, phys, n, hint) ==
  LET es == t.leaf[Rightmost(t.root)]
  IN  IF can_coalesce(es, phys, n)
      THEN Counted([t EXCEPT !.leaf[Rightmost(t.root)] = coalesce(@, n)], n)
      ELSE IF Len(es) < LeafMax
      THEN Counted([t EXCEPT !.leaf[Rightmost(t.root)] =
                                 WithExtent(@, next_logical_block(@), phys, n)], n)
      ELSE extent_leaf_split(t, phys, n, hint)

extent_append(t, phys, n, hint) ==
  IF t.root.depth = 0 THEN append_to_root(t, phys, n, hint)
  ELSE IF t.root.entries = <<>> THEN FailedWith(t, "corrupt")
  ELSE append_to_leaf_block(t, phys, n, hint)

-----------------------------------------------------------------------------
(* Truncating to keep logical blocks. *)

\* Mutant: the extent that is cut keeps its length.
truncate_leaf_whole(es, keep) == SelectSeq(es, LAMBDA e : e.lblk < keep)

\* What is kept of an extent that starts in front of keep.
CutAt(e, keep) == IF EndOf(e) > keep THEN [e EXCEPT !.len = keep - e.lblk] ELSE e

truncate_leaf(es, keep) ==
  FoldLeft(LAMBDA kept, e : IF e.lblk < keep THEN Append(kept, CutAt(e, keep)) ELSE kept, <<>>, es)

\* Mutant: the first block that goes stays in use.
FreedBehind(es, keep) ==
  UNION {{b \in BlocksOf(e) : e.lblk + b - e.start > keep} : e \in ToSet(es)}

FreedFrom(es, keep) ==
  UNION {{b \in BlocksOf(e) : e.lblk + b - e.start >= keep} : e \in ToSet(es)}

\* The entries of the root that stay.  A child that ends up empty goes only
\* when nothing at all is kept.
KeptChildren(idx, keep) ==
  IF keep = 0 THEN <<>>
  ELSE FoldLeft(LAMBDA kept, x : IF x.lblk < keep THEN Append(kept, x) ELSE kept, <<>>, idx)

\* count_iblocks sees the extents of the root only.
count_iblocks(root) ==
  IF root.depth # 0 THEN 0
  ELSE FoldLeft(LAMBDA sum, e : sum + e.len, 0, root.entries)

extent_truncate(t, keep) ==
  LET kept == KeptChildren(t.root.entries, keep)
      root == [t.root EXCEPT !.entries =
                 IF t.root.depth = 0 THEN truncate_leaf(@, keep) ELSE kept]
      stay == {x.child : x \in ToSet(kept)}
      freed == IF t.root.depth = 0
               THEN FreedFrom(t.root.entries, keep)
               ELSE (Children(t.root) \ stay)
                    \cup UNION {FreedFrom(t.leaf[c], IF c \in stay THEN keep ELSE 0)
                                 : c \in Children(t.root)}
  IN  [t EXCEPT
        !.root = root,
        !.leaf = IF root.depth = 0 THEN @ ELSE [c \in stay |-> truncate_leaf(t.leaf[c], keep)],
        !.used = @ \ freed,
        !.iblocks = count_iblocks(root)]
=============================================================================
