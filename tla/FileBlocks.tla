---------------------------- MODULE FileBlocks ----------------------------
(***************************************************************************)
(* One regular file: its length, its extent tree, the blocks it uses and   *)
(* what they hold, under the two handlers that change them.  A write runs  *)
(* as one step, since it reads the inode and works under the journal lock. *)
(* A resize reads the length before it takes that lock, so it is two.      *)
(*                                                                         *)
(* Lengths and offsets are counted in units, UnitsPerBlock to a block.     *)
(***************************************************************************)
EXTENDS Extents

CONSTANTS
  UnitsPerBlock,
  MaxBlocks,      \* bound on the length of the file, in blocks
  MaxWrite,       \* bound on the length of a write, in units
  NewSizes,       \* the lengths a resize may ask for: a bound
  NodeHint,       \* group where leaf blocks are looked for first: the inode's number
  InitialRoots    \* roots of depth 0 of files that another system left

Unit == 0 .. (UnitsPerBlock - 1)
MaxUnits == MaxBlocks * UnitsPerBlock
Position == 0 .. (MaxUnits - 1)
LBlock == 0 .. (MaxBlocks - 1)

NoResize == [to |-> -1, shorter |-> FALSE]
Garbage == -1        \* what a block nobody owns holds
Zero == 0
Written(p) == p + 1  \* what a write stores at p

ASSUME FileAssumption ==
  /\ UnitsPerBlock \in Nat \ {0} /\ MaxBlocks \in Nat \ {0} /\ MaxWrite \in Nat
  /\ NewSizes \subseteq 0 .. MaxUnits
  /\ NodeHint \in Nat

\* What Linux leaves: extents in the order of the file, with blocks of its own.
ASSUME RootsAssumption ==
  \A r \in InitialRoots :
    /\ r \in Seq(Extent) /\ Len(r) <= RootMax
    /\ \A i \in DOMAIN r : EndOf(r[i]) <= MaxBlocks /\ BlocksOf(r[i]) \subseteq Blocks \ Foreign
    /\ \A i, j \in DOMAIN r :
         i < j => EndOf(r[i]) <= r[j].lblk /\ BlocksOf(r[i]) \cap BlocksOf(r[j]) = {}

Outcome == {"ok", "no_space", "corrupt", "depth_limit"}

VARIABLES
  size,      \* i_size of the inode
  root,      \* i_block
  iblocks,   \* i_blocks, in blocks
  leaf,      \* leaf blocks of the tree, by block number
  used,      \* blocks in use in the bitmap
  data,      \* contents of data blocks
  resize,    \* a resize that has read the length: the new one, and if it is shorter
  outcome,   \* of the last handler that finished
  suspect    \* history: positions that an operation has put out of order

vars == <<size, root, iblocks, leaf, used, data, resize, outcome, suspect>>

Tree == [root |-> root, leaf |-> leaf, used |-> used, iblocks |-> iblocks, why |-> "ok"]

\* The blocks of the tree: its leaf blocks and those its extents map.
Mapped == UNION {BlocksOf(e) : e \in collect_leaves(root, leaf)}
Owned == Mapped \cup Children(root)

\* FileReader::read: holes and uninitialised extents read as zeroes.
ReadAt(p) ==
  LET b == resolve_lblock(root, leaf, p \div UnitsPerBlock)
  IN  IF b = NoBlock THEN Zero ELSE data[b][p % UnitsPerBlock]

Contents == [p \in Position |-> ReadAt(p)]

-----------------------------------------------------------------------------
(* Writing: provide a block for every logical block in the range. *)

\* blk is the logical block the loop has reached, todo what is left of the
\* run it is allocating and hint where it wants it, map the blocks found or
\* allocated so far.
Filling(t, first) ==
  [tree |-> t, data |-> data, blk |-> first, todo |-> 0, hint |-> 0, map |-> <<>>]

\* Length of the run of unmapped blocks from lb on, looked up in the caller's
\* root.
RunLength(leaves, lb, last) ==
  LET found == {k \in lb .. last : lookup_block(root, leaves, k) # NoBlock}
      len == (IF found = {} THEN last + 1 ELSE Min(found)) - lb
  IN  IF len > MaxExtentLen THEN MaxExtentLen ELSE len

\* What is requested for n blocks: n, and half as often as there is no run.
Halves(n) == {w \in 1 .. n : \E k \in 0 .. n : w = n \div (2 ^ k)}

\* Mutant: new blocks are used as they are.
NotZeroed(d, bs) == d

Zeroed(d, bs) == [b \in Blocks |-> IF b \in bs THEN [u \in Unit |-> Zero] ELSE d[b]]

\* Allocate, zero and append the next piece of the run.
AllocatePiece(f) ==
  LET hint == f.hint \div GroupSize
      fits == {w \in Halves(f.todo) : alloc_blocks(f.tree.used, w, hint) # NoBlock}
      want == Max(fits)
      phys == alloc_blocks(f.tree.used, want, hint)
      taken == phys .. (phys + want - 1)
      tree == [f.tree EXCEPT !.used = @ \cup taken]
  IN  IF fits = {} THEN [f EXCEPT !.tree = FailedWith(@, "no_space")]
      ELSE [tree |-> extent_append(tree, phys, want, NodeHint),
            data |-> Zeroed(f.data, taken),
            blk |-> f.blk + want,
            todo |-> f.todo - want,
            hint |-> f.hint,
            map |-> [k \in DOMAIN f.map \cup (f.blk .. (f.blk + want - 1)) |->
                       IF k \in DOMAIN f.map THEN f.map[k] ELSE phys + k - f.blk]]

\* One turn of the loops of write_file_data.
FillStep(f, last) ==
  LET phys == lookup_block(root, f.tree.leaf, f.blk)
  IN  IF f.tree.why # "ok" \/ f.blk > last THEN f
      ELSE IF f.todo > 0 THEN AllocatePiece(f)
      ELSE IF phys = NoBlock
      THEN [f EXCEPT !.todo = RunLength(f.tree.leaf, f.blk, last),
                     !.hint = Max({size \div UnitsPerBlock, f.blk})]
      ELSE [f EXCEPT !.blk = @ + 1,
                     !.map = [k \in DOMAIN @ \cup {f.blk} |-> IF k = f.blk THEN phys ELSE @[k]]]

\* Every logical block takes at most two turns.
Filled(first, last) ==
  LET turns == 2 * (last - first + 1)
      after[i \in 0 .. turns] ==
        IF i = 0 THEN Filling(Tree, first)
        ELSE FillStep(after[i - 1], last)
  IN  after[turns]

\* The data go into the blocks found, which keep their other units.
Stored(f, range) ==
  [b \in Blocks |-> [u \in Unit |->
     LET here == {lb \in DOMAIN f.map : f.map[lb] = b /\ lb * UnitsPerBlock + u \in range}
     IN  IF here = {} THEN f.data[b][u] ELSE Written(Max(here) * UnitsPerBlock + u)]]

-----------------------------------------------------------------------------
(* Which positions an operation puts out of order. *)

\* The unmapped blocks of the range are the next ones of the file.
Sequential(first, last) ==
  LET unmapped == {lb \in first .. last : lookup_block(root, leaf, lb) = NoBlock}
      next == Frontier(root, leaf)
  IN  unmapped = next .. (next + Cardinality(unmapped) - 1)

Units(lbs) == {p \in Position : p \div UnitsPerBlock \in lbs}

\* Blocks provided for a range that is not sequential are appended at the end
\* of the file all the same: neither place is what its writer expects.
Misplaced(first, last) ==
  LET next == Frontier(root, leaf)
  IN  IF Sequential(first, last) THEN {}
      ELSE Units((first .. last) \cup (next .. (next + last - first)))

\* A split that finds the root full has already cut the leaf in half.
CutOff ==
  LET es == leaf[Rightmost(root)]
  IN  Units({lb \in LBlock : lb >= es[Len(es) \div 2 + 1].lblk})

-----------------------------------------------------------------------------
(* The handlers. *)

SetTree(t) ==
  /\ root' = t.root /\ leaf' = t.leaf /\ used' = t.used /\ iblocks' = t.iblocks

\* write_file_data_cb: blocks first, then the data, then the length.  A failure
\* keeps the blocks appended up to it, and nothing is stored.
WriteFile(at, n) ==
  LET range == at .. (at + n - 1)
      first == at \div UnitsPerBlock
      last == (at + n - 1) \div UnitsPerBlock
      f == Filled(first, last)
  IN  /\ SetTree(f.tree)
      /\ outcome' = f.tree.why
      /\ data' = IF outcome' = "ok" THEN Stored(f, range) ELSE f.data
      /\ size' = IF outcome' = "ok" /\ at + n > size THEN at + n ELSE size
      /\ suspect' = CASE outcome' = "ok" -> (suspect \ range) \cup Misplaced(first, last)
                      [] outcome' = "depth_limit" -> suspect \cup CutOff
                      [] OTHER -> suspect
      /\ UNCHANGED resize

\* set_file_size_cb reads the inode, and then waits for the journal.
StartResize(n) ==
  /\ resize = NoResize
  /\ resize' = [to |-> n, shorter |-> n < size]
  /\ UNCHANGED <<size, root, iblocks, leaf, used, data, outcome, suspect>>

\* A file that gets shorter loses the blocks behind its new end; the rest of
\* its last block stays as it is.
Shrink(n) ==
  LET keep == (n + UnitsPerBlock - 1) \div UnitsPerBlock
      t == extent_truncate(Tree, keep)
  IN  /\ resize.shorter
      /\ SetTree(t)
      /\ data' = [b \in Blocks |-> IF b \in used \ t.used THEN [u \in Unit |-> Garbage]
                                   ELSE data[b]]
      /\ suspect' = {p \in suspect \cup (n .. (keep * UnitsPerBlock - 1)) :
                       p < keep * UnitsPerBlock}

\* Otherwise only the length is set: to less, when the file has grown since.
Extend(n) ==
  /\ ~resize.shorter
  /\ suspect' = suspect \cup (n .. (size - 1))
  /\ UNCHANGED <<root, iblocks, leaf, used, data>>

FinishResize ==
  /\ resize # NoResize
  /\ Shrink(resize.to) \/ Extend(resize.to)
  /\ size' = resize.to
  /\ resize' = NoResize
  /\ outcome' = "ok"

Init ==
  /\ \E r \in InitialRoots :
       /\ root = [depth |-> 0, entries |-> r]
       /\ size = next_logical_block(r) * UnitsPerBlock
  /\ leaf = <<>>
  /\ iblocks = count_iblocks(root)
  /\ used = Foreign \cup Owned
  /\ data = [b \in Blocks |-> [u \in Unit |->
               IF \E e \in ToSet(root.entries) : ~e.uninit /\ b \in BlocksOf(e)
               THEN LET e == CHOOSE e \in ToSet(root.entries) : b \in BlocksOf(e)
                    IN  Written((e.lblk + b - e.start) * UnitsPerBlock + u)
               ELSE Garbage]]
  /\ resize = NoResize
  /\ outcome = "ok"
  /\ suspect = {}

WriteStep ==
  \E at \in Position : \E n \in 1 .. MaxWrite : at + n <= MaxUnits /\ WriteFile(at, n)

Next ==
  \/ WriteStep
  \/ \E n \in NewSizes : StartResize(n)
  \/ FinishResize

Spec == Init /\ [][Next]_vars

-----------------------------------------------------------------------------
(* Properties. *)

\* The tree is one the functions that read it accept.
TypeOK ==
  /\ size \in 0 .. MaxUnits
  /\ root.depth \in {0, 1}
  /\ Len(root.entries) <= RootMax
  /\ root.depth = 0 => leaf = <<>>
  /\ root.depth = 1 => DOMAIN leaf = Children(root)
  /\ \A b \in DOMAIN leaf : Len(leaf[b]) <= LeafMax
  /\ collect_leaves(root, leaf) \subseteq Extent
  /\ used \subseteq Blocks
  /\ iblocks \in Nat
  /\ outcome \in Outcome
  /\ suspect \subseteq Position

\* No block has two owners and none in the tree is free for another file: the
\* extents are disjoint, no leaf block is data, and all of them are in use.
BlocksOwnedOnce ==
  /\ Owned \subseteq used \ Foreign
  /\ Mapped \cap Children(root) = {}
  /\ \A e, f \in collect_leaves(root, leaf) : e # f => BlocksOf(e) \cap BlocksOf(f) = {}
  /\ root.depth = 1 => \A i, j \in DOMAIN root.entries :
       i # j => /\ root.entries[i].child # root.entries[j].child
                /\ ToSet(leaf[root.entries[i].child]) \cap ToSet(leaf[root.entries[j].child]) = {}

\* The two searches of the tree give the same block for every logical block:
\* the writer's descent through the index, and the reader's sorted extents.
ReadersAgree ==
  \A lb \in LBlock : lookup_block(root, leaf, lb) = resolve_lblock(root, leaf, lb)

\* While the extents are in the root, i_blocks counts the blocks they map.
IBlocksHonest == root.depth = 0 => iblocks = Cardinality(Mapped)

\* An operation that succeeds leaves no block in use that nothing refers to.
NothingLeaked ==
  [][outcome' = "ok" => used' \ (Foreign \cup Owned') = used \ (Foreign \cup Owned)]_vars

\* Outside the positions that writes beyond a hole, resizes into the middle of
\* a block and failed splits have put out of order, the file holds what was
\* written to it.
File == INSTANCE FileData WITH contents <- Contents
ImplementsFile == File!Spec

\* "Write data at byte offset within a file, allocating new blocks as needed":
\* what a write that succeeds has stored is read back.
WriteIsStored ==
  [][\A at \in Position, n \in 1 .. MaxWrite :
       (at + n <= MaxUnits /\ WriteFile(at, n) /\ outcome' = "ok")
       => \A p \in at .. (at + n - 1) : Contents'[p] = Written(p)]_vars
=============================================================================
