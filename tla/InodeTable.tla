----------------------------- MODULE InodeTable -----------------------------
(***************************************************************************)
(* The inode tables of a volume and the four ways the code finds and       *)
(* edits an inode in them.  A block of a table holds several inodes, so    *)
(* every edit of one reads and rewrites its neighbours; some edits reach   *)
(* the disk at once, others only with the transaction.                     *)
(*                                                                         *)
(* A raw inode is what the callers tell apart: whether it is in use        *)
(* (i_dtime), the root of its extents (i_block, i_blocks), and the fields  *)
(* that update_inode sets (size, links, times).  All of this happens under *)
(* the journal lock and the group lock, one call after another.            *)
(***************************************************************************)
EXTENDS Superblock

CONSTANTS
  Superblocks, \* the superblocks a volume may have
  TableBlock,  \* the blocks where an inode table may start
  Root, Attr,  \* the values of an extent root, and of the other fields
  NewRoot, NewAttr, \* the values that init_inode gives
  Found,       \* the raw inodes a volume may hold when it is mounted
  MaxEdits     \* bound: edits in all

ASSUME InodeTableAssumption ==
  /\ Superblocks \subseteq RawSuperblock
  /\ TableBlock \subseteq Nat
  /\ NewRoot \in Root /\ NewAttr \in Attr
  /\ Found \subseteq [used : BOOLEAN, root : Root, attr : Attr]
  /\ MaxEdits \in Nat

Raw == [used : BOOLEAN, root : Root, attr : Attr]

VARIABLES
  sb,      \* the parsed superblock
  gdt,     \* of each group, the first block of its inode table
  disk,    \* of each block of a table, the raw inode at each offset
  pinned,  \* the blocks of the transaction
  open,    \* a transaction has been begun
  want,    \* history: of each inode, what the calls have made of it
  edits    \* edits made so far

vars == <<sb, gdt, disk, pinned, open, want, edits>>

-----------------------------------------------------------------------------
group_of(i) == (i - 1) \div sb.inodes_per_group
index_in_group(i) == (i - 1) % sb.inodes_per_group

\* The groups that there are descriptors of; an inode of another is out of range.
groups_count == (sb.blocks_count + sb.blocks_per_group - 1) \div sb.blocks_per_group
Groups == 0 .. groups_count - 1
Inodes == {i \in 1 .. sb.inodes_count : group_of(i) \in Groups}

inodes_per_block == sb.block_size \div sb.inode_size

\* Mutant: the slot in the block is not counted from the block's start.
load_inode_table_block_unreduced(i) ==
  <<gdt[group_of(i)] + index_in_group(i) \div inodes_per_block,
    (index_in_group(i) % (inodes_per_block + 1)) * sb.inode_size>>

\* inode_alloc.rs, and in the same words extent_write.rs and read_inode_with_txn.
load_inode_table_block(i) ==
  <<gdt[group_of(i)] + index_in_group(i) \div inodes_per_block,
    (index_in_group(i) % inodes_per_block) * sb.inode_size>>

\* inode_write.rs goes by the offset in the table.
update_location(i) ==
  LET offset == index_in_group(i) * sb.inode_size
  IN  <<gdt[group_of(i)] + offset \div sb.block_size, offset % sb.block_size>>

\* inode.rs goes by the byte on the volume.
read_location(i) ==
  LET byte == gdt[group_of(i)] * sb.block_size + index_in_group(i) * sb.inode_size
  IN  <<byte \div sb.block_size, byte % sb.block_size>>

\* The blocks of one table, and where inodes start in a block.
TableBlocks(g) == gdt[g] .. gdt[g] + (sb.inodes_per_group - 1) \div inodes_per_block
Blocks == UNION {TableBlocks(g) : g \in Groups}
Offsets == {k * sb.inode_size : k \in 0 .. inodes_per_block - 1}

At(blocks, loc) == blocks[loc[1]][loc[2]]

\* The copy that counts within the transaction.
Latest == [b \in Blocks |-> IF b \in DOMAIN pinned THEN pinned[b] ELSE disk[b]]

read_inode(i) == At(disk, read_location(i))
read_inode_with_txn(i) == At(Latest, load_inode_table_block(i))

-----------------------------------------------------------------------------
\* mke2fs: the tables of two groups have no block in common.
TablesApart == \A g, h \in Groups : g # h => TableBlocks(g) \cap TableBlocks(h) = {}

Init ==
  /\ \E raw \in Superblocks : parses(raw) /\ sb = parse(raw)
  /\ gdt \in [Groups -> TableBlock] /\ TablesApart
  /\ disk \in [Blocks -> [Offsets -> Found]]
  /\ pinned = [b \in {} |-> disk[b]] /\ open = FALSE
  /\ want = [i \in Inodes |-> read_inode(i)]
  /\ edits = 0

begin_transaction ==
  /\ ~open /\ open' = TRUE
  /\ UNCHANGED <<sb, gdt, disk, pinned, want, edits>>

\* A block with one inode replaced, into the transaction, and to the disk.
Rewritten(loc, raw) == [Latest[loc[1]] EXCEPT ![loc[2]] = raw]

Pin(loc, raw) ==
  pinned' = [b \in DOMAIN pinned \cup {loc[1]} |-> IF b = loc[1] THEN Rewritten(loc, raw) ELSE pinned[b]]

WriteThrough(loc, raw) == disk' = [disk EXCEPT ![loc[1]] = Rewritten(loc, raw)]

Edited(i, raw) ==
  /\ open /\ edits < MaxEdits
  /\ edits' = edits + 1
  /\ want' = [want EXCEPT ![i] = raw]
  /\ UNCHANGED <<sb, gdt, open>>

\* alloc_inode hands out no inode that is in use.
init_inode(i) ==
  LET raw == [used |-> TRUE, root |-> NewRoot, attr |-> NewAttr]
      loc == load_inode_table_block(i)
  IN  /\ ~read_inode_with_txn(i).used
      /\ Pin(loc, raw) /\ WriteThrough(loc, raw)
      /\ Edited(i, raw)

free_inode(i) ==
  LET loc == load_inode_table_block(i)
      raw == [At(Latest, loc) EXCEPT !.used = FALSE]
  IN  /\ Pin(loc, raw) /\ WriteThrough(loc, raw)
      /\ Edited(i, [want[i] EXCEPT !.used = FALSE])

\* Mutant: the block is read from the disk, also when the transaction has it.
update_inode_from_disk(i, a) ==
  LET loc == update_location(i)
      raw == [At(disk, loc) EXCEPT !.attr = a]
  IN  /\ pinned' = [b \in DOMAIN pinned \cup {loc[1]} |->
                      IF b = loc[1] THEN [disk[b] EXCEPT ![loc[2]] = raw] ELSE pinned[b]]
      /\ Edited(i, [want[i] EXCEPT !.attr = a])
      /\ UNCHANGED disk

update_inode(i, a) ==
  LET loc == update_location(i)
      raw == [At(Latest, loc) EXCEPT !.attr = a]
  IN  /\ Pin(loc, raw)
      /\ Edited(i, [want[i] EXCEPT !.attr = a])
      /\ UNCHANGED disk

\* Mutant: the root goes into the transaction alone.
flush_raw_inode_pinned(i, r) ==
  LET loc == load_inode_table_block(i)
      raw == [At(Latest, loc) EXCEPT !.root = r]
  IN  /\ read_inode(i).used
      /\ Pin(loc, raw)
      /\ Edited(i, [want[i] EXCEPT !.root = r])
      /\ UNCHANGED disk

\* extent_append and extent_truncate: the inode is asked for on the disk, and
\* its raw form read and written back with the transaction's copy.
flush_raw_inode(i, r) ==
  LET loc == load_inode_table_block(i)
      raw == [At(Latest, loc) EXCEPT !.root = r]
  IN  /\ read_inode(i).used
      /\ Pin(loc, raw) /\ WriteThrough(loc, raw)
      /\ Edited(i, [want[i] EXCEPT !.root = r])

\* Every pinned block goes to its place.
commit ==
  /\ open /\ open' = FALSE
  /\ disk' = Latest
  /\ pinned' = [b \in {} |-> disk[b]]
  /\ UNCHANGED <<sb, gdt, want, edits>>

\* Mutant: the next transaction starts with the blocks of the dropped one.
Abandon_keeps_blocks ==
  /\ open /\ open' = FALSE
  /\ want' = [i \in Inodes |-> read_inode(i)]
  /\ UNCHANGED <<sb, gdt, disk, pinned, edits>>

\* A handler returns an error and drops the transaction: what was written
\* through stays.
Abandon ==
  /\ open /\ open' = FALSE
  /\ pinned' = [b \in {} |-> disk[b]]
  /\ want' = [i \in Inodes |-> read_inode(i)]
  /\ UNCHANGED <<sb, gdt, disk, edits>>

Edit(i) ==
  \/ init_inode(i) \/ free_inode(i)
  \/ \E a \in Attr : update_inode(i, a)
  \/ \E r \in Root : flush_raw_inode(i, r)

Next == begin_transaction \/ commit \/ Abandon \/ \E i \in Inodes : Edit(i)

Spec == Init /\ [][Next]_vars

-----------------------------------------------------------------------------
\* The tables hold raw inodes, and blocks are pinned only in a transaction.
InodeTypeOK ==
  /\ disk \in [Blocks -> [Offsets -> Raw]]
  /\ DOMAIN pinned \subseteq Blocks
  /\ \A b \in DOMAIN pinned : pinned[b] \in [Offsets -> Raw]
  /\ want \in [Inodes -> Raw]
  /\ ~open => DOMAIN pinned = {}

\* On every volume that superblock::parse accepts, the four computations of an
\* inode's place come to the same, it is a place of the inode's own table, and
\* no two inodes share one.
SlotsApart ==
  /\ \A i \in Inodes :
       /\ update_location(i) = load_inode_table_block(i)
       /\ read_location(i) = load_inode_table_block(i)
       /\ load_inode_table_block(i) \in TableBlocks(group_of(i)) \X Offsets
  /\ \A i, j \in Inodes : load_inode_table_block(i) = load_inode_table_block(j) => i = j

\* inode_write.rs: an edit never reverts an earlier one of the same
\* transaction, to the inode or to one beside it: what read_inode_with_txn
\* reads, and what a commit makes last, is all that has been asked for.
NoEditReverted == \A i \in Inodes : read_inode_with_txn(i) = want[i]

\* extent_append, dir_lookup_entry and the file reader ask the disk, also in the
\* middle of a transaction, whether an inode is in use and where its blocks
\* are: those two are never older there than in the transaction.
RootsOnDisk ==
  \A i \in Inodes : read_inode(i).used = want[i].used /\ read_inode(i).root = want[i].root
=============================================================================
