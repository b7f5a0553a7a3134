---------------------------- MODULE MCInodeTable ----------------------------
(* Six inodes in two groups, one, two and four to a block; an old volume's *)
(* superblock, one that counts more inodes than its groups have, and three *)
(* that are refused.                                                       *)
EXTENDS InodeTable

Sized(log, rev, size) ==
  [magic |-> TRUE, unsupported |-> FALSE, log_block_size |-> log, rev_level |-> rev,
   inode_size |-> size, inodes_count |-> 6, inodes_per_group |-> 3, blocks_count |-> 40,
   blocks_per_group |-> 20, desc_size |-> 0]

MCSuperblocks ==
  {Sized(0, 1, 1024), Sized(0, 1, 512), Sized(0, 1, 256), Sized(0, 0, 512),
   [Sized(0, 1, 512) EXCEPT !.blocks_count = 20],
   Sized(0, 1, 768), Sized(7, 1, 256), [Sized(0, 1, 256) EXCEPT !.inodes_per_group = 0]}

MCFound == {[used |-> TRUE, root |-> 0, attr |-> 0]}
=============================================================================
