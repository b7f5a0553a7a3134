----------------------------- MODULE Superblock -----------------------------
(***************************************************************************)
(* What superblock::parse makes of the bytes of a superblock, and which    *)
(* ones it refuses.  The fields that nothing but a display uses are left   *)
(* out.                                                                    *)
(***************************************************************************)
EXTENDS Integers

\* The fields on disk; magic and unsupported are the outcomes of two tests.
RawSuperblock ==
  [magic : BOOLEAN, unsupported : BOOLEAN, log_block_size : Nat, rev_level : Nat, inode_size : Nat,
   inodes_count : Nat, inodes_per_group : Nat, blocks_count : Nat, blocks_per_group : Nat,
   desc_size : Nat]

\* 1024 << s_log_block_size, as far as 64 KiB.
block_sizes == <<1024, 2048, 4096, 8192, 16384, 32768, 65536>>

inode_size(raw) == IF raw.rev_level = 0 \/ raw.inode_size < 128 THEN 128 ELSE raw.inode_size

parses(raw) ==
  /\ raw.magic /\ ~raw.unsupported
  /\ raw.log_block_size <= 6
  /\ inode_size(raw) \in {128, 256, 512, 1024}
  /\ raw.inodes_per_group # 0 /\ raw.blocks_per_group # 0

parse(raw) ==
  [block_size |-> block_sizes[raw.log_block_size + 1], inode_size |-> inode_size(raw),
   inodes_count |-> raw.inodes_count, inodes_per_group |-> raw.inodes_per_group,
   blocks_count |-> raw.blocks_count, blocks_per_group |-> raw.blocks_per_group,
   desc_size |-> IF raw.desc_size < 32 THEN 32 ELSE raw.desc_size]
=============================================================================
