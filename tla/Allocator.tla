----------------------------- MODULE Allocator -----------------------------
(***************************************************************************)
(* The allocator of blocks and inodes, and the four places that keep count *)
(* of them: the bitmaps, which it writes to the disk at once; the group    *)
(* descriptors in memory, which it decides by; the descriptors on disk, of *)
(* which a transaction pins a copy; and the totals of the superblock.      *)
(*                                                                         *)
(* A handler is the sequence of calls it makes of the allocator inside one *)
(* transaction.  It may fail between any two of them (the device returns   *)
(* an error, nothing is free), and the process may be killed and the       *)
(* volume mounted again at any point; neither takes back what is on disk.  *)
(* The journal lock keeps a second handler out.  What is written to the    *)
(* log is never replayed (see JournalCommit), so a commit is here its      *)
(* writes in place.                                                        *)
(***************************************************************************)
EXTENDS Integers, FiniteSets, FiniteSetsExt

CONSTANTS
  NumGroups, BlocksPerGroup, InodesPerGroup,
  UsedBitmaps, \* pairs of bitmaps a volume may have when it is mounted, of what no file owns
  MaxRun,      \* bound: blocks one call asks for
  MaxCalls,    \* bound: calls one handler makes
  MaxHandlers, \* bound: handlers
  MaxMounts,   \* bound: mounts
  NoPin

Group == 0 .. (NumGroups - 1)
Bit == 0 .. (BlocksPerGroup - 1)
Slot == 0 .. (InodesPerGroup - 1)
Desc == [blocks : Nat, inodes : Nat, unused : 0 .. InodesPerGroup]

Block == {"block"} \X Group \X Bit
Inode == {"inode"} \X Group \X Slot

ASSUME AllocatorAssumption ==
  /\ NumGroups \in Nat \ {0} /\ BlocksPerGroup \in Nat \ {0} /\ InodesPerGroup \in Nat \ {0}
  /\ UsedBitmaps \subseteq [Group -> SUBSET Bit] \X [Group -> SUBSET Slot]
  /\ MaxRun \in Nat \ {0} /\ MaxCalls \in Nat /\ MaxHandlers \in Nat /\ MaxMounts \in Nat
  /\ NoPin \notin [Group -> Desc] /\ NoPin \notin Nat \X Nat

VARIABLES
  perBlock,  \* descriptors in the first block of the table
  bbm, ibm,  \* bitmaps on disk: the bits that are set
  mem,       \* GroupDescTable
  gdt,       \* the descriptors on disk
  sb,        \* free blocks and inodes in the superblock on disk
  op,        \* the handler that holds the journal lock, or what it is at
  calls,     \* calls it has made
  gpin, spin,\* its copy of the descriptor block and of the superblock
  refs,      \* units in use: blocks that inodes on disk refer to, inodes that directories do
  taken,     \* units it was given and nothing on disk refers to yet
  dropped,   \* units it freed and something on disk still refers to
  torn,      \* history: units freed by a handler that did not get further
  honest,    \* history: mem was right when loaded, and no inode was freed twice
  handlers, mounts

disk == <<bbm, ibm, gdt, sb, refs>>
history == <<torn, honest, handlers, mounts>>
vars == <<perBlock, mem, op, calls, gpin, spin, taken, dropped, disk, history>>

-----------------------------------------------------------------------------
FreeBits(b, g) == Cardinality(Bit \ b[g])
FreeSlots(i, g) == Cardinality(Slot \ i[g])

\* The slots behind the last used one, which the inode table need not hold.
UnusedTail(i, g) == {s \in Slot : \A u \in i[g] : u < s}

\* The descriptors of a volume with these bitmaps.
Counted(b, i) ==
  [g \in Group |-> [blocks |-> FreeBits(b, g), inodes |-> FreeSlots(i, g),
                    unused |-> Cardinality(UnusedTail(i, g))]]

\* Descriptors that count the bitmaps right, and call no used slot unused.
Right(d, b, i) ==
  \A g \in Group :
    /\ d[g].blocks = FreeBits(b, g)
    /\ d[g].inodes = FreeSlots(i, g)
    /\ \A s \in i[g] : s < InodesPerGroup - d[g].unused

\* Their sums over all groups.
Totals(d) == <<SumFunction([g \in Group |-> d[g].blocks]), SumFunction([g \in Group |-> d[g].inodes])>>

-----------------------------------------------------------------------------
(* alloc_blocks and alloc_inode go round the groups, from a hint. *)

\* The first group from h on that is in S.
FirstGroup(h, S) ==
  (h + Min({i \in 0 .. (NumGroups - 1) : (h + i) % NumGroups \in S})) % NumGroups

\* Mutant: the search does not end with the group.
FreeRunsPastEnd(g, n) == {b \in Bit : b .. (b + n - 1) \cap bbm[g] = {}}

\* BlockBitmap::first_free_run: where n clear bits follow each other.
FreeRuns(g, n) == {b \in Bit : b + n <= BlocksPerGroup /\ b .. (b + n - 1) \cap bbm[g] = {}}

GroupsWithRun(n) == {g \in Group : mem[g].blocks >= n /\ FreeRuns(g, n) # {}}

GroupsWithInode == {g \in Group : mem[g].inodes # 0 /\ ibm[g] # Slot}

AtLeast0(n) == IF n < 0 THEN 0 ELSE n

adjust_free_blocks(d, g, n) == [d EXCEPT ![g].blocks = AtLeast0(@ + n)]
adjust_free_inodes(d, g, n) == [d EXCEPT ![g].inodes = AtLeast0(@ + n)]

\* Mutant: the slot counts as the number of used ones.
update_itable_unused_short(d, g, s) ==
  [d EXCEPT ![g].unused = IF InodesPerGroup - s < @ THEN InodesPerGroup - s ELSE @]

update_itable_unused(d, g, s) ==
  [d EXCEPT ![g].unused = IF InodesPerGroup - (s + 1) < @ THEN InodesPerGroup - (s + 1) ELSE @]

\* The copy of the descriptor block that is pinned: what is on disk, with the
\* fields of one group, if its descriptor is in that block.
PinBlocks(g, d) == IF g < perBlock THEN [gdt EXCEPT ![g].blocks = d[g].blocks] ELSE gdt

\* sync_gdt_block
PinInodes(g, d) ==
  IF g < perBlock
  THEN [gdt EXCEPT ![g].inodes = d[g].inodes, ![g].unused = d[g].unused]
  ELSE gdt

-----------------------------------------------------------------------------
Handlers == {"write", "set_size", "create", "delete", "rename"}

\* GroupDescTable::load, and check_and_recover after it: the descriptors in
\* memory are those from before the journal was replayed.
Init ==
  \E now \in UsedBitmaps, before \in UsedBitmaps :
    /\ perBlock \in 1 .. NumGroups
    /\ bbm = now[1] /\ ibm = now[2]
    /\ gdt = Counted(bbm, ibm)
    /\ sb = Totals(gdt)
    /\ mem = Counted(before[1], before[2])
    /\ honest = Right(mem, bbm, ibm)
    /\ op = "none" /\ calls = 0 /\ gpin = NoPin /\ spin = NoPin
    /\ refs = {} /\ taken = {} /\ dropped = {} /\ torn = {}
    /\ handlers = 0 /\ mounts = 1

Begin(h) ==
  /\ op = "none" /\ handlers < MaxHandlers
  /\ op' = h /\ calls' = 0 /\ handlers' = handlers + 1
  /\ UNCHANGED <<perBlock, mem, gpin, spin, taken, dropped, disk, torn, honest, mounts>>

\* A call of the allocator by a handler that is at one of these points.
Call(points) ==
  /\ op \in points /\ calls < MaxCalls /\ spin = NoPin
  /\ calls' = calls + 1
  /\ UNCHANGED <<perBlock, spin, gdt, sb, refs, torn, handlers, mounts>>

\* Mutant: a run is marked from the bit behind the one it starts at.
alloc_blocks_shifted(h, n) ==
  /\ Call({"write", "create_inode", "rename"})
  /\ GroupsWithRun(n) # {}
  /\ LET g == FirstGroup(h, GroupsWithRun(n))
         start == Min(FreeRuns(g, n))
     IN  /\ bbm' = [bbm EXCEPT ![g] = @ \cup ((start + 1 .. start + n) \cap Bit)]
         /\ mem' = adjust_free_blocks(mem, g, -n)
         /\ gpin' = PinBlocks(g, mem')
         /\ taken' = taken \cup {<<"block", g, b>> : b \in start .. (start + n - 1)}
  /\ UNCHANGED <<op, ibm, dropped, honest>>

\* Where no group has a run (NoFreeBlocks), the handler fails.
alloc_blocks(h, n) ==
  /\ Call({"write", "create_inode", "rename"})
  /\ GroupsWithRun(n) # {}
  /\ LET g == FirstGroup(h, GroupsWithRun(n))
         start == Min(FreeRuns(g, n))
         run == start .. (start + n - 1)
     IN  /\ bbm' = [bbm EXCEPT ![g] = @ \cup run]
         /\ mem' = adjust_free_blocks(mem, g, -n)
         /\ gpin' = PinBlocks(g, mem')
         /\ taken' = taken \cup {<<"block", g, b>> : b \in run}
  /\ UNCHANGED <<op, ibm, dropped, honest>>

\* Where the block is free already (DoubleFreed), the handler fails.
free_block(g, b) ==
  /\ Call({"set_size", "delete"})
  /\ <<"block", g, b>> \in refs \ dropped
  /\ b \in bbm[g]
  /\ bbm' = [bbm EXCEPT ![g] = @ \ {b}]
  /\ mem' = adjust_free_blocks(mem, g, 1)
  /\ gpin' = PinBlocks(g, mem')
  /\ dropped' = dropped \cup {<<"block", g, b>>}
  /\ UNCHANGED <<op, ibm, taken, honest>>

alloc_inode(h) ==
  /\ Call({"create"})
  /\ GroupsWithInode # {}
  /\ LET g == FirstGroup(h, GroupsWithInode)
         slot == Min(Slot \ ibm[g])
     IN  /\ ibm' = [ibm EXCEPT ![g] = @ \cup {slot}]
         /\ mem' = update_itable_unused(adjust_free_inodes(mem, g, -1), g, slot)
         /\ gpin' = PinInodes(g, mem')
         /\ taken' = taken \cup {<<"inode", g, slot>>}
  /\ op' = "create_inode"
  /\ UNCHANGED <<bbm, dropped, honest>>

\* An inode that is free already is counted as freed once more: it is one whose
\* removal failed behind free_inode and is tried again.
free_inode(g, s) ==
  /\ Call({"delete"})
  /\ dropped = {}
  /\ <<"inode", g, s>> \in refs
  /\ ibm' = [ibm EXCEPT ![g] = @ \ {s}]
  /\ mem' = adjust_free_inodes(mem, g, 1)
  /\ gpin' = PinInodes(g, mem')
  /\ dropped' = {<<"inode", g, s>>}
  /\ op' = "delete_inode"
  /\ honest' = (honest /\ s \in ibm[g])
  /\ UNCHANGED <<bbm, taken>>

\* extent_append and extent_truncate write the inode back, to the disk at once.
flush_raw_inode ==
  /\ (taken \cup dropped) \cap Block # {}
  /\ refs' = (refs \cup (taken \cap Block)) \ (dropped \cap Block)
  /\ taken' = taken \ Block
  /\ dropped' = dropped \ Block
  /\ UNCHANGED <<perBlock, mem, op, calls, gpin, spin, bbm, ibm, gdt, sb, history>>

\* Mutant: the totals are those of the descriptors on disk.
update_superblock_from_disk ==
  /\ op \in {"write", "set_size"} /\ spin = NoPin
  /\ (taken \cup dropped) \cap Block = {}
  /\ spin' = Totals(gdt)
  /\ UNCHANGED <<perBlock, mem, op, calls, gpin, taken, dropped, disk, history>>

\* Of the handlers, only write and set_size end with it.
update_superblock ==
  /\ op \in {"write", "set_size"} /\ spin = NoPin
  /\ (taken \cup dropped) \cap Block = {}
  /\ spin' = Totals(mem)
  /\ UNCHANGED <<perBlock, mem, op, calls, gpin, taken, dropped, disk, history>>

\* The handler is done with the allocator.
Complete ==
  /\ (taken \cup dropped) \cap Block = {}
  /\ \/ op \in {"write", "set_size"} /\ spin # NoPin
     \/ op \in {"create_inode", "delete", "delete_inode", "rename"}

\* JournalWriter::commit writes the blocks in place in the order in which they
\* were pinned first, the superblock as the last.
CommitDescriptors ==
  /\ Complete
  /\ gdt' = IF gpin = NoPin THEN gdt ELSE gpin
  /\ refs' = (refs \cup taken) \ dropped
  /\ op' = "commit" /\ gpin' = NoPin /\ taken' = {} /\ dropped' = {}
  /\ UNCHANGED <<perBlock, mem, calls, spin, bbm, ibm, sb, history>>

CommitSuperblock ==
  /\ op = "commit"
  /\ sb' = IF spin = NoPin THEN sb ELSE spin
  /\ op' = "none" /\ spin' = NoPin
  /\ UNCHANGED <<perBlock, mem, calls, gpin, taken, dropped, bbm, ibm, gdt, refs, history>>

\* The transaction is gone, what is on the disk stays there.
Abandon ==
  /\ op' = "none" /\ gpin' = NoPin /\ spin' = NoPin /\ taken' = {} /\ dropped' = {}
  /\ torn' = torn \cup dropped
  /\ UNCHANGED <<perBlock, calls, disk>>

Fail == op # "none" /\ Abandon /\ UNCHANGED <<mem, honest, handlers, mounts>>

\* The process ends, at whatever point, and the volume is mounted again.
Remount ==
  /\ mounts < MaxMounts
  /\ mounts' = mounts + 1
  /\ Abandon
  /\ mem' = gdt
  /\ honest' = Right(gdt, bbm, ibm)
  /\ UNCHANGED handlers

Next ==
  \/ \E h \in Handlers : Begin(h)
  \/ \E h \in Group, n \in 1 .. MaxRun : alloc_blocks(h, n)
  \/ \E g \in Group, b \in Bit : free_block(g, b)
  \/ \E h \in Group : alloc_inode(h)
  \/ \E g \in Group, s \in Slot : free_inode(g, s)
  \/ flush_raw_inode \/ update_superblock
  \/ CommitDescriptors \/ CommitSuperblock
  \/ Fail \/ Remount

Spec == Init /\ [][Next]_vars

-----------------------------------------------------------------------------
\* Everything has its type, and nothing is both new and given up.
AllocTypeOK ==
  /\ perBlock \in 1 .. NumGroups
  /\ bbm \in [Group -> SUBSET Bit] /\ ibm \in [Group -> SUBSET Slot]
  /\ mem \in [Group -> Desc] /\ gdt \in [Group -> Desc]
  /\ gpin \in [Group -> Desc] \cup {NoPin}
  /\ refs \subseteq Block \cup Inode /\ taken \subseteq Block \cup Inode
  /\ dropped \subseteq refs /\ torn \subseteq Block \cup Inode

Marked(u) == u[3] \in IF u[1] = "block" THEN bbm[u[2]] ELSE ibm[u[2]]

\* What is in use, or was just handed out, is marked in the bitmap on disk, and
\* nothing is handed out that is in use, whatever the counters say, whichever
\* handlers failed and however often the process was killed; only a block or an
\* inode that was freed by a handler that failed behind it is not safe any more.
NeverTwice ==
  /\ \A u \in (refs \cup taken) \ (dropped \cup torn) : Marked(u)
  /\ taken \cap refs \subseteq torn

\* The descriptors in memory stay right if they were right when they were
\* loaded: through failing handlers too, which drop their transaction but
\* neither their marks nor their counts.  No used slot is called unused.
CountsStayRight == honest => Right(mem, bbm, ibm)

\* The totals in the superblock are right whenever they are written.
TotalsRightWhenWritten ==
  [][honest /\ sb' # sb => sb' = Totals(Counted(bbm, ibm))]_vars
=============================================================================
