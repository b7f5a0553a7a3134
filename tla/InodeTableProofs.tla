-------------------------- MODULE InodeTableProofs --------------------------
(***************************************************************************)
(* Proofs about InodeTable for every volume that superblock::parse accepts *)
(* and any number of edits.  First the arithmetic: an inode has one place, *)
(* whichever of the four ways it is computed by.  Then, with every place   *)
(* written by the edits of one inode only, that no edit is lost.           *)
(***************************************************************************)
EXTENDS InodeTable, TLAPS

BlockSizes == {1024, 2048, 4096, 8192, 16384, 32768, 65536}
InodeSizes == {128, 256, 512, 1024}

\* Quotient and remainder.
LEMMA DivMod ==
  ASSUME NEW x \in Nat, NEW p \in Nat \ {0}
  PROVE  x \div p \in Nat /\ x % p \in 0 .. p - 1 /\ x = p * (x \div p) + (x % p)
OBVIOUS

\* Sizes that are powers of two divide each other.
LEMMA Divides ==
  ASSUME NEW b \in BlockSizes, NEW s \in InodeSizes
  PROVE  /\ b \div s \in {1, 2, 4, 8, 16, 32, 64, 128, 256, 512}
         /\ b = (b \div s) * s
BY DEF BlockSizes, InodeSizes

\* A whole number of inodes, measured in bytes, falls into blocks as the inodes do.
LEMMA Scaled ==
  ASSUME NEW b \in BlockSizes, NEW s \in InodeSizes, NEW x \in Nat
  PROVE  /\ (x * s) \div b = x \div (b \div s)
         /\ (x * s) % b = (x % (b \div s)) * s
BY DEF BlockSizes, InodeSizes

\* Bytes counted from the start of the volume or of the table: the same offset.
LEMMA WholeBlocks ==
  ASSUME NEW b \in BlockSizes, NEW t \in Nat, NEW y \in Nat
  PROVE  (t * b + y) \div b = t + y \div b /\ (t * b + y) % b = y % b
BY DEF BlockSizes

\* A later inode is in no earlier block.
LEMMA DivMonotone ==
  ASSUME NEW k \in {1, 2, 4, 8, 16, 32, 64, 128, 256, 512}, NEW x \in Nat, NEW y \in Nat, x <= y
  PROVE  x \div k <= y \div k
OBVIOUS

-----------------------------------------------------------------------------
(* What a volume that is mounted has, and keeps. *)

Geometry ==
  /\ sb.block_size \in BlockSizes /\ sb.inode_size \in InodeSizes
  /\ sb.inodes_count \in Nat
  /\ sb.inodes_per_group \in Nat \ {0} /\ sb.blocks_per_group \in Nat \ {0}
  /\ sb.blocks_count \in Nat
  /\ gdt \in [Groups -> Nat]
  /\ TablesApart

\* A superblock that parse does not refuse has sizes that divide each other.
LEMMA ParsedSizes ==
  ASSUME NEW raw \in RawSuperblock, parses(raw)
  PROVE  /\ parse(raw).block_size \in BlockSizes
         /\ parse(raw).inode_size \in InodeSizes
         /\ parse(raw).inodes_count \in Nat
         /\ parse(raw).inodes_per_group \in Nat \ {0}
         /\ parse(raw).blocks_per_group \in Nat \ {0}
         /\ parse(raw).blocks_count \in Nat
<1>1. raw.log_block_size \in 0 .. 6
  BY DEF parses, RawSuperblock
<1>2. block_sizes[raw.log_block_size + 1] \in BlockSizes
  BY <1>1 DEF block_sizes, BlockSizes
<1> QED
  BY <1>2 DEF parses, parse, RawSuperblock, InodeSizes

\* A mounted volume has such a superblock.
LEMMA InitGeometry == Init => Geometry
<1> SUFFICES ASSUME Init PROVE Geometry
  OBVIOUS
<1>1. PICK raw \in Superblocks : parses(raw) /\ sb = parse(raw)
  BY DEF Init
<1>2. raw \in RawSuperblock
  BY InodeTableAssumption
<1>3. gdt \in [Groups -> Nat]
  BY InodeTableAssumption DEF Init
<1> QED
  BY <1>1, <1>2, <1>3, ParsedSizes DEF Init, Geometry

\* Inodes fill a block without remainder.
LEMMA Sizes ==
  ASSUME Geometry
  PROVE  /\ inodes_per_block \in {1, 2, 4, 8, 16, 32, 64, 128, 256, 512}
         /\ sb.block_size = inodes_per_block * sb.inode_size
         /\ sb.block_size \in Nat \ {0} /\ sb.inode_size \in Nat \ {0}
<1>1. sb.block_size \in BlockSizes /\ sb.inode_size \in InodeSizes
  BY DEF Geometry
<1>2. sb.block_size \in Nat \ {0} /\ sb.inode_size \in Nat \ {0}
  BY <1>1 DEF BlockSizes, InodeSizes
<1> QED
  BY <1>1, <1>2, Divides DEF inodes_per_block

\* Where an inode is within its group.
LEMMA InGroup ==
  ASSUME Geometry, NEW i \in Inodes
  PROVE  /\ i \in Nat /\ group_of(i) \in Groups /\ group_of(i) \in Nat
         /\ index_in_group(i) \in 0 .. sb.inodes_per_group - 1
         /\ i - 1 = sb.inodes_per_group * group_of(i) + index_in_group(i)
<1>1. i \in Nat /\ i - 1 \in Nat /\ group_of(i) \in Groups
  BY DEF Inodes, Geometry
<1>2. sb.inodes_per_group \in Nat \ {0}
  BY DEF Geometry
<1> QED
  BY <1>1, <1>2, DivMod DEF group_of, index_in_group

\* The computations by slot, by offset in the table and by byte on the volume
\* come to the same.
LEMMA LocationsAgree ==
  ASSUME Geometry, NEW i \in Inodes
  PROVE  /\ update_location(i) = load_inode_table_block(i)
         /\ read_location(i) = load_inode_table_block(i)
<1> DEFINE x == index_in_group(i)
           T == gdt[group_of(i)]
<1>1. x \in Nat /\ T \in Nat
  BY InGroup DEF Geometry
<1>2. sb.block_size \in BlockSizes /\ sb.inode_size \in InodeSizes
  BY DEF Geometry
<1> HIDE DEF x, T
<1>3. /\ (x * sb.inode_size) \div sb.block_size = x \div inodes_per_block
      /\ (x * sb.inode_size) % sb.block_size = (x % inodes_per_block) * sb.inode_size
  BY <1>1, <1>2, Scaled DEF inodes_per_block
<1>4. x * sb.inode_size \in Nat
  BY <1>1, <1>2 DEF InodeSizes
<1>5. /\ (T * sb.block_size + x * sb.inode_size) \div sb.block_size = T + (x * sb.inode_size) \div sb.block_size
      /\ (T * sb.block_size + x * sb.inode_size) % sb.block_size = (x * sb.inode_size) % sb.block_size
  BY <1>1, <1>2, <1>4, WholeBlocks
<1>6. update_location(i) = <<T + (x * sb.inode_size) \div sb.block_size, (x * sb.inode_size) % sb.block_size>>
  BY DEF update_location, x, T
<1>7. read_location(i) = <<(T * sb.block_size + x * sb.inode_size) \div sb.block_size,
                           (T * sb.block_size + x * sb.inode_size) % sb.block_size>>
  BY DEF read_location, x, T
<1>8. load_inode_table_block(i) = <<T + x \div inodes_per_block, (x % inodes_per_block) * sb.inode_size>>
  BY DEF load_inode_table_block, x, T
<1> QED
  BY <1>3, <1>5, <1>6, <1>7, <1>8

\* The place is in the table of the inode's group, at the start of a slot.
LEMMA InTable ==
  ASSUME Geometry, NEW i \in Inodes
  PROVE  /\ load_inode_table_block(i) \in TableBlocks(group_of(i)) \X Offsets
         /\ load_inode_table_block(i) \in Blocks \X Offsets
<1> DEFINE x == index_in_group(i)
           k == inodes_per_block
           last == sb.inodes_per_group - 1
           T == gdt[group_of(i)]
<1>1. x \in Nat /\ last \in Nat /\ x <= last /\ T \in Nat /\ group_of(i) \in Groups
  BY InGroup DEF Geometry
<1>2. k \in {1, 2, 4, 8, 16, 32, 64, 128, 256, 512}
  BY Sizes
<1>3. load_inode_table_block(i) = <<T + x \div k, (x % k) * sb.inode_size>>
  BY DEF load_inode_table_block
<1>4. TableBlocks(group_of(i)) = T .. T + last \div k /\ Offsets = {j * sb.inode_size : j \in 0 .. k - 1}
  BY DEF TableBlocks, Offsets
<1> HIDE DEF x, k, last, T
<1>5. x \div k <= last \div k
  BY <1>1, <1>2, DivMonotone
<1>10. x \div k \in Nat /\ last \div k \in Nat /\ x % k \in 0 .. k - 1
  <2>1. k \in Nat \ {0}
    BY <1>2
  <2> QED
    BY <1>1, <2>1, DivMod
<1>6. T + x \div k \in T .. T + last \div k
  BY <1>1, <1>5, <1>10
<1>7. (x % k) * sb.inode_size \in Offsets
  BY <1>4, <1>10
<1>8. load_inode_table_block(i) \in TableBlocks(group_of(i)) \X Offsets
  BY <1>3, <1>4, <1>6, <1>7
<1>9. TableBlocks(group_of(i)) \subseteq Blocks
  BY <1>1 DEF Blocks
<1> QED
  BY <1>8, <1>9

\* No two inodes have one place.
LEMMA SameSlotSameInode ==
  ASSUME Geometry, NEW i \in Inodes, NEW j \in Inodes,
         load_inode_table_block(i) = load_inode_table_block(j)
  PROVE  i = j
<1>1. group_of(i) = group_of(j)
  <2>1. load_inode_table_block(i)[1] \in TableBlocks(group_of(i)) \cap TableBlocks(group_of(j))
    BY InTable
  <2> QED
    BY <2>1, InGroup DEF Geometry, TablesApart
<1> DEFINE x == index_in_group(i)
           y == index_in_group(j)
           k == inodes_per_block
           T == gdt[group_of(i)]
           s == sb.inode_size
<1>2. x \in Nat /\ y \in Nat /\ T \in Nat
  BY InGroup DEF Geometry
<1>3. k \in Nat \ {0} /\ s \in Nat \ {0}
  BY Sizes
<1>4. T + x \div k = T + y \div k /\ (x % k) * s = (y % k) * s
  BY <1>1 DEF load_inode_table_block
<1>5. i - 1 = sb.inodes_per_group * group_of(i) + x /\ j - 1 = sb.inodes_per_group * group_of(j) + y
  BY InGroup
<1>6. /\ sb.inodes_per_group * group_of(i) \in Nat /\ i \in Nat /\ j \in Nat
  BY InGroup DEF Geometry
<1> HIDE DEF x, y, k, T, s
<1>7. x \div k \in Nat /\ y \div k \in Nat /\ x % k \in Nat /\ y % k \in Nat
  BY <1>2, <1>3, DivMod
<1>8. x \div k = y \div k
  BY <1>2, <1>4, <1>7
<1>9. x % k = y % k
  <2> DEFINE a == x % k
             b == y % k
  <2>1. a \in Nat /\ b \in Nat /\ a * s = b * s
    BY <1>4, <1>7
  <2> HIDE DEF a, b
  <2>2. a = b
    BY <2>1, <1>3
  <2> QED
    BY <2>2 DEF a, b
<1>10. x = y
  BY <1>2, <1>3, <1>8, <1>9, DivMod
<1> QED
  BY <1>1, <1>5, <1>6, <1>10

-----------------------------------------------------------------------------
(* The edits. *)

TableInv == Geometry /\ InodeTypeOK /\ NoEditReverted /\ RootsOnDisk

\* Nothing about a volume's geometry depends on more than sb and gdt.
LEMMA GeometryStays ==
  ASSUME Geometry, UNCHANGED <<sb, gdt>>
  PROVE  /\ Geometry'
         /\ Inodes' = Inodes /\ Blocks' = Blocks /\ Offsets' = Offsets
         /\ \A i \in Inodes :
              /\ load_inode_table_block(i)' = load_inode_table_block(i)
              /\ read_location(i)' = load_inode_table_block(i)
<1>1. \A i : group_of(i)' = group_of(i) /\ index_in_group(i)' = index_in_group(i)
  BY DEF group_of, index_in_group
<1>2. groups_count' = groups_count /\ Groups' = Groups
  BY DEF groups_count, Groups
<1>3. Inodes' = Inodes
  BY <1>1, <1>2 DEF Inodes
<1>4. inodes_per_block' = inodes_per_block /\ Offsets' = Offsets
  BY DEF inodes_per_block, Offsets
<1>5. \A g : TableBlocks(g)' = TableBlocks(g)
  BY <1>4 DEF TableBlocks
<1>6. Blocks' = Blocks
  BY <1>2, <1>5 DEF Blocks
<1>7. TablesApart'
  BY <1>2, <1>5 DEF Geometry, TablesApart
<1>8. \A i : load_inode_table_block(i)' = load_inode_table_block(i)
  BY <1>1, <1>4 DEF load_inode_table_block
<1>9. \A i : read_location(i)' = read_location(i)
  BY <1>1 DEF read_location
<1>10. Geometry'
  BY <1>2, <1>7 DEF Geometry
<1> QED
  BY <1>3, <1>4, <1>6, <1>8, <1>9, <1>10, LocationsAgree

\* The copies that count are blocks of raw inodes.
LEMMA LatestTyped ==
  ASSUME InodeTypeOK
  PROVE  Latest \in [Blocks -> [Offsets -> Raw]]
BY DEF InodeTypeOK, Latest

\* What the invariant says of an inode, by its one place.
LEMMA AtItsPlace ==
  ASSUME TableInv, NEW i \in Inodes
  PROVE  /\ At(Latest, load_inode_table_block(i)) = want[i]
         /\ want[i] \in Raw
         /\ At(disk, load_inode_table_block(i)).used = want[i].used
         /\ At(disk, load_inode_table_block(i)).root = want[i].root
<1>1. Geometry /\ read_location(i) = load_inode_table_block(i)
  BY LocationsAgree DEF TableInv
<1> QED
  BY <1>1 DEF TableInv, NoEditReverted, RootsOnDisk, InodeTypeOK, read_inode, read_inode_with_txn

\* And the other way round.
LEMMA FromPlaces ==
  ASSUME TableInv, UNCHANGED <<sb, gdt>>, InodeTypeOK',
         \A i \in Inodes :
           /\ At(Latest', load_inode_table_block(i)) = want'[i]
           /\ At(disk', load_inode_table_block(i)).used = want'[i].used
           /\ At(disk', load_inode_table_block(i)).root = want'[i].root
  PROVE  TableInv'
<1>1. /\ Geometry' /\ Inodes' = Inodes
      /\ \A i \in Inodes :
           /\ load_inode_table_block(i)' = load_inode_table_block(i)
           /\ read_location(i)' = load_inode_table_block(i)
  BY GeometryStays DEF TableInv
<1>2. NoEditReverted'
  BY <1>1 DEF NoEditReverted, read_inode_with_txn, At
<1>3. RootsOnDisk'
  BY <1>1 DEF RootsOnDisk, read_inode, At
<1> QED
  BY <1>1, <1>2, <1>3 DEF TableInv

\* A pinned edit replaces one inode of the copy that counts; where the block is
\* written through as well, the disk gets that block.
LEMMA EditOne ==
  ASSUME TableInv, NEW i \in Inodes, NEW raw \in Raw,
         Pin(load_inode_table_block(i), raw), Edited(i, raw),
         \/ WriteThrough(load_inode_table_block(i), raw)
         \/ UNCHANGED disk /\ raw.used = want[i].used /\ raw.root = want[i].root
  PROVE  TableInv'
<1> DEFINE L(j) == load_inode_table_block(j)
           b == L(i)[1]
           o == L(i)[2]
           new == [Latest[b] EXCEPT ![o] = raw]
<1>1. Geometry /\ InodeTypeOK /\ UNCHANGED <<sb, gdt>>
  BY DEF TableInv, Edited
<1>2. Blocks' = Blocks /\ Offsets' = Offsets /\ Inodes' = Inodes
  BY <1>1, GeometryStays
<1>3. b \in Blocks /\ o \in Offsets /\ \A j \in Inodes : L(j)[1] \in Blocks /\ L(j)[2] \in Offsets
  BY <1>1, InTable
<1>4. \A j \in Inodes : j # i => L(j)[1] # b \/ L(j)[2] # o
  <2> SUFFICES ASSUME NEW j \in Inodes, L(j)[1] = b, L(j)[2] = o PROVE j = i
    OBVIOUS
  <2>1. L(i) \in Blocks \X Offsets /\ L(j) \in Blocks \X Offsets
    BY <1>1, InTable
  <2>2. L(i) = L(j)
    BY <2>1
  <2> QED
    BY <1>1, <2>2, SameSlotSameInode
<1>5. Latest \in [Blocks -> [Offsets -> Raw]] /\ disk \in [Blocks -> [Offsets -> Raw]]
  BY <1>1, LatestTyped DEF InodeTypeOK
<1>6. \A j \in Inodes : /\ Latest[L(j)[1]][L(j)[2]] = want[j]
                        /\ disk[L(j)[1]][L(j)[2]].used = want[j].used
                        /\ disk[L(j)[1]][L(j)[2]].root = want[j].root
  BY AtItsPlace DEF At
<1>7. want \in [Inodes -> Raw] /\ want' = [want EXCEPT ![i] = raw]
  BY <1>1 DEF InodeTypeOK, Edited
<1>8. pinned' = [c \in DOMAIN pinned \cup {b} |-> IF c = b THEN new ELSE pinned[c]]
  BY DEF Pin, Rewritten
<1>9. disk' = [disk EXCEPT ![b] = new] \/ (disk' = disk /\ raw.used = want[i].used /\ raw.root = want[i].root)
  BY DEF WriteThrough, Rewritten
<1>10. Latest' = [Latest EXCEPT ![b] = new]
  <2>1. Latest' = [c \in Blocks |-> IF c \in DOMAIN pinned' THEN pinned'[c] ELSE disk'[c]]
    BY <1>2 DEF Latest
  <2>2. DOMAIN pinned' = DOMAIN pinned \cup {b} /\ pinned'[b] = new
        /\ \A c \in DOMAIN pinned \ {b} : pinned'[c] = pinned[c]
    BY <1>8
  <2>3. \A c \in Blocks : c # b => disk'[c] = disk[c]
    BY <1>9, <1>5
  <2> HIDE DEF new, b
  <2>4. \A c \in Blocks : Latest'[c] = IF c = b THEN new ELSE Latest[c]
    BY <2>1, <2>2, <2>3 DEF Latest
  <2> QED
    BY <2>1, <2>4, <1>5
<1>11. new \in [Offsets -> Raw]
  BY <1>3, <1>5
<1>12. InodeTypeOK'
  <2>1. disk' \in [Blocks -> [Offsets -> Raw]]
    BY <1>5, <1>9, <1>11
  <2>2. DOMAIN pinned' \subseteq Blocks /\ \A c \in DOMAIN pinned' : pinned'[c] \in [Offsets -> Raw]
    BY <1>1, <1>3, <1>8, <1>11 DEF InodeTypeOK
  <2>3. want' \in [Inodes -> Raw]
    BY <1>7
  <2>4. open /\ open' = open
    BY DEF Edited
  <2> QED
    BY <1>2, <2>1, <2>2, <2>3, <2>4 DEF InodeTypeOK
<1> HIDE DEF L, b, o
<1>13. ASSUME NEW j \in Inodes
       PROVE  Latest'[L(j)[1]][L(j)[2]] = want'[j]
  BY <1>3, <1>4, <1>5, <1>6, <1>7, <1>10 DEF b, o
<1>14. ASSUME NEW j \in Inodes
       PROVE  /\ disk'[L(j)[1]][L(j)[2]].used = want'[j].used
              /\ disk'[L(j)[1]][L(j)[2]].root = want'[j].root
  BY <1>3, <1>4, <1>5, <1>6, <1>7, <1>9 DEF b, o
<1> QED
  BY <1>1, <1>12, <1>13, <1>14, FromPlaces DEF L, At

\* Each of the four edits is one of an inode at its place, whichever way that
\* is computed, made of what the calls before it left there.
LEMMA EditSteps ==
  ASSUME TableInv, NEW i \in Inodes, Edit(i)
  PROVE  TableInv'
<1> DEFINE L == load_inode_table_block(i)
<1>1. /\ At(Latest, L) = want[i] /\ want[i] \in Raw
      /\ update_location(i) = L
  BY AtItsPlace, LocationsAgree DEF TableInv
<1>2. NewRoot \in Root /\ NewAttr \in Attr
  BY InodeTableAssumption
<1>3. CASE init_inode(i)
  <2> DEFINE raw == [used |-> TRUE, root |-> NewRoot, attr |-> NewAttr]
  <2>1. raw \in Raw
    BY <1>2 DEF Raw
  <2>2. Pin(L, raw) /\ WriteThrough(L, raw) /\ Edited(i, raw)
    BY <1>3 DEF init_inode
  <2> QED
    BY <2>1, <2>2, EditOne
<1>4. CASE free_inode(i)
  <2> DEFINE raw == [want[i] EXCEPT !.used = FALSE]
  <2>1. raw \in Raw
    BY <1>1 DEF Raw
  <2>2. Pin(L, raw) /\ WriteThrough(L, raw) /\ Edited(i, raw)
    BY <1>1, <1>4 DEF free_inode
  <2> QED
    BY <2>1, <2>2, EditOne
<1>5. ASSUME NEW a \in Attr, update_inode(i, a)
      PROVE  TableInv'
  <2> DEFINE raw == [want[i] EXCEPT !.attr = a]
  <2>1. raw \in Raw /\ raw.used = want[i].used /\ raw.root = want[i].root
    BY <1>1, <1>5 DEF Raw
  <2>2. Pin(L, raw) /\ Edited(i, raw) /\ UNCHANGED disk
    BY <1>1, <1>5 DEF update_inode
  <2> QED
    BY <2>1, <2>2, EditOne
<1>6. ASSUME NEW r \in Root, flush_raw_inode(i, r)
      PROVE  TableInv'
  <2> DEFINE raw == [want[i] EXCEPT !.root = r]
  <2>1. raw \in Raw
    BY <1>1, <1>6 DEF Raw
  <2>2. Pin(L, raw) /\ WriteThrough(L, raw) /\ Edited(i, raw)
    BY <1>1, <1>6 DEF flush_raw_inode
  <2> QED
    BY <2>1, <2>2, EditOne
<1> QED
  BY <1>3, <1>4, <1>5, <1>6 DEF Edit

\* With nothing pinned the copy that counts is the disk's.
LEMMA NothingPinned ==
  ASSUME InodeTypeOK, DOMAIN pinned = {}
  PROVE  Latest = disk
BY DEF InodeTypeOK, Latest

\* What is found on the volume is what the calls start from.
LEMMA InitTable == Init => TableInv
<1> SUFFICES ASSUME Init PROVE TableInv
  OBVIOUS
<1>1. Geometry
  BY InitGeometry
<1>2. disk \in [Blocks -> [Offsets -> Raw]]
  BY InodeTableAssumption DEF Init, Raw
<1>3. \A i \in Inodes : /\ read_location(i) = load_inode_table_block(i)
                        /\ load_inode_table_block(i)[1] \in Blocks
                        /\ load_inode_table_block(i)[2] \in Offsets
  BY <1>1, LocationsAgree, InTable
<1>4. \A i \in Inodes : read_inode(i) \in Raw
  BY <1>2, <1>3 DEF read_inode, At
<1>5. InodeTypeOK
  BY <1>2, <1>4 DEF Init, InodeTypeOK
<1>6. \A i \in Inodes : want[i] = read_inode(i)
  BY DEF Init
<1>7. Latest = disk
  BY <1>5, NothingPinned DEF Init
<1>8. \A i \in Inodes : read_inode_with_txn(i) = want[i]
  BY <1>3, <1>6, <1>7 DEF read_inode_with_txn, read_inode
<1> QED
  BY <1>1, <1>5, <1>6, <1>8 DEF TableInv, NoEditReverted, RootsOnDisk

\* A commit writes the copies that count in place.
LEMMA CommitTable ==
  ASSUME TableInv, commit
  PROVE  TableInv'
<1>1. Geometry /\ InodeTypeOK /\ UNCHANGED <<sb, gdt>>
  BY DEF TableInv, commit
<1>2. Blocks' = Blocks /\ Offsets' = Offsets /\ Inodes' = Inodes
  BY <1>1, GeometryStays
<1>3. disk' = Latest /\ want' = want /\ DOMAIN pinned' = {} /\ open' = FALSE
  BY DEF commit
<1>4. InodeTypeOK'
  BY <1>1, <1>2, <1>3, LatestTyped DEF InodeTypeOK
<1>5. Latest' = disk'
  BY <1>3, <1>4 DEF InodeTypeOK, Latest
<1>6. \A i \in Inodes : At(Latest, load_inode_table_block(i)) = want[i]
  BY AtItsPlace
<1> QED
  BY <1>1, <1>3, <1>4, <1>5, <1>6, FromPlaces

\* A dropped transaction leaves what the disk has.
LEMMA AbandonTable ==
  ASSUME TableInv, Abandon
  PROVE  TableInv'
<1>1. Geometry /\ InodeTypeOK /\ UNCHANGED <<sb, gdt>>
  BY DEF TableInv, Abandon
<1>2. Blocks' = Blocks /\ Offsets' = Offsets /\ Inodes' = Inodes
  BY <1>1, GeometryStays
<1>3. /\ disk' = disk /\ DOMAIN pinned' = {} /\ open' = FALSE
      /\ want' = [i \in Inodes |-> read_inode(i)]
  BY DEF Abandon
<1>4. \A i \in Inodes : read_inode(i) = At(disk, load_inode_table_block(i))
  BY <1>1, LocationsAgree DEF read_inode
<1>5. \A i \in Inodes : read_inode(i) \in Raw
  BY <1>1, <1>4, InTable DEF InodeTypeOK, At
<1>6. InodeTypeOK'
  BY <1>1, <1>2, <1>3, <1>5 DEF InodeTypeOK
<1>7. Latest' = disk'
  BY <1>3, <1>6 DEF InodeTypeOK, Latest
<1> QED
  BY <1>1, <1>3, <1>4, <1>6, <1>7, FromPlaces

\* Every step keeps the invariant.
LEMMA TableStep == TableInv /\ [Next]_vars => TableInv'
<1> SUFFICES ASSUME TableInv, [Next]_vars
             PROVE  TableInv'
  OBVIOUS
<1>1. ASSUME UNCHANGED <<sb, gdt, disk, pinned, want>>, open' \in {open, TRUE}
      PROVE  TableInv'
  <2>1. Geometry /\ InodeTypeOK /\ UNCHANGED <<sb, gdt>>
    BY <1>1 DEF TableInv
  <2>2. Blocks' = Blocks /\ Offsets' = Offsets /\ Inodes' = Inodes
    BY <2>1, GeometryStays
  <2>3. InodeTypeOK'
    BY <1>1, <2>1, <2>2 DEF InodeTypeOK
  <2>4. Latest' = Latest
    BY <1>1, <2>2 DEF Latest
  <2> QED
    BY <1>1, <2>3, <2>4, AtItsPlace, FromPlaces
<1>2. CASE begin_transaction
  BY <1>1, <1>2 DEF begin_transaction
<1>3. CASE \E i \in Inodes : Edit(i)
  BY <1>3, EditSteps
<1>4. CASE UNCHANGED vars
  BY <1>1, <1>4 DEF vars
<1> QED
  BY <1>2, <1>3, <1>4, CommitTable, AbandonTable DEF Next

-----------------------------------------------------------------------------
\* Geometry and the three claims together are what every call keeps.
THEOREM TableInvariant == Spec => []TableInv
  BY InitTable, TableStep, PTL DEF Spec

\* A table block always holds raw inodes at whole slots, and nothing is pinned
\* outside a transaction.
THEOREM InodeTypeTheorem == Spec => []InodeTypeOK
<1>1. TableInv => InodeTypeOK
  BY DEF TableInv
<1> QED
  BY <1>1, TableInvariant, PTL

\* On every volume that superblock::parse accepts, whatever its sizes, the four
\* computations of an inode's place agree and no two inodes share a place.
THEOREM SlotsTheorem == Spec => []SlotsApart
<1>1. TableInv => SlotsApart
  BY LocationsAgree, InTable, SameSlotSameInode DEF TableInv, SlotsApart
<1> QED
  BY <1>1, TableInvariant, PTL

\* However edits follow each other in transactions, none reverts another.
THEOREM NoEditRevertedTheorem == Spec => []NoEditReverted
<1>1. TableInv => NoEditReverted
  BY DEF TableInv
<1> QED
  BY <1>1, TableInvariant, PTL

\* Reads past the transaction find every inode's use and root up to date.
THEOREM RootsTheorem == Spec => []RootsOnDisk
<1>1. TableInv => RootsOnDisk
  BY DEF TableInv
<1> QED
  BY <1>1, TableInvariant, PTL
=============================================================================
