----------------------------- MODULE DirBlock -----------------------------
(***************************************************************************)
(* The blocks of one ext4 directory and the functions that edit them.  A   *)
(* block is a chain of records, each giving its own length; a record of    *)
(* inode 0 is free.  A new record is put into a free one or behind the     *)
(* last one, and a record is removed by letting the one before it cover    *)
(* its bytes, which stay as they are.                                      *)
(*                                                                         *)
(* Offsets and lengths are counted in units of four bytes, the alignment   *)
(* of records.  A block maps each offset to the record header that starts  *)
(* there, or to Other where the bytes are anything else: part of a name,   *)
(* zeroes, or a header that was partly overwritten.                        *)
(***************************************************************************)
EXTENDS Integers, FiniteSets, SequencesExt

CONSTANTS
  Name,        \* names a user may give a file
  NameLen,     \* their length in bytes
  Inode,       \* inode numbers of files
  Self,        \* the directory's own inode number
  Parent,      \* that of the directory it is in
  Free,        \* inode number 0, of a free record
  BlockUnits,  \* length of a block
  MaxBlocks,   \* bound on the blocks of the directory: the disk is full
  Other

Dot == "."
DotDot == ".."
Dots == {Dot, DotDot}

ASSUME NameAssumption ==
  /\ Name \cap Dots = {}
  /\ NameLen \in [Name -> 1 .. 255]
  /\ Self \notin Inode /\ Free \notin Inode \cup {Self, Parent}
  /\ BlockUnits \in Nat \ (0 .. 5)
  /\ MaxBlocks \in Nat \ {0}

VARIABLES
  blocks,   \* the directory's blocks in logical order
  damaged   \* a removal has extended a record across a free one

vars == <<blocks, damaged>>

Offset == 0 .. (BlockUnits - 1)
Header == [ino : Inode \cup {Self, Parent, Free}, name : Name \cup Dots, rec : 2 .. BlockUnits]
Block == [Offset -> Header \cup {Other}]

ASSUME OtherAssumption == Other \notin Header

-----------------------------------------------------------------------------
(* Reading a block. *)

\* Units a record needs for its header and its name.
min_rec_len(n) ==
  LET len == IF n = Dot THEN 1 ELSE IF n = DotDot THEN 2 ELSE NameLen[n]
  IN  (8 + len + 3) \div 4

\* A block has 1024 bytes or more, a name 255 or less.
ASSUME NamesFit == \A n \in Name : min_rec_len(n) <= BlockUnits

\* The offsets a walk over the block visits, up to its end, to bytes that are
\* no header, or to a record shorter than its header (rec_len < 8).
Chain(b) ==
  LET from[p \in Offset] ==
        IF b[p] = Other \/ b[p].rec < 2 THEN <<>>
        ELSE <<p>> \o IF p + b[p].rec < BlockUnits THEN from[p + b[p].rec] ELSE <<>>
  IN  from[0]

Live(b) == {p \in Range(Chain(b)) : b[p].ino # Free}

\* parse_block_entries of this block succeeds: every record it meets holds
\* its name, and the last one ends with the block.
Parses(b) ==
  LET c == Chain(b) IN
    /\ c # <<>>
    /\ Last(c) + b[Last(c)].rec = BlockUnits
    /\ \A p \in Range(c) : min_rec_len(b[p].name) <= b[p].rec

\* Where a walk over the block meets the name.
Found(b, n) == {p \in Live(b) : b[p].name = n}

\* The blocks that hold the name.
Holding(n) == {k \in DOMAIN blocks : Found(blocks[k], n) # {}}

read_dir == UNION {{<<blocks[k][p].name, blocks[k][p].ino>> : p \in Live(blocks[k])}
                    : k \in DOMAIN blocks}

-----------------------------------------------------------------------------
(* Writing into a block. *)

\* Header and name overwrite what was there; a header that began in the unit
\* before loses its second half.
write_dirent(b, pos, ino, n, rec) ==
  [u \in Offset |->
     IF u = pos THEN [ino |-> ino, name |-> n, rec |-> rec]
     ELSE IF u \in (pos - 1) .. (pos + min_rec_len(n) - 1) THEN Other
     ELSE b[u]]

EmptyBlock == [u \in Offset |-> Other]

\* Mutant: the length of the record counts as room, not its slack.
SlotsWithoutSlack(b, n) ==
  {p \in Range(Chain(b)) :
     b[p].rec >= min_rec_len(n) /\ (b[p].ino # Free => p + b[p].rec >= BlockUnits)}

\* The records of a block behind or into which the name fits.
Slots(b, n) ==
  {p \in Range(Chain(b)) :
     IF b[p].ino = Free
     THEN b[p].rec >= min_rec_len(n)
     ELSE /\ p + b[p].rec >= BlockUnits
          /\ b[p].rec - min_rec_len(b[p].name) >= min_rec_len(n)}

\* Mutant: the new last record keeps the length of the one it was split from.
try_insert_whole_length(b, n, i) ==
  LET p == Min(Slots(b, n))
      actual == min_rec_len(b[p].name)
  IN  IF b[p].ino = Free
      THEN write_dirent(b, p, i, n, b[p].rec)
      ELSE write_dirent([b EXCEPT ![p].rec = actual], p + actual, i, n, b[p].rec)

try_insert_in_block(b, n, i) ==
  LET p == Min(Slots(b, n))
      actual == min_rec_len(b[p].name)
  IN  IF b[p].ino = Free
      THEN write_dirent(b, p, i, n, b[p].rec)
      ELSE write_dirent([b EXCEPT ![p].rec = actual], p + actual, i, n, b[p].rec - actual)

dir_insert_entry(bs, n, i) ==
  LET room == {k \in DOMAIN bs : Slots(bs[k], n) # {}} IN
    IF room # {}
    THEN [bs EXCEPT ![Min(room)] = try_insert_in_block(@, n, i)]
    ELSE Append(bs, write_dirent(EmptyBlock, 0, i, n, BlockUnits))

\* The live records before p in its block: prev_end is the last of them.
Before(b, p) == {q \in Live(b) : q < p}

\* Between p and the live record before it there is a free one.
BehindGap(b, p) ==
  /\ Before(b, p) # {}
  /\ \E q \in Range(Chain(b)) : Max(Before(b, p)) < q /\ q < p

\* Mutant: prev_end is set once and stays on the first live record.
WithoutRecordFirst(b, p) ==
  IF Before(b, p) = {}
  THEN [b EXCEPT ![p].ino = Free]
  ELSE [b EXCEPT ![Min(Before(b, p))].rec = @ + b[p].rec]

\* dir_remove_entry, in the block that holds the record at p.
WithoutRecord(b, p) ==
  IF Before(b, p) = {}
  THEN [b EXCEPT ![p].ino = Free]
  ELSE [b EXCEPT ![Max(Before(b, p))].rec = @ + b[p].rec]

-----------------------------------------------------------------------------
\* What create_handle builds for a new directory.
NewDirectory == dir_insert_entry(dir_insert_entry(<<>>, Dot, Self), DotDot, Parent)

\* mke2fs gives lost+found a further block, all of it one free record.
LostAndFound ==
  Append(NewDirectory, [EmptyBlock EXCEPT ![0] = [ino |-> Free, name |-> Dot, rec |-> BlockUnits]])

Init ==
  /\ blocks \in {NewDirectory, LostAndFound}
  /\ damaged = FALSE

\* Mutant: only the first block is searched for the name.
dir_add_entry_first_block(n, i) ==
  /\ ~damaged
  /\ 1 \notin Holding(n)
  /\ Len(dir_insert_entry(blocks, n, i)) <= MaxBlocks
  /\ blocks' = dir_insert_entry(blocks, n, i)
  /\ UNCHANGED damaged

\* AlreadyExists and a failing allocation leave the directory as it is.
dir_add_entry(n, i) ==
  /\ ~damaged
  /\ Holding(n) = {}
  /\ Len(dir_insert_entry(blocks, n, i)) <= MaxBlocks
  /\ blocks' = dir_insert_entry(blocks, n, i)
  /\ UNCHANGED damaged

dir_remove_entry(n) ==
  /\ ~damaged
  /\ Holding(n) # {}
  /\ LET k == Min(Holding(n))
         p == Min(Found(blocks[k], n))
     IN  /\ blocks' = [blocks EXCEPT ![k] = WithoutRecord(@, p)]
         /\ damaged' = BehindGap(blocks[k], p)

\* What operations make of a damaged block depends on the bytes of old names
\* and is not modelled.
Next ==
  \E n \in Name :
    \/ dir_remove_entry(n)
    \/ \E i \in Inode : dir_add_entry(n, i)

Spec == Init /\ [][Next]_vars

-----------------------------------------------------------------------------
\* No record is longer than a block or shorter than its header.
TypeOK == blocks \in Seq(Block) /\ damaged \in BOOLEAN

\* As long as no removal reached across a free record, every block of the
\* directory can be listed: parse_dirent, which is stricter than the walks of
\* dir_write.rs, accepts each of its records.
Listable == ~damaged => \A k \in DOMAIN blocks : Parses(blocks[k])

\* The first two records are "." and ".." for good, whatever is added, removed
\* or damaged behind them: no removal in the first block meets a gap.
DotsComeFirst ==
  LET b == blocks[1] IN
    /\ Parses(b)
    /\ b[0].name = Dot /\ b[0].ino = Self
    /\ b[Chain(b)[2]].name = DotDot /\ b[Chain(b)[2]].ino = Parent

Abstract == INSTANCE Directory WITH
              Name <- Name, Inode <- Inode,
              entries <- {e \in read_dir : e[1] \notin Dots}

\* Adding and removing records is adding and removing entries of a directory:
\* no step loses, doubles or redirects another name, unless it removes a
\* record across a gap.
ImplementsDirectory ==
  Abstract!Init /\ [][damaged' \/ Abstract!Next]_vars

=============================================================================
