-------------------------- MODULE AllocatorProofs --------------------------
(***************************************************************************)
(* Proofs about Allocator for any number of groups, blocks, inodes,        *)
(* handlers and mounts.  That nothing is allocated twice is about sets     *)
(* alone: it does not depend on any count.  That the counts stay right is  *)
(* about the cardinality of what the bitmaps leave free.                   *)
(***************************************************************************)
EXTENDS Allocator, FiniteSetTheorems, TLAPS

\* A set of numbers has a least one.
LEMMA MinIn ==
  ASSUME NEW S \in SUBSET Nat, S # {}
  PROVE  Min(S) \in S
<1>1. PICK x \in S : \A y \in S : ~(<<y, x>> \in OpToRel(<, Nat))
  BY NatLessThanWellFounded, WFMin
<1>2. ASSUME NEW y \in S
      PROVE  x <= y
  <2>1. x \in Nat /\ y \in Nat
    OBVIOUS
  <2>2. ASSUME y < x
        PROVE  <<y, x>> \in OpToRel(<, Nat)
    <3>1. <<y, x>> \in Nat \X Nat /\ <<y, x>>[1] < <<y, x>>[2]
      BY <2>1, <2>2
    <3> QED
      BY <3>1 DEF OpToRel
  <2>3. ~(y < x)
    BY <1>1, <2>2
  <2> QED
    BY <2>1, <2>3
<1>3. \E z \in S : \A y \in S : z =< y
  BY <1>2
<1> QED
  BY <1>3 DEF Min

\* Quotient and remainder.
LEMMA DivMod ==
  ASSUME NEW x \in Nat, NEW p \in Nat \ {0}
  PROVE  x \div p \in Nat /\ x % p \in 0 .. p - 1 /\ x = p * (x \div p) + (x % p)
OBVIOUS

\* Going round once.
LEMMA Around ==
  ASSUME NEW p \in Nat \ {0}, NEW s \in 0 .. p - 1
  PROVE  s % p = s /\ (s + p) % p = s
OBVIOUS

\* The search from a hint on finds a group if there is one.
LEMMA FirstGroupIn ==
  ASSUME NEW h \in Group, NEW S \in SUBSET Group, S # {}
  PROVE  FirstGroup(h, S) \in S
<1>1. NumGroups \in Nat \ {0}
  BY AllocatorAssumption
<1> DEFINE I == {i \in 0 .. (NumGroups - 1) : (h + i) % NumGroups \in S}
<1>2. PICK s \in S : s \in 0 .. (NumGroups - 1)
  BY DEF Group
<1>3. I # {}
  <2>1. CASE s >= h
    <3>1. s - h \in 0 .. (NumGroups - 1) /\ h + (s - h) = s
      BY <1>1, <1>2, <2>1 DEF Group
    <3>2. (h + (s - h)) % NumGroups = s
      BY <1>1, <1>2, <3>1, Around
    <3> QED
      BY <3>1, <3>2
  <2>2. CASE s < h
    <3>1. s - h + NumGroups \in 0 .. (NumGroups - 1) /\ h + (s - h + NumGroups) = s + NumGroups
      BY <1>1, <1>2, <2>2 DEF Group
    <3>2. (h + (s - h + NumGroups)) % NumGroups = s
      BY <1>1, <1>2, <3>1, Around
    <3> QED
      BY <3>1, <3>2
  <2> QED
    BY <1>1, <1>2, <2>1, <2>2 DEF Group
<1>4. I \in SUBSET Nat
  OBVIOUS
<1>5. Min(I) \in I
  BY <1>3, <1>4, MinIn
<1> QED
  BY <1>5 DEF FirstGroup

-----------------------------------------------------------------------------
(* Counting what the bitmaps leave free. *)

\* A group is finite, and so is all of it that is free.
LEMMA Finite ==
  /\ IsFiniteSet(Bit) /\ Cardinality(Bit) = BlocksPerGroup
  /\ IsFiniteSet(Slot) /\ Cardinality(Slot) = InodesPerGroup
BY FS_Interval, AllocatorAssumption DEF Bit, Slot

\* What is marked in a run of free units is no longer counted, and the reverse.
LEMMA MarkedLess ==
  ASSUME NEW U, IsFiniteSet(U), NEW B \in SUBSET U, NEW X \in SUBSET (U \ B)
  PROVE  /\ Cardinality(U \ B) \in Nat /\ Cardinality(U \ (B \cup X)) \in Nat /\ Cardinality(X) \in Nat
         /\ Cardinality(U \ (B \cup X)) = Cardinality(U \ B) - Cardinality(X)
<1>1. IsFiniteSet(U \ B) /\ IsFiniteSet(U \ (B \cup X)) /\ IsFiniteSet(X)
  BY FS_Subset
<1>2. U \ B = (U \ (B \cup X)) \cup X /\ (U \ (B \cup X)) \cap X = {}
  OBVIOUS
<1>3. Cardinality(U \ B) \in Nat /\ Cardinality(U \ (B \cup X)) \in Nat /\ Cardinality(X) \in Nat
  BY <1>1, FS_CardinalityType
<1>4. Cardinality(U \ B) = Cardinality(U \ (B \cup X)) + Cardinality(X) - Cardinality({})
  BY <1>1, <1>2, FS_Union
<1> QED
  BY <1>3, <1>4, FS_EmptySet

\* One unit more or less.
LEMMA MarkedOne ==
  ASSUME NEW U, IsFiniteSet(U), NEW B \in SUBSET U, NEW x \in U
  PROVE  /\ Cardinality(U \ B) \in Nat
         /\ x \notin B => Cardinality(U \ (B \cup {x})) = Cardinality(U \ B) - 1
         /\ x \in B => Cardinality(U \ (B \ {x})) = Cardinality(U \ B) + 1
<1>1. IsFiniteSet(U \ B)
  BY FS_Subset
<1>2. Cardinality(U \ B) \in Nat
  BY <1>1, FS_CardinalityType
<1>3. ASSUME x \notin B
      PROVE  Cardinality(U \ (B \cup {x})) = Cardinality(U \ B) - 1
  <2>1. U \ (B \cup {x}) = (U \ B) \ {x} /\ x \in U \ B
    BY <1>3
  <2> QED
    BY <1>1, <2>1, FS_RemoveElement
<1>4. ASSUME x \in B
      PROVE  Cardinality(U \ (B \ {x})) = Cardinality(U \ B) + 1
  <2>1. U \ (B \ {x}) = (U \ B) \cup {x} /\ x \notin U \ B
    BY <1>4
  <2> QED
    BY <1>1, <2>1, FS_AddElement
<1> QED
  BY <1>2, <1>3, <1>4

\* Descriptors that are counted have the type of descriptors.
LEMMA CountedTyped ==
  ASSUME NEW b \in [Group -> SUBSET Bit], NEW i \in [Group -> SUBSET Slot]
  PROVE  Counted(b, i) \in [Group -> Desc]
<1> SUFFICES ASSUME NEW g \in Group
             PROVE  /\ FreeBits(b, g) \in Nat /\ FreeSlots(i, g) \in Nat
                    /\ Cardinality(UnusedTail(i, g)) \in 0 .. InodesPerGroup
  BY DEF Counted, Desc
<1>1. IsFiniteSet(Bit \ b[g]) /\ IsFiniteSet(Slot \ i[g])
  BY Finite, FS_Subset
<1>2. UnusedTail(i, g) \in SUBSET Slot
  BY DEF UnusedTail
<1>3. IsFiniteSet(UnusedTail(i, g)) /\ Cardinality(UnusedTail(i, g)) <= InodesPerGroup
  BY <1>2, Finite, FS_Subset
<1> QED
  BY <1>1, <1>3, FS_CardinalityType, AllocatorAssumption DEF FreeBits, FreeSlots

\* Right counts give right totals.
LEMMA RightTotals ==
  ASSUME NEW d, NEW b, NEW i, Right(d, b, i)
  PROVE  Totals(d) = Totals(Counted(b, i))
<1>1. \A g \in Group : d[g].blocks = Counted(b, i)[g].blocks /\ d[g].inodes = Counted(b, i)[g].inodes
  BY DEF Right, Counted
<1>2. /\ [g \in Group |-> d[g].blocks] = [g \in Group |-> Counted(b, i)[g].blocks]
      /\ [g \in Group |-> d[g].inodes] = [g \in Group |-> Counted(b, i)[g].inodes]
  BY <1>1
<1> QED
  BY <1>2 DEF Totals

-----------------------------------------------------------------------------
(* The invariant. *)

\* Only the handlers that free have given anything up.
DropsWhileFreeing == dropped # {} => op \in {"set_size", "delete", "delete_inode"}

\* The superblock that waits for the commit is right, as long as it waits.
PinnedTotalsRight == honest /\ spin # NoPin => spin = Totals(Counted(bbm, ibm))

AllocInv ==
  AllocTypeOK /\ NeverTwice /\ DropsWhileFreeing /\ CountsStayRight /\ PinnedTotalsRight

\* Adjusting and pinning descriptors gives descriptors.
LEMMA AdjustTyped ==
  ASSUME NEW d \in [Group -> Desc], NEW g \in Group, NEW n \in Int, NEW s \in Slot
  PROVE  /\ adjust_free_blocks(d, g, n) \in [Group -> Desc]
         /\ adjust_free_inodes(d, g, n) \in [Group -> Desc]
         /\ update_itable_unused(d, g, s) \in [Group -> Desc]
<1>1. \A m \in Nat : AtLeast0(m + n) \in Nat
  BY DEF AtLeast0
<1>2. InodesPerGroup - (s + 1) \in 0 .. InodesPerGroup
  BY AllocatorAssumption DEF Slot
<1>3. d[g].blocks \in Nat /\ d[g].inodes \in Nat /\ d[g].unused \in 0 .. InodesPerGroup
  BY DEF Desc
<1>4. AtLeast0(d[g].blocks + n) \in Nat /\ AtLeast0(d[g].inodes + n) \in Nat
  BY <1>1, <1>3
<1>5. ASSUME NEW m \in Nat
      PROVE  /\ [d EXCEPT ![g].blocks = m] \in [Group -> Desc]
             /\ [d EXCEPT ![g].inodes = m] \in [Group -> Desc]
  BY DEF Desc
<1>6. ASSUME NEW m \in 0 .. InodesPerGroup
      PROVE  [d EXCEPT ![g].unused = m] \in [Group -> Desc]
  BY DEF Desc
<1> QED
  BY <1>2, <1>3, <1>4, <1>5, <1>6 DEF adjust_free_blocks, adjust_free_inodes, update_itable_unused

\* The copy of the descriptor block that is pinned holds descriptors.
LEMMA PinTyped ==
  ASSUME AllocTypeOK, NEW d \in [Group -> Desc], NEW g \in Group
  PROVE  PinBlocks(g, d) \in [Group -> Desc] /\ PinInodes(g, d) \in [Group -> Desc]
<1>1. gdt \in [Group -> Desc] /\ d[g] \in Desc
  BY DEF AllocTypeOK
<1> QED
  BY <1>1 DEF PinBlocks, PinInodes, Desc

\* The run that alloc_blocks marks is free, and there are at least as many.
LEMMA RunFound ==
  ASSUME AllocTypeOK, NEW h \in Group, NEW n \in 1 .. MaxRun, GroupsWithRun(n) # {}
  PROVE  LET g == FirstGroup(h, GroupsWithRun(n))
             start == Min(FreeRuns(g, n))
         IN  /\ g \in Group /\ mem[g].blocks >= n
             /\ (start .. (start + n - 1)) \in SUBSET (Bit \ bbm[g])
             /\ Cardinality(start .. (start + n - 1)) = n
<1> DEFINE g == FirstGroup(h, GroupsWithRun(n))
           start == Min(FreeRuns(g, n))
<1>1. g \in GroupsWithRun(n)
  <2>1. GroupsWithRun(n) \in SUBSET Group
    BY DEF GroupsWithRun
  <2> QED
    BY <2>1, FirstGroupIn
<1> HIDE DEF g
<1>2. g \in Group /\ mem[g].blocks >= n /\ FreeRuns(g, n) # {}
  BY <1>1 DEF GroupsWithRun
<1>3. FreeRuns(g, n) \in SUBSET Nat
  BY DEF FreeRuns, Bit
<1>4. start \in FreeRuns(g, n)
  BY <1>2, <1>3, MinIn
<1> HIDE DEF start
<1>5. start \in Nat /\ start + n <= BlocksPerGroup /\ (start .. (start + n - 1)) \cap bbm[g] = {}
  BY <1>4 DEF FreeRuns, Bit
<1>6. (start .. (start + n - 1)) \subseteq Bit
  BY <1>5, AllocatorAssumption DEF Bit
<1>7. Cardinality(start .. (start + n - 1)) = n
  BY <1>5, FS_Interval
<1> QED
  BY <1>2, <1>5, <1>6, <1>7 DEF g, start

\* The slot that alloc_inode marks is free.
LEMMA SlotFound ==
  ASSUME AllocTypeOK, NEW h \in Group, GroupsWithInode # {}
  PROVE  LET g == FirstGroup(h, GroupsWithInode)
         IN  g \in Group /\ mem[g].inodes # 0 /\ Min(Slot \ ibm[g]) \in Slot \ ibm[g]
<1> DEFINE g == FirstGroup(h, GroupsWithInode)
<1>1. g \in GroupsWithInode
  <2>1. GroupsWithInode \in SUBSET Group
    BY DEF GroupsWithInode
  <2> QED
    BY <2>1, FirstGroupIn
<1> HIDE DEF g
<1>2. g \in Group /\ mem[g].inodes # 0 /\ Slot \ ibm[g] # {}
  BY <1>1 DEF GroupsWithInode, AllocTypeOK
<1>3. (Slot \ ibm[g]) \in SUBSET Nat
  BY DEF Slot
<1>4. Min(Slot \ ibm[g]) \in Slot \ ibm[g]
  BY <1>2, <1>3, MinIn
<1> QED
  BY <1>2, <1>4 DEF g

\* Where a unit is marked.
LEMMA MarkedAt ==
  ASSUME NEW g, NEW k
  PROVE  /\ Marked(<<"block", g, k>>) <=> k \in bbm[g]
         /\ Marked(<<"inode", g, k>>) <=> k \in ibm[g]
BY DEF Marked

-----------------------------------------------------------------------------
(* The calls of the allocator. *)

\* alloc_blocks keeps the invariant: the run was free, so nothing that is in use
\* is in it but what a handler that failed had freed.
LEMMA AllocBlocks ==
  ASSUME AllocInv, NEW h \in Group, NEW n \in 1 .. MaxRun, alloc_blocks(h, n)
  PROVE  AllocInv'
<1> DEFINE g == FirstGroup(h, GroupsWithRun(n))
           start == Min(FreeRuns(g, n))
           run == start .. (start + n - 1)
           new == {<<"block", g, b>> : b \in run}
<1>1. /\ op \in {"write", "create_inode", "rename"} /\ spin = NoPin /\ GroupsWithRun(n) # {}
      /\ bbm' = [bbm EXCEPT ![g] = @ \cup run]
      /\ mem' = adjust_free_blocks(mem, g, -n)
      /\ gpin' = PinBlocks(g, mem')
      /\ taken' = taken \cup new
      /\ UNCHANGED <<perBlock, op, ibm, dropped, honest, spin, gdt, sb, refs, torn>>
  BY DEF alloc_blocks, Call
<1>2. AllocTypeOK /\ NeverTwice /\ DropsWhileFreeing /\ CountsStayRight
  BY DEF AllocInv
<1>3. /\ g \in Group /\ mem[g].blocks >= n
      /\ run \in SUBSET (Bit \ bbm[g]) /\ Cardinality(run) = n
  BY <1>1, <1>2, RunFound
<1> HIDE DEF g, start, run
<1>4. dropped = {}
  BY <1>1, <1>2 DEF DropsWhileFreeing
<1>5. /\ bbm \in [Group -> SUBSET Bit] /\ ibm \in [Group -> SUBSET Slot] /\ mem \in [Group -> Desc]
      /\ taken \subseteq Block \cup Inode /\ refs \subseteq Block \cup Inode
  BY <1>2 DEF AllocTypeOK
<1>6. bbm' \in [Group -> SUBSET Bit] /\ bbm'[g] = bbm[g] \cup run
      /\ \A k \in Group \ {g} : bbm'[k] = bbm[k]
  BY <1>1, <1>3, <1>5
<1>7. mem' \in [Group -> Desc] /\ gpin' \in [Group -> Desc]
  <2>1. -n \in Int /\ 0 \in Slot
    BY AllocatorAssumption DEF Slot
  <2>2. mem' \in [Group -> Desc]
    BY <1>1, <1>3, <1>5, <2>1, AdjustTyped
  <2> QED
    BY <1>1, <1>2, <1>3, <2>2, PinTyped
<1>8. new \subseteq Block
  BY <1>3 DEF Block
<1>9. AllocTypeOK'
  BY <1>1, <1>2, <1>6, <1>7, <1>8 DEF AllocTypeOK
<1>10. NeverTwice'
  <2>1. \A u \in Block \cup Inode : Marked(u) => Marked(u)'
    BY <1>1, <1>6 DEF Marked, Block, Inode
  <2>2. \A u \in new : Marked(u)' /\ ~Marked(u)
    BY <1>3, <1>6, MarkedAt DEF Marked
  <2>3. \A u \in new : u \in refs => u \in torn
    BY <1>2, <1>4, <2>2 DEF NeverTwice
  <2> QED
    BY <1>1, <1>2, <1>5, <2>1, <2>2, <2>3 DEF NeverTwice
<1>11. CountsStayRight'
  <2> SUFFICES ASSUME honest
               PROVE  Right(mem, bbm, ibm)'
    BY <1>1 DEF CountsStayRight
  <2>1. Right(mem, bbm, ibm)
    BY <1>2 DEF CountsStayRight
  <2>2. mem'[g].blocks = mem[g].blocks - n
    <3>1. mem[g].blocks \in Nat /\ AtLeast0(mem[g].blocks + -n) = mem[g].blocks - n
      BY <1>3, <1>5 DEF AtLeast0, Desc
    <3> QED
      BY <1>1, <1>3, <1>5, <3>1 DEF adjust_free_blocks
  <2>3. \A k \in Group : /\ mem'[k].inodes = mem[k].inodes /\ mem'[k].unused = mem[k].unused
                         /\ k # g => mem'[k].blocks = mem[k].blocks
    BY <1>1, <1>3, <1>5 DEF adjust_free_blocks, Desc
  <2>4. FreeBits(bbm', g) = FreeBits(bbm, g) - n
    <3>1. bbm[g] \in SUBSET Bit
      BY <1>3, <1>5
    <3>2. Cardinality(Bit \ (bbm[g] \cup run)) = Cardinality(Bit \ bbm[g]) - Cardinality(run)
      BY <1>3, <3>1, Finite, MarkedLess
    <3> QED
      BY <1>3, <1>6, <3>2 DEF FreeBits
  <2>5. \A k \in Group : k # g => FreeBits(bbm', k) = FreeBits(bbm, k)
    BY <1>6 DEF FreeBits
  <2> QED
    BY <1>1, <2>1, <2>2, <2>3, <2>4, <2>5 DEF Right, FreeSlots
<1>12. DropsWhileFreeing' /\ PinnedTotalsRight'
  BY <1>1, <1>4 DEF DropsWhileFreeing, PinnedTotalsRight
<1> QED
  BY <1>9, <1>10, <1>11, <1>12 DEF AllocInv

\* free_block keeps the invariant: only what is given up loses its mark.
LEMMA FreeBlock ==
  ASSUME AllocInv, NEW g \in Group, NEW b \in Bit, free_block(g, b)
  PROVE  AllocInv'
<1> DEFINE old == <<"block", g, b>>
<1>1. /\ op \in {"set_size", "delete"} /\ spin = NoPin
      /\ old \in refs \ dropped /\ b \in bbm[g]
      /\ bbm' = [bbm EXCEPT ![g] = @ \ {b}]
      /\ mem' = adjust_free_blocks(mem, g, 1)
      /\ gpin' = PinBlocks(g, mem')
      /\ dropped' = dropped \cup {old}
      /\ UNCHANGED <<perBlock, op, ibm, taken, honest, spin, gdt, sb, refs, torn>>
  BY DEF free_block, Call
<1>2. AllocTypeOK /\ NeverTwice /\ DropsWhileFreeing /\ CountsStayRight
  BY DEF AllocInv
<1>3. /\ bbm \in [Group -> SUBSET Bit] /\ ibm \in [Group -> SUBSET Slot] /\ mem \in [Group -> Desc]
      /\ taken \subseteq Block \cup Inode /\ refs \subseteq Block \cup Inode
  BY <1>2 DEF AllocTypeOK
<1>4. /\ bbm' \in [Group -> SUBSET Bit] /\ bbm'[g] = bbm[g] \ {b}
      /\ \A k \in Group \ {g} : bbm'[k] = bbm[k]
  BY <1>1, <1>3
<1>5. mem' \in [Group -> Desc] /\ gpin' \in [Group -> Desc]
  <2>1. 1 \in Int /\ 0 \in Slot
    BY AllocatorAssumption DEF Slot
  <2>2. mem' \in [Group -> Desc]
    BY <1>1, <1>3, <2>1, AdjustTyped
  <2> QED
    BY <1>1, <1>2, <2>2, PinTyped
<1>6. AllocTypeOK'
  BY <1>1, <1>2, <1>4, <1>5 DEF AllocTypeOK
<1>7. NeverTwice'
  <2>1. \A u \in Block \cup Inode : Marked(u) /\ u # old => Marked(u)'
    BY <1>1, <1>4 DEF Marked, Block, Inode
  <2> QED
    BY <1>1, <1>2, <1>3, <2>1 DEF NeverTwice
<1>8. CountsStayRight'
  <2> SUFFICES ASSUME honest
               PROVE  Right(mem, bbm, ibm)'
    BY <1>1 DEF CountsStayRight
  <2>1. Right(mem, bbm, ibm)
    BY <1>2 DEF CountsStayRight
  <2>2. mem'[g].blocks = mem[g].blocks + 1
    <3>1. mem[g].blocks \in Nat /\ AtLeast0(mem[g].blocks + 1) = mem[g].blocks + 1
      BY <1>3 DEF AtLeast0, Desc
    <3> QED
      BY <1>1, <1>3, <3>1 DEF adjust_free_blocks
  <2>3. \A k \in Group : /\ mem'[k].inodes = mem[k].inodes /\ mem'[k].unused = mem[k].unused
                         /\ k # g => mem'[k].blocks = mem[k].blocks
    BY <1>1, <1>3 DEF adjust_free_blocks, Desc
  <2>4. FreeBits(bbm', g) = FreeBits(bbm, g) + 1
    <3>1. bbm[g] \in SUBSET Bit
      BY <1>3
    <3>2. Cardinality(Bit \ (bbm[g] \ {b})) = Cardinality(Bit \ bbm[g]) + 1
      BY <1>1, <3>1, Finite, MarkedOne
    <3> QED
      BY <1>4, <3>2 DEF FreeBits
  <2>5. \A k \in Group : k # g => FreeBits(bbm', k) = FreeBits(bbm, k)
    BY <1>4 DEF FreeBits
  <2> QED
    BY <1>1, <2>1, <2>2, <2>3, <2>4, <2>5 DEF Right, FreeSlots
<1>9. DropsWhileFreeing' /\ PinnedTotalsRight'
  BY <1>1 DEF DropsWhileFreeing, PinnedTotalsRight
<1> QED
  BY <1>6, <1>7, <1>8, <1>9 DEF AllocInv

\* alloc_inode keeps the invariant: the slot was free, and the unused tail of the
\* inode table ends behind it.
LEMMA AllocInode ==
  ASSUME AllocInv, NEW h \in Group, alloc_inode(h)
  PROVE  AllocInv'
<1> DEFINE g == FirstGroup(h, GroupsWithInode)
           slot == Min(Slot \ ibm[g])
           new == <<"inode", g, slot>>
<1>1. /\ op = "create" /\ op' = "create_inode" /\ spin = NoPin /\ GroupsWithInode # {}
      /\ ibm' = [ibm EXCEPT ![g] = @ \cup {slot}]
      /\ mem' = update_itable_unused(adjust_free_inodes(mem, g, -1), g, slot)
      /\ gpin' = PinInodes(g, mem')
      /\ taken' = taken \cup {new}
      /\ UNCHANGED <<perBlock, bbm, dropped, honest, spin, gdt, sb, refs, torn>>
  BY DEF alloc_inode, Call
<1>2. AllocTypeOK /\ NeverTwice /\ DropsWhileFreeing /\ CountsStayRight
  BY DEF AllocInv
<1>3. g \in Group /\ mem[g].inodes # 0 /\ slot \in Slot \ ibm[g]
  BY <1>1, <1>2, SlotFound
<1> HIDE DEF g, slot
<1>4. dropped = {}
  BY <1>1, <1>2 DEF DropsWhileFreeing
<1>5. /\ bbm \in [Group -> SUBSET Bit] /\ ibm \in [Group -> SUBSET Slot] /\ mem \in [Group -> Desc]
      /\ taken \subseteq Block \cup Inode /\ refs \subseteq Block \cup Inode
  BY <1>2 DEF AllocTypeOK
<1>6. ibm' \in [Group -> SUBSET Slot] /\ ibm'[g] = ibm[g] \cup {slot}
      /\ \A k \in Group \ {g} : ibm'[k] = ibm[k]
  BY <1>1, <1>3, <1>5
<1> DEFINE less == adjust_free_inodes(mem, g, -1)
<1>7. less \in [Group -> Desc] /\ mem' \in [Group -> Desc] /\ gpin' \in [Group -> Desc]
  <2>1. -1 \in Int
    OBVIOUS
  <2>2. less \in [Group -> Desc]
    BY <1>3, <1>5, <2>1, AdjustTyped
  <2> HIDE DEF less
  <2>3. update_itable_unused(less, g, slot) \in [Group -> Desc]
    BY <1>3, <2>1, <2>2, AdjustTyped
  <2>4. mem' \in [Group -> Desc]
    BY <1>1, <2>3 DEF less
  <2> QED
    BY <1>1, <1>2, <1>3, <2>2, <2>4, PinTyped
<1>8. AllocTypeOK'
  <2>1. new \in Inode
    BY <1>3 DEF Inode
  <2> QED
    BY <1>1, <1>2, <1>6, <1>7, <2>1 DEF AllocTypeOK
<1>9. NeverTwice'
  <2>1. \A u \in Block \cup Inode : Marked(u) => Marked(u)'
    BY <1>1, <1>6 DEF Marked, Block, Inode
  <2>2. \A u \in {new} : Marked(u)' /\ ~Marked(u)
    BY <1>3, <1>6, MarkedAt DEF Marked
  <2>3. new \in refs => new \in torn
    BY <1>2, <1>4, <2>2 DEF NeverTwice
  <2> HIDE DEF new
  <2> QED
    BY <1>1, <1>2, <1>5, <2>1, <2>2, <2>3 DEF NeverTwice
<1>10. CountsStayRight'
  <2> SUFFICES ASSUME honest
               PROVE  Right(mem, bbm, ibm)'
    BY <1>1 DEF CountsStayRight
  <2>1. Right(mem, bbm, ibm)
    BY <1>2 DEF CountsStayRight
  <2>2. /\ less[g].inodes = mem[g].inodes - 1 /\ less[g].unused = mem[g].unused
        /\ less[g].blocks = mem[g].blocks
        /\ \A k \in Group : k # g => less[k] = mem[k]
    <3>1. mem[g].inodes \in Nat /\ AtLeast0(mem[g].inodes + -1) = mem[g].inodes - 1
      BY <1>3, <1>5 DEF AtLeast0, Desc
    <3> QED
      BY <1>3, <1>5, <3>1 DEF adjust_free_inodes, Desc
  <2> HIDE DEF less
  <2>3. /\ mem'[g].inodes = less[g].inodes /\ mem'[g].blocks = less[g].blocks
        /\ mem'[g].unused = IF InodesPerGroup - (slot + 1) < less[g].unused
                            THEN InodesPerGroup - (slot + 1) ELSE less[g].unused
        /\ \A k \in Group : k # g => mem'[k] = less[k]
    BY <1>1, <1>3, <1>7 DEF update_itable_unused, Desc, less
  <2>4. FreeSlots(ibm', g) = FreeSlots(ibm, g) - 1
    <3>1. ibm[g] \in SUBSET Slot
      BY <1>3, <1>5
    <3>2. Cardinality(Slot \ (ibm[g] \cup {slot})) = Cardinality(Slot \ ibm[g]) - 1
      BY <1>3, <3>1, Finite, MarkedOne
    <3> QED
      BY <1>6, <3>2 DEF FreeSlots
  <2>5. \A k \in Group : k # g => FreeSlots(ibm', k) = FreeSlots(ibm, k)
    BY <1>6 DEF FreeSlots
  <2>6. \A s \in ibm'[g] : s < InodesPerGroup - mem'[g].unused
    <3> SUFFICES ASSUME NEW s \in ibm'[g]
                 PROVE  s < InodesPerGroup - mem'[g].unused
      OBVIOUS
    <3>1. /\ s \in Nat /\ slot \in Nat /\ InodesPerGroup \in Nat
          /\ mem[g].unused \in Nat /\ (s = slot \/ s \in ibm[g])
      BY <1>3, <1>5, <1>6, AllocatorAssumption DEF Slot, Desc
    <3>2. s \in ibm[g] => s < InodesPerGroup - mem[g].unused
      BY <1>3, <2>1 DEF Right
    <3> QED
      BY <2>2, <2>3, <3>1, <3>2
  <2> QED
    BY <1>1, <1>6, <2>1, <2>2, <2>3, <2>4, <2>5, <2>6 DEF Right, FreeBits
<1>11. DropsWhileFreeing' /\ PinnedTotalsRight'
  BY <1>1, <1>4 DEF DropsWhileFreeing, PinnedTotalsRight
<1> QED
  BY <1>8, <1>9, <1>10, <1>11 DEF AllocInv

\* free_inode keeps the invariant; counting a free inode once more ends honesty.
LEMMA FreeInode ==
  ASSUME AllocInv, NEW g \in Group, NEW s \in Slot, free_inode(g, s)
  PROVE  AllocInv'
<1> DEFINE old == <<"inode", g, s>>
<1>1. /\ op' = "delete_inode" /\ spin = NoPin
      /\ old \in refs /\ dropped = {}
      /\ ibm' = [ibm EXCEPT ![g] = @ \ {s}]
      /\ mem' = adjust_free_inodes(mem, g, 1)
      /\ gpin' = PinInodes(g, mem')
      /\ dropped' = {old}
      /\ honest' = (honest /\ s \in ibm[g])
      /\ UNCHANGED <<perBlock, bbm, taken, spin, gdt, sb, refs, torn>>
  BY DEF free_inode, Call
<1>2. AllocTypeOK /\ NeverTwice /\ CountsStayRight
  BY DEF AllocInv
<1>3. /\ bbm \in [Group -> SUBSET Bit] /\ ibm \in [Group -> SUBSET Slot] /\ mem \in [Group -> Desc]
      /\ taken \subseteq Block \cup Inode /\ refs \subseteq Block \cup Inode
  BY <1>2 DEF AllocTypeOK
<1>4. /\ ibm' \in [Group -> SUBSET Slot] /\ ibm'[g] = ibm[g] \ {s}
      /\ \A k \in Group \ {g} : ibm'[k] = ibm[k]
  BY <1>1, <1>3
<1>5. mem' \in [Group -> Desc] /\ gpin' \in [Group -> Desc]
  <2>1. 1 \in Int
    OBVIOUS
  <2>2. mem' \in [Group -> Desc]
    BY <1>1, <1>3, <2>1, AdjustTyped
  <2> QED
    BY <1>1, <1>2, <2>2, PinTyped
<1>6. AllocTypeOK'
  BY <1>1, <1>2, <1>4, <1>5 DEF AllocTypeOK
<1>7. NeverTwice'
  <2>1. \A u \in Block \cup Inode : Marked(u) /\ u # old => Marked(u)'
    BY <1>1, <1>4 DEF Marked, Block, Inode
  <2> QED
    BY <1>1, <1>2, <1>3, <2>1 DEF NeverTwice
<1>8. CountsStayRight'
  <2> SUFFICES ASSUME honest, s \in ibm[g]
               PROVE  Right(mem, bbm, ibm)'
    BY <1>1 DEF CountsStayRight
  <2>1. Right(mem, bbm, ibm)
    BY <1>2 DEF CountsStayRight
  <2>2. mem'[g].inodes = mem[g].inodes + 1
    <3>1. mem[g].inodes \in Nat /\ AtLeast0(mem[g].inodes + 1) = mem[g].inodes + 1
      BY <1>3 DEF AtLeast0, Desc
    <3> QED
      BY <1>1, <1>3, <3>1 DEF adjust_free_inodes
  <2>3. \A k \in Group : /\ mem'[k].blocks = mem[k].blocks /\ mem'[k].unused = mem[k].unused
                         /\ k # g => mem'[k].inodes = mem[k].inodes
    BY <1>1, <1>3 DEF adjust_free_inodes, Desc
  <2>4. FreeSlots(ibm', g) = FreeSlots(ibm, g) + 1
    <3>1. ibm[g] \in SUBSET Slot
      BY <1>3
    <3>2. Cardinality(Slot \ (ibm[g] \ {s})) = Cardinality(Slot \ ibm[g]) + 1
      BY <3>1, Finite, MarkedOne
    <3> QED
      BY <1>4, <3>2 DEF FreeSlots
  <2>5. \A k \in Group : /\ k # g => FreeSlots(ibm', k) = FreeSlots(ibm, k)
                         /\ ibm'[k] \subseteq ibm[k]
    BY <1>4 DEF FreeSlots
  <2> QED
    BY <1>1, <2>1, <2>2, <2>3, <2>4, <2>5 DEF Right, FreeBits
<1>9. DropsWhileFreeing' /\ PinnedTotalsRight'
  BY <1>1 DEF DropsWhileFreeing, PinnedTotalsRight
<1> QED
  BY <1>6, <1>7, <1>8, <1>9 DEF AllocInv

-----------------------------------------------------------------------------
(* The other steps: the bitmaps stay as they are. *)

\* Writing the inode back makes what was given a part of what is in use.
LEMMA FlushRawInode ==
  ASSUME AllocInv, flush_raw_inode
  PROVE  AllocInv'
<1>1. /\ refs' = (refs \cup (taken \cap Block)) \ (dropped \cap Block)
      /\ taken' = taken \ Block /\ dropped' = dropped \ Block
      /\ UNCHANGED <<perBlock, mem, op, gpin, spin, bbm, ibm, gdt, torn, honest>>
  BY DEF flush_raw_inode, history
<1>2. AllocTypeOK /\ NeverTwice /\ DropsWhileFreeing /\ CountsStayRight /\ PinnedTotalsRight
  BY DEF AllocInv
<1>3. AllocTypeOK'
  BY <1>1, <1>2 DEF AllocTypeOK
<1>4. NeverTwice'
  <2>1. \A u : Marked(u)' <=> Marked(u)
    BY <1>1 DEF Marked
  <2> QED
    BY <1>1, <1>2, <2>1 DEF NeverTwice
<1> QED
  BY <1>1, <1>2, <1>3, <1>4 DEF AllocInv, DropsWhileFreeing, CountsStayRight, PinnedTotalsRight

\* update_superblock pins totals that are right if the counts are.
LEMMA UpdateSuperblock ==
  ASSUME AllocInv, update_superblock
  PROVE  AllocInv'
<1>1. /\ spin' = Totals(mem)
      /\ UNCHANGED <<perBlock, mem, op, gpin, taken, dropped, bbm, ibm, gdt, refs, torn, honest>>
  BY DEF update_superblock, disk, history
<1>2. AllocTypeOK /\ NeverTwice /\ DropsWhileFreeing /\ CountsStayRight
  BY DEF AllocInv
<1>3. PinnedTotalsRight'
  BY <1>1, <1>2, RightTotals DEF CountsStayRight, PinnedTotalsRight
<1>4. AllocTypeOK' /\ NeverTwice' /\ DropsWhileFreeing' /\ CountsStayRight'
  BY <1>1, <1>2 DEF AllocTypeOK, NeverTwice, Marked, DropsWhileFreeing, CountsStayRight
<1> QED
  BY <1>3, <1>4 DEF AllocInv

\* The two steps of a commit hand over what was taken and write what was pinned.
LEMMA Commits ==
  ASSUME AllocInv, CommitDescriptors \/ CommitSuperblock
  PROVE  AllocInv'
<1>1. AllocTypeOK /\ NeverTwice /\ DropsWhileFreeing /\ CountsStayRight /\ PinnedTotalsRight
  BY DEF AllocInv
<1>2. CASE CommitDescriptors
  <2>1. /\ gdt' = IF gpin = NoPin THEN gdt ELSE gpin
        /\ refs' = (refs \cup taken) \ dropped
        /\ gpin' = NoPin /\ taken' = {} /\ dropped' = {}
        /\ UNCHANGED <<perBlock, mem, spin, bbm, ibm, torn, honest>>
    BY <1>2 DEF CommitDescriptors, history
  <2>2. AllocTypeOK'
    BY <1>1, <2>1 DEF AllocTypeOK
  <2>3. NeverTwice'
    BY <1>1, <2>1 DEF NeverTwice, Marked
  <2> QED
    BY <1>1, <2>1, <2>2, <2>3 DEF AllocInv, DropsWhileFreeing, CountsStayRight, PinnedTotalsRight
<1>3. CASE CommitSuperblock
  <2>1. /\ op = "commit" /\ spin' = NoPin
        /\ UNCHANGED <<perBlock, mem, gpin, taken, dropped, bbm, ibm, gdt, refs, torn, honest>>
    BY <1>3 DEF CommitSuperblock, history
  <2>2. AllocTypeOK' /\ NeverTwice' /\ CountsStayRight' /\ PinnedTotalsRight'
    BY <1>1, <2>1 DEF AllocTypeOK, NeverTwice, Marked, CountsStayRight, PinnedTotalsRight
  <2>3. DropsWhileFreeing'
    BY <1>1, <2>1 DEF DropsWhileFreeing
  <2> QED
    BY <2>2, <2>3 DEF AllocInv
<1> QED
  BY <1>2, <1>3

\* A handler that fails, and a process that ends: what was freed is torn.
LEMMA Abandons ==
  ASSUME AllocInv, Fail \/ Remount
  PROVE  AllocInv'
<1>1. AllocTypeOK /\ NeverTwice /\ CountsStayRight
  BY DEF AllocInv
<1>2. /\ gpin' = NoPin /\ spin' = NoPin /\ taken' = {} /\ dropped' = {}
      /\ torn' = torn \cup dropped
      /\ UNCHANGED <<perBlock, bbm, ibm, gdt, refs>>
      /\ \/ mem' = mem /\ honest' = honest
         \/ mem' = gdt /\ honest' = Right(gdt, bbm, ibm)
  BY DEF Fail, Remount, Abandon, disk
<1>3. AllocTypeOK'
  BY <1>1, <1>2 DEF AllocTypeOK
<1>4. NeverTwice'
  BY <1>1, <1>2 DEF NeverTwice, Marked
<1>5. CountsStayRight'
  BY <1>1, <1>2 DEF CountsStayRight
<1> QED
  BY <1>2, <1>3, <1>4, <1>5 DEF AllocInv, DropsWhileFreeing, PinnedTotalsRight

\* A handler that begins changes nothing the invariant is about.
LEMMA BeginHandler ==
  ASSUME AllocInv, NEW h \in Handlers, Begin(h)
  PROVE  AllocInv'
<1>1. AllocTypeOK /\ NeverTwice /\ DropsWhileFreeing /\ CountsStayRight /\ PinnedTotalsRight
  BY DEF AllocInv
<1>2. /\ op = "none"
      /\ UNCHANGED <<perBlock, mem, gpin, spin, taken, dropped, bbm, ibm, gdt, refs, torn, honest>>
  BY DEF Begin, disk
<1> QED
  BY <1>1, <1>2 DEF AllocInv, AllocTypeOK, NeverTwice, Marked, DropsWhileFreeing, CountsStayRight,
                    PinnedTotalsRight

-----------------------------------------------------------------------------
\* A volume that was just mounted, with the descriptors from before the replay.
LEMMA InitAlloc == Init => AllocInv
<1> SUFFICES ASSUME Init
             PROVE  AllocInv
  OBVIOUS
<1>1. PICK now \in UsedBitmaps, before \in UsedBitmaps :
        /\ perBlock \in 1 .. NumGroups
        /\ bbm = now[1] /\ ibm = now[2]
        /\ gdt = Counted(bbm, ibm)
        /\ mem = Counted(before[1], before[2])
        /\ honest = Right(mem, bbm, ibm)
        /\ gpin = NoPin /\ spin = NoPin
        /\ refs = {} /\ taken = {} /\ dropped = {} /\ torn = {}
  BY DEF Init
<1>2. /\ now[1] \in [Group -> SUBSET Bit] /\ now[2] \in [Group -> SUBSET Slot]
      /\ before[1] \in [Group -> SUBSET Bit] /\ before[2] \in [Group -> SUBSET Slot]
  BY AllocatorAssumption
<1>3. gdt \in [Group -> Desc] /\ mem \in [Group -> Desc]
  BY <1>1, <1>2, CountedTyped
<1>4. AllocTypeOK
  BY <1>1, <1>2, <1>3 DEF AllocTypeOK
<1> QED
  BY <1>1, <1>4 DEF AllocInv, NeverTwice, DropsWhileFreeing, CountsStayRight, PinnedTotalsRight

\* Every step keeps the invariant.
LEMMA AllocStep == AllocInv /\ [Next]_vars => AllocInv'
<1> SUFFICES ASSUME AllocInv, [Next]_vars
             PROVE  AllocInv'
  OBVIOUS
<1>1. CASE \E h \in Handlers : Begin(h)
  BY <1>1, BeginHandler
<1>2. CASE \E h \in Group, n \in 1 .. MaxRun : alloc_blocks(h, n)
  BY <1>2, AllocBlocks
<1>3. CASE \E g \in Group, b \in Bit : free_block(g, b)
  BY <1>3, FreeBlock
<1>4. CASE \E h \in Group : alloc_inode(h)
  BY <1>4, AllocInode
<1>5. CASE \E g \in Group, s \in Slot : free_inode(g, s)
  BY <1>5, FreeInode
<1>6. CASE flush_raw_inode \/ update_superblock
  BY <1>6, FlushRawInode, UpdateSuperblock
<1>7. CASE CommitDescriptors \/ CommitSuperblock
  BY <1>7, Commits
<1>8. CASE Fail \/ Remount
  BY <1>8, Abandons
<1>9. CASE UNCHANGED vars
  BY <1>9 DEF vars, disk, history, AllocInv, AllocTypeOK, NeverTwice, Marked, DropsWhileFreeing,
              CountsStayRight, PinnedTotalsRight
<1> QED
  BY <1>1, <1>2, <1>3, <1>4, <1>5, <1>6, <1>7, <1>8, <1>9 DEF Next

\* The five parts of the invariant together are what every step keeps.
THEOREM AllocInvariant == Spec => []AllocInv
BY InitAlloc, AllocStep, PTL DEF Spec

\* Descriptors, bitmaps and what is in use have their types, and only what is
\* in use is given up.
THEOREM AllocTypeTheorem == Spec => []AllocTypeOK
<1>1. AllocInv => AllocTypeOK
  BY DEF AllocInv
<1> QED
  BY <1>1, AllocInvariant, PTL

\* alloc_blocks and alloc_inode never hand out what is in use, whatever the
\* counts say and whichever handlers failed, but for what such a one had freed.
THEOREM NeverTwiceTheorem == Spec => []NeverTwice
<1>1. AllocInv => NeverTwice
  BY DEF AllocInv
<1> QED
  BY <1>1, AllocInvariant, PTL

\* The counts in the GroupDescTable stay the numbers of free bits if they were
\* when it was loaded, through every failure.
THEOREM CountsTheorem == Spec => []CountsStayRight
<1>1. AllocInv => CountsStayRight
  BY DEF AllocInv
<1> QED
  BY <1>1, AllocInvariant, PTL

\* update_superblock computes the totals some steps before they are written:
\* when they are, they still are the sums of the free bits.
THEOREM TotalsTheorem == Spec => TotalsRightWhenWritten
<1>1. AllocInv /\ [Next]_vars => [honest /\ sb' # sb => sb' = Totals(Counted(bbm, ibm))]_vars
  <2> SUFFICES ASSUME AllocInv, Next, honest, sb' # sb
               PROVE  sb' = Totals(Counted(bbm, ibm))
    OBVIOUS
  <2>1. CommitSuperblock
    BY DEF Next, Begin, alloc_blocks, free_block, alloc_inode, free_inode, Call, flush_raw_inode,
           update_superblock, CommitDescriptors, Fail, Remount, Abandon, disk
  <2>2. spin # NoPin /\ sb' = spin
    BY <2>1 DEF CommitSuperblock
  <2> QED
    BY <2>2 DEF AllocInv, PinnedTotalsRight
<1> QED
  BY <1>1, AllocInvariant, PTL DEF Spec, TotalsRightWhenWritten
=============================================================================
