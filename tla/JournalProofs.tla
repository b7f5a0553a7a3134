--------------------------- MODULE JournalProofs ---------------------------
(***************************************************************************)
(* Proofs about the journal for every volume, every geometry of the log    *)
(* and any number of crashes.  First mounting and replay: how the circular *)
(* log is walked, that a transaction in it reads back as it was written,   *)
(* that replay() never leaves the log area, and that it carries out the    *)
(* committed transactions of any well-formed log exactly (ReplayInv        *)
(* carries that proof).  Then the writer, in JournalCommit: one invariant  *)
(* relates store, log and the writes a commit has left to what the commit  *)
(* blocks promise; a second one follows the log behind the writer's head   *)
(* around the circle.                                                      *)
(***************************************************************************)
EXTENDS JournalCommit, SequenceTheorems, TLAPS

-----------------------------------------------------------------------------
(* Walking the circular log. *)

LEMMA ModuloOfSum ==
  ASSUME NEW n \in Nat \ {0}, NEW q \in Int, NEW r \in 0 .. (n - 1)
  PROVE  (n * q + r) % n = r
OBVIOUS

LEMMA NextModulo ==
  ASSUME NEW n \in Nat \ {0}, NEW x \in Nat
  PROVE  /\ x % n \in 0 .. (n - 1)
         /\ (x + 1) % n = IF (x % n) + 1 >= n THEN 0 ELSE (x % n) + 1
<1> DEFINE q == x \div n
           r == x % n
<1>1. x = (n * q) + r /\ r \in 0 .. (n - 1) /\ q \in Int
  OBVIOUS
<1> HIDE DEF q, r
<1>2. CASE r + 1 < n
  <2>1. x + 1 = (n * q) + (r + 1) /\ r + 1 \in 0 .. (n - 1)
    BY <1>1, <1>2
  <2>2. (x + 1) % n = r + 1
    BY <1>1, <2>1, ModuloOfSum
  <2> QED
    BY <1>1, <1>2, <2>2 DEF r
<1>3. CASE r + 1 >= n
  <2>1. x + 1 = (n * (q + 1)) + 0 /\ q + 1 \in Int /\ 0 \in 0 .. (n - 1)
    BY <1>1, <1>3
  <2>2. (x + 1) % n = 0
    BY <2>1, ModuloOfSum
  <2> QED
    BY <1>1, <1>3, <2>2 DEF r
<1> QED
  BY <1>1, <1>2, <1>3

LEMMA AdvanceStays == ASSUME NEW j \in JBlock PROVE advance_jblock(j) \in JBlock
BY GeometryAssumption DEF JBlock, advance_jblock

LEMMA AdvanceByStays ==
  ASSUME NEW j \in JBlock, NEW k \in Nat
  PROVE  AdvanceBy(j, k) \in JBlock
<1>1. Total - First \in Nat \ {0} /\ j - First + k \in Nat
  BY GeometryAssumption DEF JBlock
<1>2. (j - First + k) % (Total - First) \in 0 .. (Total - First - 1)
  BY <1>1
<1> QED
  BY <1>2, GeometryAssumption DEF JBlock, AdvanceBy

\* AdvanceBy is advance_jblock taken k times, the way the loops of
\* parse_descriptor_block and write_to_journal take it.
THEOREM AdvanceByStep ==
  ASSUME NEW j \in JBlock, NEW k \in Nat
  PROVE  /\ AdvanceBy(j, 0) = j
         /\ AdvanceBy(j, k + 1) = advance_jblock(AdvanceBy(j, k))
<1> DEFINE n == Total - First
           x == j - First + k
<1>1. n \in Nat \ {0} /\ x \in Nat /\ j - First \in 0 .. (n - 1)
  BY GeometryAssumption DEF JBlock
<1>2. j - First + 0 = (n * 0) + (j - First) /\ j - First + (k + 1) = x + 1 /\ 0 \in Int
  BY <1>1, GeometryAssumption DEF JBlock
<1>3. AdvanceBy(j, k) = First + (x % n) /\ AdvanceBy(j, k + 1) = First + ((x + 1) % n)
  BY <1>2 DEF AdvanceBy
<1>4. (j - First + 0) % n = j - First
  BY <1>1, <1>2, ModuloOfSum
<1>5. AdvanceBy(j, 0) = j
  BY <1>4, GeometryAssumption DEF JBlock, AdvanceBy
<1>6. n = Total - First
  OBVIOUS
<1> HIDE DEF n, x
<1>7. x % n \in 0 .. (n - 1) /\ (x + 1) % n = IF (x % n) + 1 >= n THEN 0 ELSE (x % n) + 1
  BY <1>1, NextModulo
<1>8. First \in Nat /\ Total \in Nat
  BY GeometryAssumption
<1> QED
  BY <1>3, <1>5, <1>6, <1>7, <1>8 DEF advance_jblock

\* Walking on from where one has walked to.
LEMMA AdvanceFurther ==
  ASSUME NEW j \in JBlock, NEW k \in Nat, NEW m \in Nat
  PROVE  AdvanceBy(AdvanceBy(j, k), m) = AdvanceBy(j, k + m)
<1> DEFINE n == Total - First
           x == j - First + k
           q == x \div n
           r == x % n
<1>1. n \in Nat \ {0} /\ x \in Nat
  BY GeometryAssumption DEF JBlock
<1>2. n = Total - First /\ First \in Nat /\ j - First + (k + m) = x + m
  BY GeometryAssumption DEF JBlock
<1>3. AdvanceBy(j, k) = First + r
  BY DEF AdvanceBy
<1>4. AdvanceBy(j, k + m) = First + ((x + m) % n)
  BY <1>2 DEF AdvanceBy
<1> HIDE DEF n, x
<1>5. x = (n * q) + r /\ r \in 0 .. (n - 1) /\ q \in Int
  BY <1>1
<1>6. r + m \in Nat
  BY <1>5
<1> HIDE DEF q, r
<1> DEFINE y == r + m
           q2 == y \div n
           r2 == y % n
<1>7. y = (n * q2) + r2 /\ r2 \in 0 .. (n - 1) /\ q2 \in Int
  <2> HIDE DEF y
  <2>1. y \in Nat
    BY <1>6 DEF y
  <2> QED
    BY <1>1, <2>1
<1>8. AdvanceBy(First + r, m) = First + r2
  <2> DEFINE z == First + r
  <2>1. z - First + m = y
    BY <1>2, <1>5
  <2> HIDE DEF y, z
  <2>2. AdvanceBy(z, m) = First + ((z - First + m) % (Total - First))
    BY DEF AdvanceBy
  <2> QED
    BY <1>2, <2>1, <2>2 DEF z
<1> HIDE DEF y
<1> HIDE DEF q2, r2
<1>9. x + m = (n * (q + q2)) + r2 /\ q + q2 \in Int
  BY <1>1, <1>5, <1>7 DEF y
<1>10. (x + m) % n = r2
  BY <1>1, <1>7, <1>9, ModuloOfSum
<1> QED
  BY <1>3, <1>4, <1>8, <1>10

LEMMA AdvanceOne ==
  ASSUME NEW j \in JBlock
  PROVE  AdvanceBy(j, 0) = j /\ AdvanceBy(j, 1) = advance_jblock(j)
<1>1. AdvanceBy(j, 0) = j /\ AdvanceBy(j, 0 + 1) = advance_jblock(AdvanceBy(j, 0))
  BY AdvanceByStep
<1> QED
  BY <1>1

-----------------------------------------------------------------------------
(* One transaction in the log. *)

\* The tags of a transaction.
TagsOf(w, f) == [i \in DOMAIN w |-> [blk |-> w[i].blk, escape |-> f /\ w[i].val = Magic]]

\* How far into a transaction its descriptor is, and how many blocks it takes.
DescriptorOffset(r) == IF r = {} THEN 0 ELSE 1
BlockCount(r, w) ==
  IF w = <<>> THEN DescriptorOffset(r) + 1 ELSE DescriptorOffset(r) + Len(w) + 2

\* Where a transaction has its revoke block, its descriptor, its data and its
\* commit block.
LEMMA TransactionLayout ==
  ASSUME NEW r \in SUBSET FsBlock, NEW w \in Seq(Write), NEW s \in Nat, NEW f \in BOOLEAN
  PROVE  /\ TransactionBlocks(r, w, s, f) \in Seq(Entry)
         /\ Len(TransactionBlocks(r, w, s, f)) = BlockCount(r, w)
         /\ TransactionBlocks(r, w, s, f)[BlockCount(r, w)] = CommitBlock(s)
         /\ r # {} => TransactionBlocks(r, w, s, f)[1] = Revoke(s, r)
         /\ w # <<>> =>
              /\ TransactionBlocks(r, w, s, f)[DescriptorOffset(r) + 1] = Descriptor(s, TagsOf(w, f))
              /\ \A i \in 1 .. Len(w) :
                   TransactionBlocks(r, w, s, f)[DescriptorOffset(r) + 1 + i] = Data(Escape(w[i].val))
<1> DEFINE d == IF r = {} THEN 0 ELSE 1
           c == IF w = <<>> THEN d + 1 ELSE d + Len(w) + 2
           data == [i \in DOMAIN w |-> Data(Escape(w[i].val))]
           A == IF r = {} THEN <<>> ELSE <<Revoke(s, r)>>
           B == IF w = <<>> THEN <<>> ELSE <<Descriptor(s, TagsOf(w, f))>> \o data
           C == <<CommitBlock(s)>>
<1>1. TransactionBlocks(r, w, s, f) = (A \o B) \o C
  BY DEF TransactionBlocks, TagsOf
<1>2. Len(w) \in Nat /\ DOMAIN w = 1 .. Len(w)
  <2> HIDE DEF Write
  <2> QED
    OBVIOUS
<1>3. \A i \in DOMAIN w : w[i].blk \in FsBlock /\ w[i].val \in Value
  <2>1. \A i \in DOMAIN w : w[i] \in Write
    BY <1>2
  <2> QED
    BY <2>1 DEF Write
<1>4. Blank \in Entry
  BY ValueAssumption DEF Blank, Entry, Kind
<1>5. Revoke(s, r) \in Entry /\ CommitBlock(s) \in Entry
  BY <1>4 DEF Revoke, CommitBlock, Entry, Kind
<1>6. TagsOf(w, f) \in Seq(Tag)
  <2>1. TagsOf(w, f) \in [1 .. Len(w) -> Tag]
    BY <1>2, <1>3 DEF TagsOf, Tag
  <2> HIDE DEF Tag
  <2> QED
    BY <1>2, <2>1
<1>7. Descriptor(s, TagsOf(w, f)) \in Entry
  BY <1>4, <1>6 DEF Descriptor, Entry, Kind
<1>8. \A v \in Value : Data(Escape(v)) \in Entry
  BY <1>4, ValueAssumption DEF Data, Escape, Entry, Kind
<1>9. data \in [1 .. Len(w) -> Entry]
  BY <1>2, <1>3, <1>8
<1>10. data \in Seq(Entry) /\ Len(data) = Len(w)
  <2> HIDE DEF data, Entry
  <2> QED
    BY <1>2, <1>9
<1>11. <<Descriptor(s, TagsOf(w, f))>> \in Seq(Entry)
  BY <1>7
<1>12. A \in Seq(Entry) /\ Len(A) = d /\ (r # {} => A[1] = Revoke(s, r))
  BY <1>5
<1>13. C \in Seq(Entry) /\ Len(C) = 1 /\ C[1] = CommitBlock(s)
  BY <1>5
<1>14. /\ B \in Seq(Entry) /\ Len(B) = IF w = <<>> THEN 0 ELSE Len(w) + 1
       /\ w # <<>> => /\ B[1] = Descriptor(s, TagsOf(w, f))
                      /\ \A i \in 1 .. Len(w) : B[1 + i] = data[i]
  <2> DEFINE D == <<Descriptor(s, TagsOf(w, f))>>
  <2>1. D \in Seq(Entry) /\ Len(D) = 1 /\ D[1] = Descriptor(s, TagsOf(w, f))
    BY <1>11
  <2> HIDE DEF data, D
  <2>2. /\ D \o data \in Seq(Entry) /\ Len(D \o data) = Len(D) + Len(data)
        /\ \A i \in 1 .. Len(D) + Len(data) :
             (D \o data)[i] = IF i <= Len(D) THEN D[i] ELSE data[i - Len(D)]
    BY <1>10, <2>1, ConcatProperties
  <2>3. (D \o data)[1] = D[1] /\ \A i \in 1 .. Len(w) : (D \o data)[1 + i] = data[i]
    BY <1>2, <1>10, <2>1, <2>2
  <2>4. B = IF w = <<>> THEN <<>> ELSE D \o data
    BY DEF D, data
  <2> QED
    BY <1>2, <1>10, <2>1, <2>2, <2>3, <2>4
<1> HIDE DEF A, B, C
<1>15. /\ A \o B \in Seq(Entry) /\ Len(A \o B) = Len(A) + Len(B)
       /\ \A i \in 1 .. Len(A) + Len(B) : (A \o B)[i] = IF i <= Len(A) THEN A[i] ELSE B[i - Len(A)]
  BY <1>12, <1>14, ConcatProperties
<1> DEFINE AB == A \o B
           bs == AB \o C
<1>a. /\ Len(AB) = Len(A) + Len(B)
      /\ \A i \in 1 .. Len(A) + Len(B) : AB[i] = IF i <= Len(A) THEN A[i] ELSE B[i - Len(A)]
  BY <1>15
<1> HIDE DEF AB
<1>16. /\ bs \in Seq(Entry) /\ Len(bs) = Len(AB) + Len(C)
       /\ \A i \in 1 .. Len(AB) + Len(C) :
            bs[i] = IF i <= Len(AB) THEN AB[i] ELSE C[i - Len(AB)]
  <2>1. AB \in Seq(Entry)
    BY <1>15 DEF AB
  <2> QED
    BY <1>13, <2>1, ConcatProperties
<1> HIDE DEF bs
<1>17. /\ c = d + Len(B) + 1 /\ c \in Nat /\ d \in {0, 1}
       /\ Len(A) = d /\ Len(AB) = d + Len(B) /\ Len(B) \in Nat /\ Len(C) = 1
  <2>1. d \in {0, 1} /\ Len(A) = d /\ Len(C) = 1
    BY <1>12, <1>13
  <2> HIDE DEF d
  <2>2. Len(B) \in Nat /\ c = d + Len(B) + 1
    BY <1>2, <1>14, <2>1
  <2> HIDE DEF c
  <2> QED
    BY <1>a, <2>1, <2>2
<1>18. bs \in Seq(Entry) /\ DOMAIN bs = 1 .. c /\ Len(bs) = c
  <2> HIDE DEF bs, c, d, Entry
  <2>1. bs \in Seq(Entry) /\ Len(bs) = c
    BY <1>16, <1>17 DEF bs
  <2> QED
    BY <2>1
<1>19. bs[c] = CommitBlock(s)
  <2> HIDE DEF c, d
  <2> QED
    BY <1>13, <1>16, <1>17
<1>20. r # {} => bs[1] = Revoke(s, r)
  BY <1>12, <1>a, <1>16, <1>17
<1>21. ASSUME w # <<>>
       PROVE  /\ bs[d + 1] = Descriptor(s, TagsOf(w, f))
              /\ \A i \in 1 .. Len(w) : bs[d + 1 + i] = Data(Escape(w[i].val))
  <2>1. Len(B) = Len(w) + 1
    BY <1>14, <1>21
  <2>2. \A i \in 1 .. (Len(w) + 1) : bs[d + i] = B[i]
    <3> SUFFICES ASSUME NEW i \in 1 .. (Len(w) + 1)
                 PROVE  bs[d + i] = B[i]
      OBVIOUS
    <3>1. d + i \in 1 .. (d + Len(B)) /\ d + i \in 1 .. (d + Len(B) + 1) /\ ~(d + i <= d) /\ d + i - d = i
      BY <1>2, <1>17, <2>1
    <3> DEFINE k == d + i
    <3>2. k \in 1 .. (Len(A) + Len(B)) /\ k \in 1 .. (Len(AB) + Len(C)) /\ k <= Len(AB) /\ ~(k <= Len(A)) /\ k - Len(A) = i
      BY <1>17, <3>1
    <3> HIDE DEF k, c, d
    <3>3. bs[k] = AB[k]
      BY <1>16, <3>2
    <3>4. AB[k] = B[k - Len(A)]
      BY <1>a, <3>2
    <3> QED
      BY <3>2, <3>3, <3>4 DEF k
  <2>3. bs[d + 1] = B[1] /\ \A i \in 1 .. Len(w) : bs[d + (1 + i)] = B[1 + i]
    BY <1>2, <1>17, <2>2
  <2>4. \A i \in 1 .. Len(w) : d + (1 + i) = d + 1 + i
    BY <1>17
  <2>5. \A i \in 1 .. Len(w) : data[i] = Data(Escape(w[i].val))
    BY <1>2
  <2> HIDE DEF bs, data, d
  <2> QED
    BY <1>14, <1>21, <2>3, <2>4, <2>5
<1> HIDE DEF c, d
<1>22. d = DescriptorOffset(r) /\ c = BlockCount(r, w)
  BY DEF c, d, DescriptorOffset, BlockCount
<1> QED
  BY <1>1, <1>18, <1>19, <1>20, <1>21, <1>22 DEF bs, AB

\* What a journal block gives is what was put into it.
LEMMA RoundTrip ==
  ASSUME NEW v \in Value, NEW f \in BOOLEAN, f \/ v # Magic
  PROVE  Payload(Data(Escape(v)), f /\ v = Magic) = v
BY DEF Payload, Data, Escape, Blank

\* At p the loop of replay() finds revoke block, descriptor, data and commit block
\* of a transaction that ends before journal block end.
Found(lg, p, r, w, s, end) ==
  LET d == IF r = {} THEN p ELSE advance_jblock(p)
  IN  /\ d \in JBlock /\ end \in JBlock
      /\ r # {} => HasHeader(lg[p], "revoke", s) /\ lg[p].blks = r
      /\ w = <<>> => HasHeader(lg[d], "commit", s) /\ end = advance_jblock(d)
      /\ w # <<>> => /\ HasHeader(lg[d], "descriptor", s)
                     /\ HasHeader(lg[CommitPosition(lg, d)], "commit", s)
                     /\ parse_descriptor_block(lg, d) = w
                     /\ end = advance_jblock(CommitPosition(lg, d))

\* A transaction that is in the log as it was written is found committed, and
\* reads back as the writes it was made of, wherever the circle closes.  A writer
\* that does not flag what it escapes must have nothing to escape.
LEMMA ReadBack ==
  ASSUME NEW lg \in [JBlock -> Entry], NEW p \in JBlock, NEW r \in SUBSET FsBlock,
         NEW w \in Seq(Write), NEW s \in Nat, NEW f \in BOOLEAN,
         \A k \in DOMAIN TransactionBlocks(r, w, s, f) :
           lg[AdvanceBy(p, k - 1)] = TransactionBlocks(r, w, s, f)[k],
         f \/ \A i \in DOMAIN w : w[i].val # Magic
  PROVE  Found(lg, p, r, w, s, AdvanceBy(p, Len(TransactionBlocks(r, w, s, f))))
<1> DEFINE bs == TransactionBlocks(r, w, s, f)
           o == DescriptorOffset(r)
           c == BlockCount(r, w)
           d == AdvanceBy(p, o)
           At(k) == lg[AdvanceBy(p, k)]
<1>1. /\ DOMAIN bs = 1 .. c /\ Len(bs) = c /\ bs[c] = CommitBlock(s)
      /\ r # {} => bs[1] = Revoke(s, r)
      /\ w # <<>> => /\ bs[o + 1] = Descriptor(s, TagsOf(w, f))
                     /\ \A i \in 1 .. Len(w) : bs[o + 1 + i] = Data(Escape(w[i].val))
  <2>a. bs \in Seq(Entry) /\ Len(bs) = c /\ bs[c] = CommitBlock(s)
    BY TransactionLayout
  <2>1. DOMAIN bs = 1 .. c
    <3> HIDE DEF bs, c
    <3> QED
      BY <2>a
  <2>2. r # {} => bs[1] = Revoke(s, r)
    BY TransactionLayout
  <2>3. w # <<>> => bs[o + 1] = Descriptor(s, TagsOf(w, f))
    BY TransactionLayout
  <2>4. w # <<>> => \A i \in 1 .. Len(w) : bs[o + 1 + i] = Data(Escape(w[i].val))
    BY TransactionLayout
  <2> QED
    BY <2>1, <2>a, <2>2, <2>3, <2>4
<1>2. Len(w) \in Nat /\ DOMAIN w = 1 .. Len(w) /\ \A i \in DOMAIN w : w[i] \in Write
  <2> HIDE DEF Write
  <2> QED
    OBVIOUS
<1>3. o \in {0, 1} /\ (r # {} => o = 1) /\ (r = {} => o = 0) /\ c \in Nat \ {0}
      /\ (w = <<>> => c = o + 1) /\ (w # <<>> => c = o + Len(w) + 2)
  BY <1>2 DEF DescriptorOffset, BlockCount
<1> HIDE DEF bs, o, c
\* Counted from the start of the transaction, block k is its (k+1)-th.
<1>4. \A k \in 0 .. (c - 1) : At(k) = bs[k + 1]
  <2>1. \A k \in 1 .. c : lg[AdvanceBy(p, k - 1)] = bs[k]
    BY <1>1 DEF bs
  <2> SUFFICES ASSUME NEW k \in 0 .. (c - 1)
               PROVE  lg[AdvanceBy(p, k)] = bs[k + 1]
    OBVIOUS
  <2> DEFINE m == k + 1
  <2>2. m \in 1 .. c /\ m - 1 = k
    BY <1>3
  <2> HIDE DEF m
  <2>3. lg[AdvanceBy(p, m - 1)] = bs[m]
    BY <2>1, <2>2
  <2> QED
    BY <2>2, <2>3 DEF m
<1>5. d = IF r = {} THEN p ELSE advance_jblock(p)
  BY <1>3, AdvanceOne
<1>6. d \in JBlock /\ AdvanceBy(p, Len(bs)) \in JBlock
  BY <1>1, <1>3, AdvanceByStays
<1>7. \A m \in Nat : AdvanceBy(d, m) = AdvanceBy(p, o + m)
  <2>1. o \in Nat
    BY <1>3
  <2> QED
    BY <2>1, AdvanceFurther DEF d
<1>8. r # {} => lg[p] = Revoke(s, r)
  <2>1. 0 \in 0 .. (c - 1) /\ 0 + 1 = 1
    BY <1>3
  <2>2. At(0) = bs[1]
    BY <1>4, <2>1
  <2> QED
    BY <1>1, <2>2, AdvanceOne
<1>9. At(c - 1) = CommitBlock(s) /\ AdvanceBy(p, c) = advance_jblock(AdvanceBy(p, c - 1))
  <2> DEFINE m == c - 1
  <2>1. m \in Nat /\ m + 1 = c /\ m \in 0 .. (c - 1)
    BY <1>3
  <2> HIDE DEF m
  <2>2. AdvanceBy(p, m + 1) = advance_jblock(AdvanceBy(p, m))
    BY <2>1, AdvanceByStep
  <2>3. At(m) = bs[m + 1]
    BY <1>4, <2>1
  <2> QED
    BY <1>1, <2>1, <2>2, <2>3 DEF m
<1>10. HasHeader(Revoke(s, r), "revoke", s) /\ Revoke(s, r).blks = r /\ HasHeader(CommitBlock(s), "commit", s)
  BY DEF HasHeader, Revoke, CommitBlock, Blank
<1>11. ASSUME w = <<>>
       PROVE  HasHeader(lg[d], "commit", s) /\ AdvanceBy(p, Len(bs)) = advance_jblock(d)
  <2>1. c - 1 = o
    BY <1>3, <1>11
  <2> QED
    BY <1>1, <1>9, <1>10, <2>1
<1>12. ASSUME w # <<>>
       PROVE  /\ HasHeader(lg[d], "descriptor", s)
              /\ HasHeader(lg[CommitPosition(lg, d)], "commit", s)
              /\ parse_descriptor_block(lg, d) = w
              /\ AdvanceBy(p, Len(bs)) = advance_jblock(CommitPosition(lg, d))
  <2> DEFINE tags == TagsOf(w, f)
  <2>1. lg[d] = Descriptor(s, tags)
    <3>1. o \in 0 .. (c - 1)
      BY <1>2, <1>3, <1>12
    <3> QED
      BY <1>1, <1>4, <1>12, <3>1
  <2>2. HasHeader(lg[d], "descriptor", s) /\ lg[d].tags = tags
    BY <2>1 DEF HasHeader, Descriptor, Blank
  <2>3. Len(tags) = Len(w) /\ \A i \in 1 .. Len(w) :
          tags[i] = [blk |-> w[i].blk, escape |-> f /\ w[i].val = Magic]
    <3>1. tags = [i \in 1 .. Len(w) |-> [blk |-> w[i].blk, escape |-> f /\ w[i].val = Magic]]
      BY <1>2 DEF TagsOf
    <3> HIDE DEF tags
    <3> QED
      BY <1>2, <3>1
  <2> HIDE DEF tags
  <2>4. CommitPosition(lg, d) = AdvanceBy(p, c - 1)
    <3>1. Len(w) + 1 \in Nat /\ o + (Len(w) + 1) = c - 1
      BY <1>2, <1>3, <1>12
    <3> QED
      BY <1>7, <2>2, <2>3, <3>1 DEF CommitPosition
  <2>5. \A i \in 1 .. Len(w) : lg[AdvanceBy(d, i)] = Data(Escape(w[i].val))
    <3> SUFFICES ASSUME NEW i \in 1 .. Len(w)
                 PROVE  lg[AdvanceBy(d, i)] = Data(Escape(w[i].val))
      OBVIOUS
    <3> DEFINE k == o + i
    <3>1. k \in 0 .. (c - 1) /\ k + 1 = o + 1 + i /\ i \in Nat
      BY <1>2, <1>3, <1>12
    <3>2. AdvanceBy(d, i) = AdvanceBy(p, k)
      BY <1>7, <3>1
    <3>3. bs[o + 1 + i] = Data(Escape(w[i].val))
      BY <1>1, <1>12
    <3> HIDE DEF k
    <3> QED
      BY <1>4, <3>1, <3>2, <3>3
  <2>6. \A i \in 1 .. Len(w) : w[i].val \in Value /\ (f \/ w[i].val # Magic)
                               /\ w[i] = [blk |-> w[i].blk, val |-> w[i].val]
    BY <1>2 DEF Write
  <2>7. \A i \in 1 .. Len(w) : tags[i].blk = w[i].blk /\ tags[i].escape = (f /\ w[i].val = Magic)
    <3> SUFFICES ASSUME NEW i \in 1 .. Len(w)
                 PROVE  tags[i].blk = w[i].blk /\ tags[i].escape = (f /\ w[i].val = Magic)
      OBVIOUS
    <3> DEFINE e == f /\ w[i].val = Magic
               b == w[i].blk
    <3>1. tags[i] = [blk |-> b, escape |-> e]
      BY <2>3, Zenon
    <3> HIDE DEF e, b
    <3>2. tags[i].blk = b /\ tags[i].escape = e
      BY <3>1
    <3> QED
      BY <3>2 DEF e, b
  <2>9. ASSUME NEW i \in 1 .. Len(w)
        PROVE  Payload(lg[AdvanceBy(d, i)], tags[i].escape) = w[i].val
    <3>1. Payload(Data(Escape(w[i].val)), f /\ w[i].val = Magic) = w[i].val
      BY <2>6, RoundTrip
    <3> QED
      BY <2>5, <2>7, <3>1, Zenon
  <2>10. parse_descriptor_block(lg, d) =
          [i \in 1 .. Len(w) |-> [blk |-> tags[i].blk, val |-> Payload(lg[AdvanceBy(d, i)], tags[i].escape)]]
    BY <2>2, <2>3 DEF parse_descriptor_block
  <2>11. \A i \in 1 .. Len(w) :
           [blk |-> tags[i].blk, val |-> Payload(lg[AdvanceBy(d, i)], tags[i].escape)] = w[i]
    BY <2>6, <2>7, <2>9, Zenon
  <2>12. parse_descriptor_block(lg, d) = [i \in 1 .. Len(w) |-> w[i]]
    BY <2>10, <2>11
  <2>13. w = [i \in 1 .. Len(w) |-> w[i]]
    <3> HIDE DEF Write
    <3> QED
      BY <1>2
  <2> QED
    BY <1>1, <1>9, <1>10, <2>2, <2>4, <2>12, <2>13
<1> QED
  BY <1>1, <1>5, <1>6, <1>8, <1>10, <1>11, <1>12 DEF bs, Found

-----------------------------------------------------------------------------
(* Type correctness. *)

LEMMA TagsTyped ==
  ASSUME NEW lg \in [JBlock -> Entry], NEW j \in JBlock
  PROVE  /\ lg[j].tags \in Seq(Tag) /\ Len(lg[j].tags) \in Nat
         /\ lg[j].blks \subseteq FsBlock /\ lg[j].val \in Value
         /\ CommitPosition(lg, j) \in JBlock
<1>1. lg[j] \in Entry
  OBVIOUS
<1>2. lg[j].tags \in Seq(Tag) /\ lg[j].blks \subseteq FsBlock /\ lg[j].val \in Value
  BY <1>1 DEF Entry
<1>3. Len(lg[j].tags) \in Nat
  <2> DEFINE ts == lg[j].tags
  <2> HIDE DEF ts
  <2>1. ts \in Seq(Tag)
    BY <1>2 DEF ts
  <2>2. Len(ts) \in Nat
    BY <2>1
  <2> QED
    BY <2>2 DEF ts
<1> QED
  BY <1>2, <1>3, AdvanceByStays DEF CommitPosition

\* What a descriptor stands for is a list of writes to the store.
LEMMA ParsedTyped ==
  ASSUME NEW lg \in [JBlock -> Entry], NEW j \in JBlock
  PROVE  parse_descriptor_block(lg, j) \in Seq(Write)
<1> DEFINE ts == lg[j].tags
           n  == Len(ts)
           w  == [i \in 1 .. n |->
                    [blk |-> ts[i].blk,
                     val |-> Payload(lg[AdvanceBy(j, i)], ts[i].escape)]]
<1>1. ts \in Seq(Tag) /\ n \in Nat
  BY TagsTyped
<1>2. \A i \in 1 .. n : ts[i] \in Tag
  <2> HIDE DEF ts
  <2> QED
    BY <1>1
<1> HIDE DEF ts, n
<1>3. \A i \in 1 .. n : ts[i].blk \in FsBlock
  BY <1>2 DEF Tag
<1>4. \A i \in 1 .. n : AdvanceBy(j, i) \in JBlock
  BY <1>1, AdvanceByStays
<1>5. \A k \in JBlock : \A x : Payload(lg[k], x) \in Value
  BY TagsTyped, ValueAssumption DEF Payload
<1>6. \A i \in 1 .. n : w[i] \in Write
  BY <1>3, <1>4, <1>5 DEF Write
<1>7. w \in [1 .. n -> Write]
  BY <1>6
<1>8. w \in Seq(Write)
  <2> HIDE DEF w
  <2> QED
    BY <1>1, <1>7
<1> QED
  BY <1>8 DEF parse_descriptor_block, ts, n

LEMMA InitTyped == Init => TypeOK
<1> SUFFICES ASSUME Init
             PROVE  TypeOK
  OBVIOUS
<1>1. First \in JBlock
  BY GeometryAssumption DEF JBlock
<1>2. /\ fs \in [FsBlock -> Value] /\ log \in [JBlock -> Entry] /\ jsb \in JournalSb
  BY ImagesAssumption DEF Init, JournalSb
<1> QED
  BY <1>1, <1>2, BoundAssumption DEF Init, TypeOK, Phase

LEMMA OpenTyped ==
  ASSUME TypeOK, OpenReadWrite \/ OpenReadOnly \/ Close
  PROVE  TypeOK'
<1>1. First \in JBlock
  BY GeometryAssumption DEF JBlock
<1>2. jsb.start # 0 => jsb.start \in JBlock
  BY DEF TypeOK, JournalSb
<1>3. jsb.seq \in Nat /\ <<>> \in Seq(Write)
  BY DEF TypeOK, JournalSb
<1>4. CASE OpenReadWrite
  BY <1>1, <1>2, <1>3, <1>4
     DEF OpenReadWrite, TypeOK, JournalSb, Phase, device, is_clean
<1>5. CASE OpenReadOnly
  BY <1>5 DEF OpenReadOnly, TypeOK, Phase, device, locals
<1>6. CASE Close
  BY <1>6 DEF Close, TypeOK, Phase, device, locals
<1> QED
  BY <1>4, <1>5, <1>6

LEMMA ReplayTyped ==
  ASSUME TypeOK, Replay
  PROVE  TypeOK'
<1>1. CASE ScanDescriptor
  <2>1. parse_descriptor_block(log, jblock) \in Seq(Write)
    BY ParsedTyped DEF TypeOK
  <2> QED
    BY <1>1, <2>1 DEF ScanDescriptor, TypeOK, Phase, device
<1>2. CASE ApplyWrite
  <2>1. Head(pending) \in Write /\ Tail(pending) \in Seq(Write)
    BY <1>2 DEF ApplyWrite, TypeOK
  <2>2. Head(pending).blk \in FsBlock /\ Head(pending).val \in Value
    BY <2>1 DEF Write
  <2>3. fs' \in [FsBlock -> Value]
    BY <1>2, <2>2 DEF ApplyWrite, TypeOK
  <2>4. applied' \in Nat
    BY <1>2 DEF ApplyWrite, TypeOK
  <2> QED
    BY <1>2, <2>1, <2>3, <2>4 DEF ApplyWrite, TypeOK
<1>3. CASE EndTransaction
  <2>1. CommitPosition(log, jblock) \in JBlock
    BY TagsTyped DEF TypeOK
  <2>2. jblock' \in JBlock
    BY <1>3, <2>1, AdvanceStays DEF EndTransaction
  <2> QED
    BY <1>3, <2>2 DEF EndTransaction, TypeOK, Phase, device
<1>4. CASE ScanCommit
  <2>1. jblock' \in JBlock
    BY <1>4, AdvanceStays DEF ScanCommit, TypeOK
  <2> QED
    BY <1>4, <2>1 DEF ScanCommit, TypeOK, device
<1>5. CASE ScanRevoke
  <2>1. jblock' \in JBlock
    BY <1>5, AdvanceStays DEF ScanRevoke, TypeOK
  <2>2. log[jblock].blks \subseteq FsBlock
    BY TagsTyped DEF TypeOK
  <2> QED
    BY <1>5, <2>1, <2>2 DEF ScanRevoke, TypeOK, device
<1>6. CASE EndOfLog
  BY <1>6 DEF EndOfLog, TypeOK, Phase, device, locals
<1>7. CASE WriteJournalSuperblock
  BY <1>7 DEF WriteJournalSuperblock, TypeOK, JournalSb, Phase, locals
<1>8. CASE Flush
  BY <1>8 DEF Flush, TypeOK, Phase, device, locals
<1> QED
  BY <1>1, <1>2, <1>3, <1>4, <1>5, <1>6, <1>7, <1>8 DEF Replay

LEMMA FailTyped ==
  ASSUME TypeOK, Fail
  PROVE  TypeOK'
<1>1. Restart => crashes' \in 0 .. MaxCrashes
  BY BoundAssumption DEF Restart, TypeOK
<1>2. CASE ProcessCrash
  BY <1>1, <1>2 DEF ProcessCrash, Restart, TypeOK, Phase, locals
<1>3. CASE TornWrite
  <2>1. Head(pending) \in Write
    BY <1>3 DEF TornWrite, TypeOK
  <2>2. Head(pending).blk \in FsBlock /\ Junk \in Value
    BY <2>1, ValueAssumption DEF Write
  <2>3. fs' \in [FsBlock -> Value]
    BY <1>3, <2>2 DEF TornWrite, TypeOK
  <2> QED
    BY <1>1, <1>3, <2>3 DEF TornWrite, Restart, TypeOK, Phase, locals
<1>4. CASE PowerLoss
  <2>1. \A b \in FsBlock : fs[b] \in Value /\ stable.fs[b] \in Value /\ Junk \in Value
    BY ValueAssumption DEF TypeOK
  <2>3. fs' \in [FsBlock -> Value]
    BY <1>4, <2>1 DEF PowerLoss, Survivors
  <2>2. jsb' \in JournalSb
    BY <1>4 DEF PowerLoss, TypeOK
  <2> QED
    BY <1>1, <1>4, <2>2, <2>3 DEF PowerLoss, Restart, TypeOK, Phase, locals
<1> QED
  BY <1>2, <1>3, <1>4 DEF Fail

\* Whatever the log holds and however often replay() is cut off, it stays
\* inside the log area, writes only blocks of the store, and only payloads.
THEOREM ReplayTypeCorrect == Spec => []TypeOK
<1>1. TypeOK /\ [Next]_vars => TypeOK'
  <2> SUFFICES ASSUME TypeOK, [Next]_vars
               PROVE  TypeOK'
    OBVIOUS
  <2>1. CASE Next
    BY <2>1, OpenTyped, ReplayTyped, FailTyped DEF Next
  <2>2. CASE UNCHANGED vars
    BY <2>2 DEF vars, TypeOK
  <2> QED
    BY <2>1, <2>2
<1> QED
  BY <1>1, InitTyped, PTL DEF Spec

-----------------------------------------------------------------------------
(* Where the loop stands in a well-formed log. *)

\* The committed transactions of the volume, the superblock that says they are
\* replayed, and the block behind the revoke block of the i-th.
Txns == Len(image.txns)
Emptied == [image.jsb EXCEPT !.start = 0, !.seq = @ + Txns]
DescriptorAt(im, i) ==
  IF im.txns[i].revoked = {} THEN im.at[i - 1] ELSE advance_jblock(im.at[i - 1])

NothingRevoked == \A k \in DOMAIN image.wal : image.wal[k].blk \notin revoke_set

\* The loop is at the i-th transaction, or behind the last one; nothing it will
\* write has been revoked.
AtTransaction(i) ==
  /\ sequence = image.jsb.seq + i
  /\ applied = image.done[i]
  /\ i < Txns => NothingRevoked /\ jblock \in {image.at[i], DescriptorAt(image, i + 1)}

\* The i-th transaction is being written; what is left of it is next in wal.
InTransaction(i) ==
  /\ sequence = image.jsb.seq + i - 1
  /\ jblock = DescriptorAt(image, i)
  /\ image.txns[i].writes # <<>>
  /\ NothingRevoked
  /\ applied + Len(pending) = image.done[i]
  /\ \A k \in DOMAIN pending : pending[k] = image.wal[applied + k]

WhereItIs ==
  /\ phase = "scan" => \E i \in 0 .. Txns : AtTransaction(i)
  /\ phase = "apply" => \E i \in 1 .. Txns : InTransaction(i)
  /\ phase = "mark" => sequence = image.jsb.seq + Txns /\ applied = Len(image.wal)

\* Only recovery writes the superblock, and nothing is written once it has.
Superblocks ==
  /\ jsb \in {image.jsb, Emptied} /\ stable.jsb \in {image.jsb, Emptied}
  /\ is_clean(stable.jsb) => is_clean(jsb) /\ fs = stable.fs
  /\ phase \in {"scan", "apply", "mark"} => ~is_clean(jsb) /\ journal = jsb
  /\ phase \in {"barrier", "recovered", "ro"} => is_clean(jsb)
  /\ phase = "recovered" /\ ~is_clean(journal) => is_clean(stable.jsb)

StoreProgress ==
  /\ Redo!ReplayProgress
  /\ \A x \in FsBlock : ~Redo!Written(image.wal, Len(image.wal), x) => stable.fs[x] = image.fs[x]
  /\ ~image.cached /\ is_clean(jsb) => Redo!IsReplayed(image.fs, image.wal, fs)

ReplayInv ==
  /\ TypeOK
  /\ image \in Images /\ log = image.log
  /\ WhereItIs
  /\ Superblocks
  /\ StoreProgress

-----------------------------------------------------------------------------
(* A well-formed log is found as it was written. *)

LEMMA ImageTyped ==
  ASSUME NEW im \in Images
  PROVE  /\ im.fs \in [FsBlock -> Value] /\ im.log \in [JBlock -> Entry]
         /\ im.jsb \in JournalSb /\ im.jsb.seq \in Nat
         /\ im.wal \in Seq(Write) /\ Len(im.wal) \in Nat
         /\ Len(im.txns) \in Nat
         /\ im.at \in [0 .. Len(im.txns) -> JBlock]
         /\ im.done \in [0 .. Len(im.txns) -> 0 .. Len(im.wal)]
         /\ is_clean(im.jsb) => Len(im.txns) = 0 /\ im.wal = <<>>
         /\ ~is_clean(im.jsb) => im.at[0] = im.jsb.start
         /\ im.done[0] = 0 /\ im.done[Len(im.txns)] = Len(im.wal)
<1>1. /\ im.fs \in [FsBlock -> Value] /\ im.log \in [JBlock -> Entry]
      /\ im.jsb \in JournalSb /\ im.wal \in Seq(Write)
      /\ is_clean(im.jsb) => im.wal = <<>>
  BY ImagesAssumption DEF JournalSb, is_clean
<1>2. im.jsb.seq \in Nat
  BY <1>1 DEF JournalSb
<1>3. WellFormed(im)
  BY LogsAssumption
<1>4. Len(im.wal) \in Nat
  <2> DEFINE w == im.wal
  <2> HIDE DEF w, Write
  <2>1. w \in Seq(Write)
    BY <1>1 DEF w
  <2>2. Len(w) \in Nat
    BY <2>1
  <2> QED
    BY <2>2 DEF w
<1>5. Len(im.txns) \in Nat
  <2> DEFINE t == im.txns
  <2> HIDE DEF t, Transaction
  <2>1. t \in Seq(Transaction)
    BY <1>3 DEF t, WellFormed
  <2>2. Len(t) \in Nat
    BY <2>1
  <2> QED
    BY <2>2 DEF t
<1> QED
  BY <1>1, <1>2, <1>3, <1>4, <1>5 DEF WellFormed, is_clean

LEMMA TransactionFound ==
  ASSUME NEW im \in Images, NEW i \in 1 .. Len(im.txns)
  PROVE  LET r == im.txns[i].revoked
             w == im.txns[i].writes
             s == im.jsb.seq + i - 1
             p == im.at[i - 1]
             d == DescriptorAt(im, i)
         IN  /\ p \in JBlock /\ d \in JBlock /\ im.at[i] \in JBlock
             /\ r # {} => HasHeader(im.log[p], "revoke", s) /\ im.log[p].blks = r
             /\ w = <<>> => HasHeader(im.log[d], "commit", s) /\ im.at[i] = advance_jblock(d)
             /\ w # <<>> => /\ HasHeader(im.log[d], "descriptor", s)
                            /\ HasHeader(im.log[CommitPosition(im.log, d)], "commit", s)
                            /\ parse_descriptor_block(im.log, d) = w
                            /\ im.at[i] = advance_jblock(CommitPosition(im.log, d))
<1> DEFINE lg == im.log
           r == im.txns[i].revoked
           w == im.txns[i].writes
           s == im.jsb.seq + i - 1
           p == im.at[i - 1]
<1>1. WellFormed(im)
  BY LogsAssumption
<1>2. im.jsb.seq \in Nat /\ Len(im.txns) \in Nat /\ lg \in [JBlock -> Entry]
      /\ im.at \in [0 .. Len(im.txns) -> JBlock]
  BY ImageTyped
<1>3. i \in Nat /\ i - 1 \in 0 .. Len(im.txns) /\ s \in Nat
  BY <1>2
<1>4. p \in JBlock
  BY <1>2, <1>3
<1>5. r \in SUBSET FsBlock /\ w \in Seq(Write)
  <2>1. im.txns[i] \in Transaction
    <3> DEFINE t == im.txns
    <3> HIDE DEF t, Transaction
    <3>1. t \in Seq(Transaction) /\ i \in 1 .. Len(t)
      BY <1>1 DEF t, WellFormed
    <3>2. t[i] \in Transaction
      BY <3>1
    <3> QED
      BY <3>2 DEF t
  <2> HIDE DEF Write
  <2> QED
    BY <2>1 DEF Transaction
<1>6. LoggedBlocks(im, i) = TransactionBlocks(r, w, s, TRUE)
  BY DEF LoggedBlocks
<1>7. HoldsTransaction(im, i)
  BY <1>1 DEF WellFormed
<1>8. \A k \in DOMAIN TransactionBlocks(r, w, s, TRUE) :
        lg[AdvanceBy(p, k - 1)] = TransactionBlocks(r, w, s, TRUE)[k]
  BY <1>6, <1>7 DEF HoldsTransaction
<1>9. im.at[i] = AdvanceBy(p, Len(TransactionBlocks(r, w, s, TRUE)))
  BY <1>6, <1>7 DEF HoldsTransaction
<1>10. DescriptorAt(im, i) = IF r = {} THEN p ELSE advance_jblock(p)
  BY DEF DescriptorAt
<1> HIDE DEF lg, r, w, s, p
<1> DEFINE d == IF r = {} THEN p ELSE advance_jblock(p)
           end == AdvanceBy(p, Len(TransactionBlocks(r, w, s, TRUE)))
<1>11. Found(lg, p, r, w, s, end)
  <2>1. TRUE \/ \A k \in DOMAIN w : w[k].val # Magic
    OBVIOUS
  <2> QED
    BY <1>2, <1>3, <1>4, <1>5, <1>8, <2>1, ReadBack
<1> HIDE DEF d, end
<1>12. DescriptorAt(im, i) = d /\ im.at[i] = end
  BY <1>9, <1>10 DEF d, end
<1> QED
  BY <1>4, <1>11, <1>12 DEF lg, r, w, s, p, d, Found

\* What the i-th transaction adds to wal, and that nothing of wal is among
\* the blocks it revokes.
LEMMA TransactionWrites ==
  ASSUME NEW im \in Images, NEW i \in 1 .. Len(im.txns)
  PROVE  /\ im.done[i] = im.done[i - 1] + Len(im.txns[i].writes)
         /\ im.txns[i].writes \in Seq(Write)
         /\ im.done[i - 1] \in 0 .. Len(im.wal) /\ im.done[i] \in 0 .. Len(im.wal)
         /\ \A k \in DOMAIN im.txns[i].writes : im.txns[i].writes[k] = im.wal[im.done[i - 1] + k]
         /\ \A k \in DOMAIN im.wal : im.wal[k].blk \notin im.txns[i].revoked
<1>1. WellFormed(im)
  BY LogsAssumption
<1>2. Len(im.txns) \in Nat /\ im.done \in [0 .. Len(im.txns) -> 0 .. Len(im.wal)]
  BY ImageTyped
<1>3. i - 1 \in 0 .. Len(im.txns) /\ i \in 0 .. Len(im.txns)
  BY <1>2
<1>4. im.txns[i].writes \in Seq(Write)
  <2>1. im.txns[i] \in Transaction
    <3> DEFINE t == im.txns
    <3> HIDE DEF t, Transaction
    <3>1. t \in Seq(Transaction) /\ i \in 1 .. Len(t)
      BY <1>1 DEF t, WellFormed
    <3>2. t[i] \in Transaction
      BY <3>1
    <3> QED
      BY <3>2 DEF t
  <2> HIDE DEF Write
  <2> QED
    BY <2>1 DEF Transaction
<1>5. HoldsTransaction(im, i) /\ \A k \in DOMAIN im.wal : im.wal[k].blk \notin im.txns[i].revoked
  BY <1>1 DEF WellFormed
<1> QED
  BY <1>2, <1>3, <1>4, <1>5 DEF HoldsTransaction

-----------------------------------------------------------------------------
(* How the last write of a block moves on when one write is carried out. *)

LEMMA NothingWritten == \A w, b : ~Redo!Written(w, 0, b)
BY DEF Redo!Written

LEMMA NextWriteIsLast ==
  ASSUME NEW w, NEW n \in Nat, NEW b, w[n + 1].blk = b
  PROVE  Redo!IsLastWrite(w, n + 1, b, n + 1)
<1>1. n + 1 \in 1 .. (n + 1) /\ \A k \in (n + 1 + 1) .. (n + 1) : FALSE
  OBVIOUS
<1> QED
  BY <1>1 DEF Redo!IsLastWrite

LEMMA OtherWriteKeepsLast ==
  ASSUME NEW w, NEW n \in Nat, NEW b, w[n + 1].blk # b
  PROVE  /\ Redo!Written(w, n + 1, b) => Redo!Written(w, n, b)
         /\ \A i \in 1 .. n : Redo!IsLastWrite(w, n, b, i) => Redo!IsLastWrite(w, n + 1, b, i)
<1>1. \A i \in 1 .. (n + 1) : i # n + 1 => i \in 1 .. n
  OBVIOUS
<1>2. \A i \in 1 .. n : i \in 1 .. (n + 1)
  OBVIOUS
<1>3. \A i \in 1 .. n : \A k \in (i + 1) .. (n + 1) : k # n + 1 => k \in (i + 1) .. n
  OBVIOUS
<1> QED
  BY <1>1, <1>2, <1>3 DEF Redo!IsLastWrite, Redo!Written

\* The next write of the log carried out.
LEMMA ProgressKept ==
  ASSUME TypeOK, image \in Images, Redo!ReplayProgress, image' = image,
         applied + 1 \in 1 .. Len(image.wal), applied' = applied + 1,
         fs' = [fs EXCEPT ![image.wal[applied + 1].blk] = image.wal[applied + 1].val]
  PROVE  Redo!ReplayProgress'
<1> DEFINE wal == image.wal
           n == applied
           x == wal[n + 1].blk
           v == wal[n + 1].val
<1>1. n \in Nat /\ fs \in [FsBlock -> Value]
  BY DEF TypeOK
<1>2. fs' = [fs EXCEPT ![x] = v] /\ applied' = n + 1 /\ image'.wal = wal /\ image'.fs = image.fs
  OBVIOUS
<1> SUFFICES ASSUME NEW b \in FsBlock
             PROVE  /\ \/ ~Redo!Written(wal, n + 1, b)
                       \/ \E i \in 1 .. (n + 1) :
                            Redo!IsLastWrite(wal, n + 1, b, i) /\ fs'[b] = wal[i].val
                    /\ Redo!Written(wal, Len(wal), b) \/ fs'[b] = image.fs[b]
  BY <1>2 DEF Redo!ReplayProgress
<1>3. /\ \/ ~Redo!Written(wal, n, b)
         \/ \E i \in 1 .. n : Redo!IsLastWrite(wal, n, b, i) /\ fs[b] = wal[i].val
      /\ Redo!Written(wal, Len(wal), b) \/ fs[b] = image.fs[b]
  BY DEF Redo!ReplayProgress
<1>4. n + 1 \in 1 .. Len(wal)
  OBVIOUS
<1> HIDE DEF wal, n
<1>5. CASE b = x
  <2>1. Redo!IsLastWrite(wal, n + 1, b, n + 1)
    BY <1>1, <1>5, NextWriteIsLast
  <2>2. fs'[b] = wal[n + 1].val
    BY <1>1, <1>2, <1>5
  <2>3. Redo!Written(wal, Len(wal), b)
    BY <1>4, <1>5 DEF Redo!Written
  <2>4. n + 1 \in 1 .. (n + 1)
    BY <1>1
  <2> QED
    BY <2>1, <2>2, <2>3, <2>4
<1>6. CASE b # x
  <2>1. fs'[b] = fs[b]
    BY <1>1, <1>2, <1>6
  <2>2. /\ Redo!Written(wal, n + 1, b) => Redo!Written(wal, n, b)
        /\ \A i \in 1 .. n : Redo!IsLastWrite(wal, n, b, i) => Redo!IsLastWrite(wal, n + 1, b, i)
    BY <1>1, <1>6, OtherWriteKeepsLast
  <2>3. \A i \in 1 .. n : i \in 1 .. (n + 1)
    BY <1>1
  <2> QED
    BY <1>3, <2>1, <2>2, <2>3
<1> QED
  BY <1>5, <1>6

\* A new attempt claims nothing yet; blocks that the log does not write are
\* still as they were.
LEMMA ProgressRestarts ==
  ASSUME Redo!ReplayProgress, image' = image, applied' = 0,
         \A b \in FsBlock : ~Redo!Written(image.wal, Len(image.wal), b) => fs'[b] = fs[b]
  PROVE  Redo!ReplayProgress'
<1> SUFFICES ASSUME NEW b \in FsBlock
             PROVE  /\ \/ ~Redo!Written(image.wal, 0, b)
                       \/ \E i \in 1 .. 0 :
                            Redo!IsLastWrite(image.wal, 0, b, i) /\ fs'[b] = image.wal[i].val
                    /\ Redo!Written(image.wal, Len(image.wal), b) \/ fs'[b] = image.fs[b]
  BY DEF Redo!ReplayProgress
<1> QED
  BY NothingWritten DEF Redo!ReplayProgress

\* All writes carried out.
LEMMA ProgressAtEnd ==
  ASSUME Redo!ReplayProgress, applied = Len(image.wal)
  PROVE  Redo!IsReplayed(image.fs, image.wal, fs)
BY DEF Redo!ReplayProgress, Redo!IsReplayed

-----------------------------------------------------------------------------
(* The invariant. *)

\* Steps that write nothing.
LEMMA StoreKept ==
  ASSUME ReplayInv, UNCHANGED <<fs, jsb, stable, image>>, applied' \in {applied, 0}
  PROVE  StoreProgress'
<1>1. Redo!ReplayProgress'
  <2>1. CASE applied' = applied
    BY <2>1 DEF ReplayInv, StoreProgress, Redo!ReplayProgress
  <2>2. CASE applied' = 0
    BY <2>2, ProgressRestarts DEF ReplayInv, StoreProgress
  <2> QED
    BY <2>1, <2>2
<1> QED
  BY <1>1 DEF ReplayInv, StoreProgress

LEMMA InitHolds == Init => ReplayInv
<1> SUFFICES ASSUME Init
             PROVE  ReplayInv
  OBVIOUS
<1>1. /\ image \in Images /\ fs = image.fs /\ jsb = image.jsb /\ log = image.log
      /\ stable = [fs |-> fs, jsb |-> jsb] /\ phase = "down" /\ applied = 0
  BY DEF Init
<1>2. is_clean(image.jsb) => image.wal = <<>>
  BY <1>1, ImageTyped
<1>3. StoreProgress
  <2>1. Redo!ReplayProgress
    BY <1>1, NothingWritten DEF Redo!ReplayProgress
  <2>2. Len(<<>>) = 0
    OBVIOUS
  <2>3. is_clean(jsb) => Redo!IsReplayed(image.fs, image.wal, fs)
    BY <1>1, <1>2, <2>2, NothingWritten DEF Redo!IsReplayed
  <2>4. stable.fs = image.fs
    BY <1>1
  <2> QED
    BY <2>1, <2>3, <2>4 DEF StoreProgress
<1>4. WhereItIs /\ Superblocks
  BY <1>1 DEF WhereItIs, Superblocks
<1> QED
  BY <1>1, <1>3, <1>4, InitTyped DEF ReplayInv

LEMMA EmptiedClean ==
  ASSUME image \in Images
  PROVE  /\ is_clean(Emptied) /\ Emptied.seq = image.jsb.seq + Len(image.txns)
         /\ is_clean(image.jsb) => image.jsb.seq = image.jsb.seq + Len(image.txns)
<1> DEFINE sb == image.jsb
           n == Len(image.txns)
<1>1. sb \in JournalSb /\ n \in Nat /\ (is_clean(sb) => n = 0)
  BY ImageTyped
<1>2. Emptied = [sb EXCEPT !.start = 0, !.seq = @ + n]
  BY DEF Emptied, Txns
<1> HIDE DEF sb, n
<1>3. Emptied.start = 0 /\ Emptied.seq = sb.seq + n /\ sb.seq \in Nat
  BY <1>1, <1>2 DEF JournalSb
<1> QED
  BY <1>1, <1>3 DEF is_clean, sb, n

LEMMA OpenHolds ==
  ASSUME ReplayInv, OpenReadWrite
  PROVE  ReplayInv'
<1>1. /\ phase' = IF is_clean(jsb) THEN "recovered" ELSE "scan"
      /\ UNCHANGED <<fs, jsb, log, stable, image>> /\ applied' = 0 /\ journal' = jsb
      /\ revoke_set' = {} /\ sequence' = jsb.seq
      /\ jblock' = IF is_clean(jsb) THEN First ELSE jsb.start
  BY DEF OpenReadWrite, device
<1>2. TypeOK'
  BY OpenTyped DEF ReplayInv
<1>3. Superblocks'
  BY <1>1 DEF ReplayInv, Superblocks, is_clean, Emptied, Txns
<1>4. StoreProgress'
  BY <1>1, StoreKept
<1>5. WhereItIs'
  <2> SUFFICES ASSUME ~is_clean(jsb)
               PROVE  (\E i \in 0 .. Txns : AtTransaction(i))'
    BY <1>1 DEF WhereItIs
  <2>1. image \in Images /\ jsb = image.jsb
    BY EmptiedClean DEF ReplayInv, Superblocks
  <2>2. image.at[0] = jsb.start /\ image.done[0] = 0 /\ jsb.seq \in Nat /\ Len(image.txns) \in Nat
    BY <2>1, ImageTyped
  <2>3. jsb.seq = jsb.seq + 0 /\ 0 \in 0 .. Len(image.txns)
    BY <2>2
  <2>4. AtTransaction(0)'
    BY <1>1, <2>1, <2>2, <2>3 DEF AtTransaction, Txns, NothingRevoked
  <2> QED
    BY <1>1, <2>3, <2>4 DEF Txns
<1> QED
  BY <1>1, <1>2, <1>3, <1>4, <1>5 DEF ReplayInv

LEMMA OpenReadOnlyHolds ==
  ASSUME ReplayInv, OpenReadOnly \/ Close
  PROVE  ReplayInv'
<1>1. /\ UNCHANGED <<fs, jsb, log, stable, image, applied>>
      /\ phase' \in {"ro", "ro_force", "down"}
      /\ phase' = "ro" => is_clean(jsb)
  BY DEF OpenReadOnly, Close, device, locals
<1>2. TypeOK'
  BY OpenTyped DEF ReplayInv
<1>3. Superblocks'
  BY <1>1 DEF ReplayInv, Superblocks, is_clean, Emptied, Txns
<1>4. StoreProgress'
  BY <1>1, StoreKept
<1>5. WhereItIs'
  BY <1>1 DEF WhereItIs
<1> QED
  BY <1>1, <1>2, <1>3, <1>4, <1>5 DEF ReplayInv

\* At the i-th transaction the loop finds its revoke block, or behind it the
\* descriptor or the commit block.
LEMMA FoundHere ==
  ASSUME ReplayInv, NEW i \in 0 .. Txns, AtTransaction(i), i # Txns
  PROVE  LET r == image.txns[i + 1].revoked
             w == image.txns[i + 1].writes
             d == DescriptorAt(image, i + 1)
         IN  /\ i + 1 \in 1 .. Txns /\ sequence = image.jsb.seq + (i + 1) - 1
             /\ sequence + 1 = image.jsb.seq + (i + 1)
             /\ NothingRevoked
             /\ jblock # d => /\ HasHeader(log[jblock], "revoke", sequence)
                              /\ log[jblock].blks = r /\ advance_jblock(jblock) = d
             /\ jblock = d /\ w = <<>> => /\ HasHeader(log[jblock], "commit", sequence)
                                          /\ advance_jblock(jblock) = image.at[i + 1]
             /\ jblock = d /\ w # <<>> => /\ IsCommitted(jblock, sequence)
                                          /\ parse_descriptor_block(log, jblock) = w
<1> DEFINE m == i + 1
<1>1. image \in Images /\ log = image.log
  BY DEF ReplayInv
<1>2. image.jsb.seq \in Nat /\ Len(image.txns) \in Nat
  BY <1>1, ImageTyped
<1>3. /\ m \in 1 .. Len(image.txns) /\ m - 1 = i /\ i < Txns
      /\ sequence = image.jsb.seq + m - 1 /\ sequence + 1 = image.jsb.seq + m
  BY <1>2 DEF Txns, AtTransaction
<1>4. NothingRevoked /\ jblock \in {image.at[i], DescriptorAt(image, m)}
  BY <1>3 DEF AtTransaction
<1> HIDE DEF m
<1> DEFINE r == image.txns[m].revoked
           w == image.txns[m].writes
           d == DescriptorAt(image, m)
           s == image.jsb.seq + m - 1
           p == image.at[m - 1]
<1>5. /\ r # {} => HasHeader(log[p], "revoke", s) /\ log[p].blks = r
      /\ w = <<>> => HasHeader(log[d], "commit", s) /\ image.at[m] = advance_jblock(d)
      /\ w # <<>> => /\ HasHeader(log[d], "descriptor", s)
                     /\ HasHeader(log[CommitPosition(log, d)], "commit", s)
                     /\ parse_descriptor_block(log, d) = w
  BY <1>1, <1>3, TransactionFound
<1>6. d = IF r = {} THEN p ELSE advance_jblock(p)
  BY DEF DescriptorAt
<1>7. s = sequence /\ p = image.at[i]
  BY <1>3
<1> HIDE DEF r, w, d, s, p
<1>8. /\ jblock # d => /\ HasHeader(log[jblock], "revoke", sequence)
                       /\ log[jblock].blks = r /\ advance_jblock(jblock) = d
      /\ jblock = d /\ w = <<>> => /\ HasHeader(log[jblock], "commit", sequence)
                                   /\ advance_jblock(jblock) = image.at[m]
      /\ jblock = d /\ w # <<>> => /\ IsCommitted(jblock, sequence)
                                   /\ parse_descriptor_block(log, jblock) = w
  <2>1. jblock = p \/ jblock = d
    BY <1>4, <1>7 DEF d
  <2> QED
    BY <1>5, <1>6, <1>7, <2>1 DEF IsCommitted
<1> QED
  BY <1>3, <1>4, <1>8 DEF m, r, w, d, Txns

\* Behind the last transaction nothing is committed.
LEMMA NothingBehindTheLast ==
  ASSUME ReplayInv, AtTransaction(Txns)
  PROVE  ~IsCommitted(jblock, sequence) /\ ~HasHeader(log[jblock], "commit", sequence)
<1>1. image \in Images /\ log = image.log /\ jblock \in JBlock /\ log \in [JBlock -> Entry]
  BY DEF ReplayInv, TypeOK
<1>2. sequence = image.jsb.seq + Len(image.txns)
  BY DEF AtTransaction, Txns
<1>3. \A j \in JBlock : ~HasHeader(log[j], "commit", sequence)
  BY <1>1, <1>2, LogsAssumption DEF WellFormed
<1>4. CommitPosition(log, jblock) \in JBlock
  BY <1>1, TagsTyped
<1> QED
  BY <1>1, <1>3, <1>4 DEF IsCommitted

LEMMA ScanDescriptorHolds == ASSUME ReplayInv, ScanDescriptor PROVE ReplayInv'
<1>1. /\ phase = "scan" /\ phase' = "apply" /\ IsCommitted(jblock, sequence)
      /\ pending' = parse_descriptor_block(log, jblock)
      /\ UNCHANGED <<fs, jsb, log, stable, journal, jblock, sequence, revoke_set, image, applied>>
  BY DEF ScanDescriptor, device
<1>2. TypeOK'
  BY ReplayTyped DEF ReplayInv, Replay
<1>3. Superblocks'
  BY <1>1 DEF ReplayInv, Superblocks, is_clean, Emptied, Txns
<1>4. StoreProgress'
  BY <1>1, StoreKept
<1>5. PICK i \in 0 .. Txns : AtTransaction(i)
  BY <1>1 DEF ReplayInv, WhereItIs
<1>6. i # Txns
  BY <1>1, <1>5, NothingBehindTheLast
<1> DEFINE m == i + 1
           w == image.txns[m].writes
<1>7. HasHeader(log[jblock], "descriptor", sequence)
  BY <1>1 DEF IsCommitted
<1>8. /\ m \in 1 .. Txns /\ sequence = image.jsb.seq + m - 1 /\ NothingRevoked
      /\ jblock = DescriptorAt(image, m) /\ w # <<>> /\ pending' = w
  BY <1>1, <1>5, <1>6, <1>7, FoundHere DEF HasHeader, IsCommitted
<1>9. /\ image.done[m] = applied + Len(w) /\ w \in Seq(Write)
      /\ \A k \in DOMAIN w : w[k] = image.wal[applied + k]
  <2>1. image \in Images /\ Txns = Len(image.txns) /\ Len(image.txns) \in Nat
    BY ImageTyped DEF ReplayInv, Txns
  <2>2. applied = image.done[i] /\ m - 1 = i
    BY <1>5, <2>1 DEF AtTransaction
  <2> HIDE DEF m
  <2>3. /\ image.done[m] = image.done[m - 1] + Len(w) /\ w \in Seq(Write)
        /\ \A k \in DOMAIN w : w[k] = image.wal[image.done[m - 1] + k]
    BY <1>8, <2>1, TransactionWrites
  <2> QED
    BY <2>2, <2>3
<1> HIDE DEF m
<1>10. InTransaction(m)'
  BY <1>1, <1>8, <1>9 DEF InTransaction, NothingRevoked
<1>11. WhereItIs'
  BY <1>1, <1>8, <1>10 DEF WhereItIs, Txns
<1> QED
  BY <1>1, <1>2, <1>3, <1>4, <1>11 DEF ReplayInv

\* Where the transaction being written stands in wal.
LEMMA NextOfWal ==
  ASSUME ReplayInv, phase = "apply", NEW i \in 1 .. Txns, InTransaction(i), pending # <<>>
  PROVE  /\ applied + 1 \in 1 .. Len(image.wal)
         /\ Head(pending) = image.wal[applied + 1]
         /\ Head(pending) \in Write
         /\ ~Skipped(Head(pending))
         /\ Len(Tail(pending)) = Len(pending) - 1 /\ Len(pending) \in Nat
         /\ \A k \in DOMAIN Tail(pending) : Tail(pending)[k] = image.wal[applied + 1 + k]
<1>1. pending \in Seq(Write) /\ applied \in Nat /\ image \in Images
  BY DEF ReplayInv, TypeOK
<1>2. Len(image.wal) \in Nat /\ image.done[i] \in 0 .. Len(image.wal)
  <2>1. /\ Len(image.wal) \in Nat /\ Len(image.txns) \in Nat
        /\ image.done \in [0 .. Len(image.txns) -> 0 .. Len(image.wal)]
    BY <1>1, ImageTyped
  <2>2. i \in 0 .. Len(image.txns)
    BY <2>1 DEF Txns
  <2> QED
    BY <2>1, <2>2
<1>3. /\ applied + Len(pending) = image.done[i] /\ NothingRevoked
      /\ \A k \in DOMAIN pending : pending[k] = image.wal[applied + k]
  BY DEF InTransaction
<1>4. /\ Len(pending) \in Nat \ {0} /\ 1 \in DOMAIN pending /\ Head(pending) = pending[1]
      /\ Len(Tail(pending)) = Len(pending) - 1 /\ Head(pending) \in Write
      /\ \A k \in DOMAIN Tail(pending) : k \in Nat /\ Tail(pending)[k] = pending[k + 1] /\ k + 1 \in DOMAIN pending
  <2> HIDE DEF Write
  <2> QED
    BY <1>1
<1>5. applied + 1 \in 1 .. Len(image.wal)
  BY <1>1, <1>2, <1>3, <1>4
<1>6. Head(pending) = image.wal[applied + 1]
  BY <1>3, <1>4
<1>7. applied + 1 \in DOMAIN image.wal
  <2> DEFINE w == image.wal
  <2>1. w \in Seq(Write) /\ applied + 1 \in 1 .. Len(w)
    BY <1>1, <1>5, ImageTyped
  <2> HIDE DEF w, Write
  <2>2. applied + 1 \in DOMAIN w
    BY <2>1
  <2> QED
    BY <2>2 DEF w
<1>8. ~Skipped(Head(pending))
  BY <1>3, <1>6, <1>7 DEF NothingRevoked, Skipped
<1>9. ASSUME NEW k \in DOMAIN Tail(pending)
      PROVE  Tail(pending)[k] = image.wal[applied + 1 + k]
  <2>1. Tail(pending)[k] = pending[k + 1] /\ k + 1 \in DOMAIN pending /\ k \in Nat
    BY <1>4
  <2>2. pending[k + 1] = image.wal[applied + (k + 1)]
    BY <1>3, <2>1
  <2>3. applied + (k + 1) = applied + 1 + k
    BY <1>1, <2>1
  <2> QED
    BY <2>1, <2>2, <2>3
<1> QED
  BY <1>4, <1>5, <1>6, <1>8, <1>9

LEMMA ApplyWriteHolds == ASSUME ReplayInv, ApplyWrite PROVE ReplayInv'
<1>1. /\ phase = "apply" /\ phase' = "apply" /\ pending # <<>> /\ pending' = Tail(pending)
      /\ UNCHANGED <<jsb, log, stable, journal, jblock, sequence, revoke_set, image>>
  BY DEF ApplyWrite
<1>2. PICK i \in 1 .. Txns : InTransaction(i)
  BY <1>1 DEF ReplayInv, WhereItIs
<1>3. /\ applied + 1 \in 1 .. Len(image.wal)
      /\ Head(pending) = image.wal[applied + 1]
      /\ ~Skipped(Head(pending))
      /\ Len(Tail(pending)) = Len(pending) - 1 /\ Len(pending) \in Nat
      /\ \A k \in DOMAIN Tail(pending) : Tail(pending)[k] = image.wal[applied + 1 + k]
  BY <1>1, <1>2, NextOfWal
<1>4. /\ applied' = applied + 1
      /\ fs' = [fs EXCEPT ![image.wal[applied + 1].blk] = image.wal[applied + 1].val]
  BY <1>3 DEF ApplyWrite
<1>5. TypeOK'
  BY ReplayTyped DEF ReplayInv, Replay
<1>6. jsb = image.jsb /\ ~is_clean(jsb)
  BY <1>1, EmptiedClean DEF ReplayInv, Superblocks
<1>7. Superblocks'
  BY <1>1, <1>6 DEF ReplayInv, Superblocks, is_clean, Emptied, Txns
<1>8. StoreProgress'
  <2>1. Redo!ReplayProgress'
    BY <1>1, <1>3, <1>4, ProgressKept DEF ReplayInv, StoreProgress
  <2> QED
    BY <1>1, <1>6, <2>1 DEF ReplayInv, StoreProgress
<1>9. InTransaction(i)'
  <2>1. applied \in Nat
    BY DEF ReplayInv, TypeOK
  <2>2. applied' + Len(pending') = image.done[i]
    BY <1>1, <1>2, <1>3, <1>4, <2>1 DEF InTransaction
  <2> QED
    BY <1>1, <1>2, <1>3, <1>4, <2>2 DEF InTransaction, NothingRevoked
<1>10. WhereItIs'
  BY <1>1, <1>9 DEF WhereItIs, Txns
<1> QED
  BY <1>1, <1>5, <1>7, <1>8, <1>10 DEF ReplayInv

\* The loop moves on to the next transaction.
LEMMA NextTransaction ==
  ASSUME ReplayInv, NEW i \in 1 .. Txns, sequence' = image.jsb.seq + i,
         applied' = image.done[i], jblock' = image.at[i], NothingRevoked,
         UNCHANGED <<image, revoke_set>>
  PROVE  (\E k \in 0 .. Txns : AtTransaction(k))'
<1>1. Len(image.txns) \in Nat
  BY ImageTyped DEF ReplayInv
<1>2. i \in 0 .. Txns
  BY <1>1 DEF Txns
<1>3. AtTransaction(i)'
  BY DEF AtTransaction, NothingRevoked, Txns
<1> QED
  BY <1>2, <1>3 DEF Txns

LEMMA EndTransactionHolds == ASSUME ReplayInv, EndTransaction PROVE ReplayInv'
<1>1. /\ phase = "apply" /\ phase' = "scan" /\ pending = <<>> /\ sequence' = sequence + 1
      /\ jblock' = advance_jblock(CommitPosition(log, jblock))
      /\ UNCHANGED <<fs, jsb, log, stable, journal, revoke_set, image, applied>>
  BY DEF EndTransaction, device
<1>2. PICK i \in 1 .. Txns : InTransaction(i)
  BY <1>1 DEF ReplayInv, WhereItIs
<1>3. TypeOK'
  BY ReplayTyped DEF ReplayInv, Replay
<1>4. Superblocks'
  BY <1>1 DEF ReplayInv, Superblocks, is_clean, Emptied, Txns
<1>5. StoreProgress'
  BY <1>1, StoreKept
<1>6. /\ sequence = image.jsb.seq + i - 1 /\ jblock = DescriptorAt(image, i)
      /\ image.txns[i].writes # <<>> /\ NothingRevoked /\ applied + 0 = image.done[i]
  <2>1. Len(<<>>) = 0
    OBVIOUS
  <2> QED
    BY <1>1, <1>2, <2>1 DEF InTransaction
<1>7. jblock' = image.at[i]
  BY <1>1, <1>6, TransactionFound DEF ReplayInv, Txns
<1>8. sequence' = image.jsb.seq + i /\ applied' = image.done[i]
  <2>1. image.jsb.seq \in Nat /\ i \in Int /\ applied \in Nat
    BY ImageTyped DEF ReplayInv, TypeOK
  <2> QED
    BY <1>1, <1>6, <2>1
<1>9. WhereItIs'
  BY <1>1, <1>6, <1>7, <1>8, NextTransaction DEF WhereItIs
<1> QED
  BY <1>1, <1>3, <1>4, <1>5, <1>9 DEF ReplayInv

LEMMA ScanCommitHolds == ASSUME ReplayInv, ScanCommit PROVE ReplayInv'
<1>1. /\ phase = "scan" /\ phase' = "scan" /\ HasHeader(log[jblock], "commit", sequence)
      /\ sequence' = sequence + 1 /\ jblock' = advance_jblock(jblock)
      /\ UNCHANGED <<fs, jsb, log, stable, journal, revoke_set, image, applied>>
  BY DEF ScanCommit, device
<1>2. TypeOK'
  BY ReplayTyped DEF ReplayInv, Replay
<1>3. Superblocks'
  BY <1>1 DEF ReplayInv, Superblocks, is_clean, Emptied, Txns
<1>4. StoreProgress'
  BY <1>1, StoreKept
<1>5. PICK i \in 0 .. Txns : AtTransaction(i)
  BY <1>1 DEF ReplayInv, WhereItIs
<1>6. i # Txns
  BY <1>1, <1>5, NothingBehindTheLast
<1> DEFINE m == i + 1
           w == image.txns[m].writes
<1>7. /\ m \in 1 .. Txns /\ sequence + 1 = image.jsb.seq + m /\ NothingRevoked
      /\ w = <<>> /\ advance_jblock(jblock) = image.at[m]
  BY <1>1, <1>5, <1>6, FoundHere DEF HasHeader, IsCommitted
<1>8. image.done[m] = applied
  <2>1. image \in Images /\ Txns = Len(image.txns) /\ Len(image.txns) \in Nat
    BY ImageTyped DEF ReplayInv, Txns
  <2>2. applied = image.done[i] /\ m - 1 = i /\ Len(<<>>) = 0 /\ applied \in Nat
    BY <1>5, <2>1 DEF AtTransaction, ReplayInv, TypeOK
  <2> HIDE DEF m
  <2>3. image.done[m] = image.done[m - 1] + Len(w)
    BY <1>7, <2>1, TransactionWrites
  <2> QED
    BY <1>7, <2>2, <2>3
<1> HIDE DEF m
<1>9. WhereItIs'
  BY <1>1, <1>7, <1>8, NextTransaction DEF WhereItIs
<1> QED
  BY <1>1, <1>2, <1>3, <1>4, <1>9 DEF ReplayInv

LEMMA ScanRevokeHolds == ASSUME ReplayInv, ScanRevoke PROVE ReplayInv'
<1>1. /\ phase = "scan" /\ phase' = "scan" /\ HasHeader(log[jblock], "revoke", sequence)
      /\ revoke_set' = revoke_set \cup log[jblock].blks /\ jblock' = advance_jblock(jblock)
      /\ UNCHANGED <<fs, jsb, log, stable, journal, sequence, image, applied>>
  BY DEF ScanRevoke, device
<1>2. TypeOK'
  BY ReplayTyped DEF ReplayInv, Replay
<1>3. Superblocks'
  BY <1>1 DEF ReplayInv, Superblocks, is_clean, Emptied, Txns
<1>4. StoreProgress'
  BY <1>1, StoreKept
<1>5. PICK i \in 0 .. Txns : AtTransaction(i)
  BY <1>1 DEF ReplayInv, WhereItIs
<1>6. AtTransaction(i)'
  <2>1. sequence' = image.jsb.seq + i /\ applied' = image.done[i]
    BY <1>1, <1>5 DEF AtTransaction
  <2>2. ASSUME i < Txns
        PROVE  NothingRevoked' /\ jblock' = DescriptorAt(image, i + 1)
    <3>1. i # Txns
      BY <2>2, ImageTyped DEF ReplayInv, Txns
    <3>2. /\ i + 1 \in 1 .. Txns /\ NothingRevoked
          /\ log[jblock].blks = image.txns[i + 1].revoked
          /\ advance_jblock(jblock) = DescriptorAt(image, i + 1)
      BY <1>1, <1>5, <3>1, FoundHere DEF HasHeader, IsCommitted
    <3>3. \A k \in DOMAIN image.wal : image.wal[k].blk \notin image.txns[i + 1].revoked
      BY <3>2, TransactionWrites DEF ReplayInv, Txns
    <3> QED
      BY <1>1, <3>2, <3>3 DEF NothingRevoked
  <2> QED
    BY <1>1, <2>1, <2>2 DEF AtTransaction, Txns
<1>7. WhereItIs'
  BY <1>1, <1>6 DEF WhereItIs, Txns
<1> QED
  BY <1>1, <1>2, <1>3, <1>4, <1>7 DEF ReplayInv

LEMMA EndOfLogHolds == ASSUME ReplayInv, EndOfLog PROVE ReplayInv'
<1>1. /\ phase = "scan" /\ phase' = "mark" /\ ~IsCommitted(jblock, sequence)
      /\ ~HasHeader(log[jblock], "commit", sequence)
      /\ ~HasHeader(log[jblock], "revoke", sequence)
      /\ UNCHANGED <<fs, jsb, log, stable, journal, jblock, sequence, revoke_set, image, applied>>
  BY DEF EndOfLog, device, locals
<1>2. TypeOK'
  BY ReplayTyped DEF ReplayInv, Replay
<1>3. Superblocks'
  BY <1>1 DEF ReplayInv, Superblocks, is_clean, Emptied, Txns
<1>4. StoreProgress'
  BY <1>1, StoreKept
<1>5. PICK i \in 0 .. Txns : AtTransaction(i)
  BY <1>1 DEF ReplayInv, WhereItIs
<1>6. i = Txns
  BY <1>1, <1>5, FoundHere
<1>7. sequence = image.jsb.seq + Txns /\ applied = Len(image.wal)
  BY <1>5, <1>6, ImageTyped DEF AtTransaction, ReplayInv, Txns
<1>8. WhereItIs'
  BY <1>1, <1>7 DEF WhereItIs, Txns
<1> QED
  BY <1>1, <1>2, <1>3, <1>4, <1>8 DEF ReplayInv

LEMMA WriteJournalSuperblockHolds == ASSUME ReplayInv, WriteJournalSuperblock PROVE ReplayInv'
<1>1. /\ phase = "mark" /\ phase' = "barrier"
      /\ jsb' = [jsb EXCEPT !.start = 0, !.seq = sequence]
      /\ UNCHANGED <<fs, log, stable, journal, image, applied>>
  BY DEF WriteJournalSuperblock, locals
<1>2. TypeOK'
  BY ReplayTyped DEF ReplayInv, Replay
<1>3. /\ image \in Images /\ sequence = image.jsb.seq + Txns /\ applied = Len(image.wal)
      /\ ~is_clean(jsb) /\ jsb = image.jsb
  BY <1>1, EmptiedClean DEF ReplayInv, WhereItIs, Superblocks
<1>4. jsb' = Emptied
  <2> DEFINE sb == image.jsb
             n == Txns
  <2>1. sb \in JournalSb
    BY <1>3, ImageTyped
  <2>2. jsb' = [sb EXCEPT !.start = 0, !.seq = sb.seq + n]
    BY <1>1, <1>3
  <2>3. Emptied = [sb EXCEPT !.start = 0, !.seq = @ + n]
    BY DEF Emptied
  <2> HIDE DEF sb, n
  <2> QED
    BY <2>1, <2>2, <2>3 DEF JournalSb
<1>5. Superblocks'
  <2>1. is_clean(jsb')
    BY <1>3, <1>4, EmptiedClean
  <2>2. Emptied' = Emptied
    BY <1>1 DEF Emptied, Txns
  <2> QED
    BY <1>1, <1>3, <1>4, <2>1, <2>2 DEF ReplayInv, Superblocks, is_clean
<1>6. StoreProgress'
  <2>1. Redo!IsReplayed(image.fs, image.wal, fs)
    BY <1>3, ProgressAtEnd DEF ReplayInv, StoreProgress
  <2>2. Redo!ReplayProgress'
    BY <1>1 DEF ReplayInv, StoreProgress, Redo!ReplayProgress
  <2>3. (\A b \in FsBlock : ~Redo!Written(image.wal, Len(image.wal), b) => stable.fs[b] = image.fs[b])'
    BY <1>1 DEF ReplayInv, StoreProgress
  <2>4. Redo!IsReplayed(image.fs, image.wal, fs)'
    BY <1>1, <2>1
  <2> QED
    BY <2>2, <2>3, <2>4 DEF StoreProgress
<1>7. WhereItIs'
  BY <1>1 DEF WhereItIs
<1> QED
  BY <1>1, <1>2, <1>5, <1>6, <1>7 DEF ReplayInv

LEMMA FlushHolds == ASSUME ReplayInv, Flush PROVE ReplayInv'
<1>1. /\ phase = "barrier" /\ phase' = "recovered" /\ stable' = [fs |-> fs, jsb |-> jsb]
      /\ UNCHANGED <<fs, jsb, log, journal, image, applied>>
  BY DEF Flush, device, locals
<1>2. TypeOK'
  BY ReplayTyped DEF ReplayInv, Replay
<1>3. is_clean(jsb) /\ stable'.fs = fs /\ stable'.jsb = jsb
  BY <1>1 DEF ReplayInv, Superblocks
<1>4. Superblocks'
  <2>1. Emptied' = Emptied
    BY <1>1 DEF Emptied, Txns
  <2> QED
    BY <1>1, <1>3, <2>1 DEF ReplayInv, Superblocks, is_clean
<1>5. StoreProgress'
  <2>1. Redo!ReplayProgress'
    BY <1>1 DEF ReplayInv, StoreProgress, Redo!ReplayProgress
  <2>2. \A b \in FsBlock : ~Redo!Written(image.wal, Len(image.wal), b) => fs[b] = image.fs[b]
    BY DEF ReplayInv, StoreProgress, Redo!ReplayProgress
  <2> QED
    BY <1>1, <1>3, <2>1, <2>2 DEF ReplayInv, StoreProgress
<1>6. WhereItIs'
  BY <1>1 DEF WhereItIs
<1> QED
  BY <1>1, <1>2, <1>4, <1>5, <1>6 DEF ReplayInv

LEMMA ProcessCrashHolds == ASSUME ReplayInv, ProcessCrash PROVE ReplayInv'
<1>1. /\ phase' = "down" /\ applied' = 0
      /\ UNCHANGED <<fs, jsb, log, stable, journal, image>>
  BY DEF ProcessCrash, Restart
<1>2. TypeOK'
  BY FailTyped DEF ReplayInv, Fail
<1>3. Superblocks'
  BY <1>1 DEF ReplayInv, Superblocks, is_clean, Emptied, Txns
<1>4. StoreProgress'
  BY <1>1, StoreKept
<1>5. WhereItIs'
  BY <1>1 DEF WhereItIs
<1> QED
  BY <1>1, <1>2, <1>3, <1>4, <1>5 DEF ReplayInv

\* The block being written is one that the log writes.
LEMMA TornWriteHolds == ASSUME ReplayInv, TornWrite PROVE ReplayInv'
<1>1. /\ phase = "apply" /\ phase' = "down" /\ applied' = 0 /\ pending # <<>>
      /\ fs' = [fs EXCEPT ![Head(pending).blk] = Junk]
      /\ UNCHANGED <<jsb, log, stable, journal, image>>
  BY DEF TornWrite, Restart
<1>2. TypeOK'
  BY FailTyped DEF ReplayInv, Fail
<1>3. jsb = image.jsb /\ ~is_clean(jsb)
  BY <1>1, EmptiedClean DEF ReplayInv, Superblocks
<1>4. Superblocks'
  BY <1>1, <1>3 DEF ReplayInv, Superblocks, is_clean, Emptied, Txns
<1>5. PICK i \in 1 .. Txns : InTransaction(i)
  BY <1>1 DEF ReplayInv, WhereItIs
<1>6. applied + 1 \in 1 .. Len(image.wal) /\ Head(pending) = image.wal[applied + 1]
  BY <1>1, <1>5, NextOfWal
<1>7. Redo!Written(image.wal, Len(image.wal), Head(pending).blk)
  BY <1>6 DEF Redo!Written
<1>8. \A b \in FsBlock : ~Redo!Written(image.wal, Len(image.wal), b) => fs'[b] = fs[b]
  <2>1. fs \in [FsBlock -> Value]
    BY DEF ReplayInv, TypeOK
  <2> QED
    BY <1>1, <1>7, <2>1
<1>9. StoreProgress'
  <2>1. Redo!ReplayProgress'
    BY <1>1, <1>8, ProgressRestarts DEF ReplayInv, StoreProgress
  <2> QED
    BY <1>1, <1>3, <2>1 DEF ReplayInv, StoreProgress
<1>10. WhereItIs'
  BY <1>1 DEF WhereItIs
<1> QED
  BY <1>1, <1>2, <1>4, <1>9, <1>10 DEF ReplayInv

\* Blocks that the log does not write are the same in both stores, and once the
\* marking of the superblock is stable so is the store.
LEMMA PowerLossKeeps ==
  ASSUME ReplayInv, PowerLoss
  PROVE  /\ \A b \in FsBlock : ~Redo!Written(image.wal, Len(image.wal), b) => fs'[b] = fs[b]
         /\ is_clean(stable.jsb) => fs' = fs
<1> DEFINE unsafe == { b \in FsBlock : fs[b] # stable.fs[b] }
           left(b, fate) == CASE fate = "all" -> fs[b] [] fate = "none" -> stable.fs[b] [] OTHER -> Junk
<1>1. PICK fates \in [unsafe -> {"all", "none", "part"}] :
        fs' = [b \in FsBlock |-> IF b \in unsafe THEN left(b, fates[b]) ELSE fs[b]]
  BY DEF PowerLoss, Survivors
<1>2. \A b \in FsBlock : fs[b] = stable.fs[b] => fs'[b] = fs[b]
  BY <1>1
<1>3. fs \in [FsBlock -> Value]
  BY DEF ReplayInv, TypeOK
<1>4. ASSUME is_clean(stable.jsb)
      PROVE  fs' = fs
  <2>1. fs = stable.fs
    BY <1>4 DEF ReplayInv, Superblocks
  <2>2. \A b \in FsBlock : fs'[b] = fs[b]
    BY <1>2, <2>1
  <2>3. fs' = [b \in FsBlock |-> fs'[b]]
    BY <1>1
  <2>4. fs = [b \in FsBlock |-> fs[b]]
    BY <1>3
  <2> QED
    BY <2>2, <2>3, <2>4
<1>5. \A b \in FsBlock : ~Redo!Written(image.wal, Len(image.wal), b) => fs[b] = stable.fs[b]
  BY DEF ReplayInv, StoreProgress, Redo!ReplayProgress
<1> QED
  BY <1>2, <1>4, <1>5

LEMMA PowerLossHolds == ASSUME ReplayInv, PowerLoss PROVE ReplayInv'
<1>1. /\ image.cached /\ phase' = "down" /\ applied' = 0 /\ jsb' \in {jsb, stable.jsb}
      /\ stable' = [fs |-> fs', jsb |-> jsb']
      /\ UNCHANGED <<log, journal, image>>
  BY DEF PowerLoss, Restart
<1>2. TypeOK'
  BY FailTyped DEF ReplayInv, Fail
<1>3. Superblocks'
  <2>1. stable'.fs = fs' /\ stable'.jsb = jsb' /\ Emptied' = Emptied /\ image' = image
    BY <1>1 DEF Emptied, Txns
  <2>2. jsb' \in {image.jsb, Emptied}
    BY <1>1 DEF ReplayInv, Superblocks
  <2> QED
    BY <1>1, <2>1, <2>2 DEF Superblocks
<1>4. \A b \in FsBlock : ~Redo!Written(image.wal, Len(image.wal), b) => fs'[b] = fs[b]
  BY PowerLossKeeps
<1>5. StoreProgress'
  <2>1. Redo!ReplayProgress'
    BY <1>1, <1>4, ProgressRestarts DEF ReplayInv, StoreProgress
  <2>2. \A b \in FsBlock : ~Redo!Written(image.wal, Len(image.wal), b) => fs'[b] = image.fs[b]
    BY <1>4 DEF ReplayInv, StoreProgress, Redo!ReplayProgress
  <2> QED
    BY <1>1, <2>1, <2>2 DEF StoreProgress
<1>6. WhereItIs'
  BY <1>1 DEF WhereItIs
<1> QED
  BY <1>1, <1>2, <1>3, <1>5, <1>6 DEF ReplayInv

LEMMA ReplayStep == ReplayInv /\ [Next]_vars => ReplayInv'
<1> SUFFICES ASSUME ReplayInv, [Next]_vars
             PROVE  ReplayInv'
  OBVIOUS
<1>1. CASE Replay
  BY <1>1, ScanDescriptorHolds, ApplyWriteHolds, EndTransactionHolds, ScanCommitHolds,
     ScanRevokeHolds, EndOfLogHolds, WriteJournalSuperblockHolds, FlushHolds DEF Replay
<1>2. CASE Fail
  BY <1>2, ProcessCrashHolds, TornWriteHolds, PowerLossHolds DEF Fail
<1>3. CASE UNCHANGED vars
  <2>1. TypeOK'
    BY <1>3 DEF vars, ReplayInv, TypeOK
  <2>2. WhereItIs'
    BY <1>3 DEF vars, ReplayInv, WhereItIs, AtTransaction, InTransaction, NothingRevoked, Txns
  <2>3. Superblocks'
    BY <1>3 DEF vars, ReplayInv, Superblocks, Emptied, Txns, is_clean
  <2>4. StoreProgress'
    BY <1>3, StoreKept DEF vars
  <2> QED
    BY <1>3, <2>1, <2>2, <2>3, <2>4 DEF vars, ReplayInv
<1> QED
  BY <1>1, <1>2, <1>3, OpenHolds, OpenReadOnlyHolds DEF Next

\* Where the loop stands in the log, which superblock the device has and how
\* far the store got are in step, on any device and after any crashes.
THEOREM ReplayInvariant == Spec => []ReplayInv
BY InitHolds, ReplayStep, PTL DEF Spec

-----------------------------------------------------------------------------
(* What recovery promises. *)

\* A clean journal means that every committed transaction is in the store.
THEOREM CleanMeansReplayedTheorem == Spec => []CleanMeansReplayed
<1>1. ReplayInv => CleanMeansReplayed
  BY DEF ReplayInv, StoreProgress, CleanMeansReplayed, Redo!CleanMeansReplayed
<1> QED
  BY <1>1, ReplayInvariant, PTL

\* A plain read-only mount never shows a store that lacks some of them.
THEOREM ReadOnlySeesReplayedTheorem == Spec => []ReadOnlySeesReplayed
<1>1. ReplayInv => ReadOnlySeesReplayed
  BY DEF ReplayInv, StoreProgress, Superblocks, ReadOnlySeesReplayed
<1> QED
  BY <1>1, ReplayInvariant, PTL

\* No commit block of the log can complete the next transaction.
THEOREM NextSequenceFreshTheorem == Spec => []NextSequenceFresh
<1>1. ReplayInv => NextSequenceFresh
  <2> SUFFICES ASSUME ReplayInv, is_clean(jsb)
               PROVE  \A j \in JBlock : ~HasHeader(log[j], "commit", jsb.seq)
    BY DEF NextSequenceFresh
  <2>1. image \in Images /\ log = image.log /\ jsb.seq = image.jsb.seq + Len(image.txns)
    BY EmptiedClean DEF ReplayInv, Superblocks
  <2> QED
    BY <2>1, LogsAssumption DEF WellFormed
<1> QED
  BY <1>1, ReplayInvariant, PTL

\* On a device that buffers writes, only a power loss before the barrier behind
\* the superblock can take writes from under a clean journal.
THEOREM LossOnlyBeforeBarrierTheorem == Spec => LossOnlyBeforeBarrier
<1> DEFINE Lost == /\ Redo!CleanMeansReplayed /\ ~Redo!CleanMeansReplayed'
                   /\ ~(~is_clean(stable.jsb) /\ ~(phase = "recovered" /\ ~is_clean(journal)))
<1>1. ReplayInv /\ [Next]_vars => ~Lost
  <2> SUFFICES ASSUME ReplayInv, [Next]_vars, Lost
               PROVE  FALSE
    OBVIOUS
  <2>1. is_clean(stable.jsb) /\ is_clean(jsb)
    BY DEF ReplayInv, Superblocks
  <2>2. Redo!IsReplayed(image.fs, image.wal, fs)
    BY <2>1 DEF Redo!CleanMeansReplayed
  <2>3. fs' = fs /\ image' = image
    <3>1. CASE PowerLoss
      BY <2>1, <3>1, PowerLossKeeps DEF PowerLoss, Restart
    <3>2. CASE phase \in {"scan", "apply", "mark"}
      BY <2>1, <3>2 DEF ReplayInv, Superblocks
    <3>3. CASE phase \notin {"scan", "apply", "mark"} /\ ~PowerLoss
      BY <3>3 DEF Next, Replay, Fail, OpenReadWrite, OpenReadOnly, Close, ScanDescriptor, ApplyWrite,
         EndTransaction, ScanCommit, ScanRevoke, EndOfLog, WriteJournalSuperblock, Flush,
         ProcessCrash, TornWrite, Restart, vars, device, locals
    <3> QED
      BY <3>1, <3>2, <3>3
  <2>4. Redo!IsReplayed(image.fs, image.wal, fs)'
    BY <2>2, <2>3
  <2> QED
    BY <2>4 DEF Redo!CleanMeansReplayed
<1>2. ReplayInv /\ [Next]_vars =>
        [(Redo!CleanMeansReplayed /\ ~Redo!CleanMeansReplayed') =>
           ~is_clean(stable.jsb) /\ ~(phase = "recovered" /\ ~is_clean(journal))]_vars
  BY <1>1
<1> QED
  BY <1>2, ReplayInvariant, PTL DEF Spec, LossOnlyBeforeBarrier

-----------------------------------------------------------------------------
(* Replay implements the redo log. *)

LEMMA RedoInit == Init => Redo!Init
<1> SUFFICES ASSUME Init
             PROVE  Redo!Init
  OBVIOUS
<1>1. image \in Images /\ fs = image.fs /\ jsb = image.jsb /\ applied = 0
  BY DEF Init
<1>2. is_clean(jsb) => image.wal = <<>>
  BY <1>1, ImageTyped
<1>3. is_clean(jsb) \in BOOLEAN
  BY DEF is_clean
<1> QED
  BY <1>1, <1>2, <1>3 DEF Redo!Init

LEMMA RedoSteps ==
  ASSUME ReplayInv, [Next]_vars
  PROVE  image.cached \/ [Redo!Next]_(Redo!vars)
<1>1. ASSUME UNCHANGED <<fs, jsb, image, applied>>
      PROVE  UNCHANGED Redo!vars
  BY <1>1 DEF Redo!vars, is_clean
<1>2. ASSUME UNCHANGED <<fs, jsb, image>>, applied' = 0
      PROVE  Redo!Crash
  BY <1>2 DEF Redo!Crash, is_clean
<1>3. CASE OpenReadWrite \/ ProcessCrash
  BY <1>2, <1>3 DEF OpenReadWrite, ProcessCrash, Restart, device, Redo!Next
<1>4. CASE OpenReadOnly \/ Close
  BY <1>1, <1>4 DEF OpenReadOnly, Close, device
<1>5. CASE ScanDescriptor \/ EndTransaction \/ ScanCommit \/ ScanRevoke \/ EndOfLog \/ Flush
  BY <1>1, <1>5 DEF ScanDescriptor, EndTransaction, ScanCommit, ScanRevoke, EndOfLog, Flush, device
<1>6. ASSUME phase = "apply", pending # <<>>
      PROVE  /\ ~is_clean(jsb) /\ applied + 1 \in 1 .. Len(image.wal) /\ applied < Len(image.wal)
             /\ Head(pending) = image.wal[applied + 1] /\ ~Skipped(Head(pending))
  <2>1. PICK i \in 1 .. Txns : InTransaction(i)
    BY <1>6 DEF ReplayInv, WhereItIs
  <2>2. /\ applied + 1 \in 1 .. Len(image.wal)
        /\ Head(pending) = image.wal[applied + 1] /\ ~Skipped(Head(pending))
    BY <1>6, <2>1, NextOfWal
  <2>3. applied \in Nat /\ Len(image.wal) \in Nat
    BY ImageTyped DEF ReplayInv, TypeOK
  <2> QED
    BY <1>6, <2>2, <2>3 DEF ReplayInv, Superblocks
<1>7. CASE ApplyWrite
  <2>1. /\ ~is_clean(jsb) /\ applied < Len(image.wal)
        /\ fs' = [fs EXCEPT ![image.wal[applied + 1].blk] = image.wal[applied + 1].val]
        /\ applied' = applied + 1 /\ UNCHANGED <<jsb, image>>
    BY <1>6, <1>7 DEF ApplyWrite
  <2>2. Redo!Apply
    BY <2>1 DEF Redo!Apply, is_clean
  <2> QED
    BY <2>2 DEF Redo!Next
<1>8. CASE TornWrite
  <2>1. /\ ~is_clean(jsb) /\ applied < Len(image.wal)
        /\ fs' = [fs EXCEPT ![image.wal[applied + 1].blk] = Junk]
        /\ applied' = 0 /\ UNCHANGED <<jsb, image>>
    BY <1>6, <1>8 DEF TornWrite, Restart
  <2>2. Redo!TornCrash
    BY <2>1, ValueAssumption DEF Redo!TornCrash, is_clean
  <2> QED
    BY <2>2 DEF Redo!Next
<1>9. CASE WriteJournalSuperblock
  <2>1. ~is_clean(jsb) /\ applied = Len(image.wal)
    BY <1>9 DEF ReplayInv, WhereItIs, Superblocks, WriteJournalSuperblock
  <2>2. is_clean(jsb')
    <3>1. jsb' = [jsb EXCEPT !.start = 0, !.seq = sequence] /\ jsb \in JournalSb
      BY <1>9 DEF WriteJournalSuperblock, ReplayInv, TypeOK
    <3> QED
      BY <3>1 DEF is_clean, JournalSb
  <2>3. Redo!Forget
    BY <1>9, <2>1, <2>2 DEF WriteJournalSuperblock, Redo!Forget, is_clean, locals
  <2> QED
    BY <2>3 DEF Redo!Next
<1>10. CASE PowerLoss
  BY <1>10 DEF PowerLoss
<1>11. CASE UNCHANGED vars
  BY <1>1, <1>11 DEF vars
<1> QED
  BY <1>3, <1>4, <1>5, <1>7, <1>8, <1>9, <1>10, <1>11 DEF Next, Replay, Fail

\* Replay of any well-formed log carries out its writes one by one, restarts
\* behind a crash and forgets the log only behind the last.
THEOREM ReplayImplementsRedoLog == Spec => ImplementsRedoLog
<1>1. ReplayInv /\ [Next]_vars => [image.cached \/ Redo!Next]_(Redo!vars)
  BY RedoSteps
<1> QED
  BY <1>1, RedoInit, ReplayInvariant, PTL DEF Spec, ImplementsRedoLog

-----------------------------------------------------------------------------
(* The invariant of the write side. *)

\* What commit() may still have to write, and what has been put in txn.
DeviceWrite == [area : {"log"}, entry : Entry] \cup [area : {"store"}, write : Write]
InFlight    == [revoked : SUBSET FsBlock, writes : Seq(Write), seq : Nat, at : JBlock, busy : BOOLEAN]

CommitTyped ==
  /\ fs \in [FsBlock -> Value] /\ jsb \in JournalSb /\ log \in [JBlock -> Entry]
  /\ stable \in [fs : [FsBlock -> Value], jsb : JournalSb]
  /\ phase \in Phase \cup {"dirtied", "rw", "closing"}
  /\ journal \in JournalSb /\ jblock \in JBlock /\ sequence \in Nat
  /\ revoke_set \subseteq FsBlock /\ pending \in Seq(Write)
  /\ crashes \in 0 .. MaxCrashes /\ applied \in Nat
  /\ write_head \in JBlock /\ next_sequence \in Nat
  /\ txn \in InFlight /\ todo \in Seq(DeviceWrite)
  /\ synced.log \in [JBlock -> Entry] /\ torn \in BOOLEAN
  /\ image.wal \in Seq(Write) /\ {"fs", "log", "wal"} \subseteq DOMAIN image

\* How many of its device writes commit() has issued.
Issued == Len(CommitSteps(txn)) - Len(todo)

\* Only a mounted writer commits, and todo is what is left of its writes.
StepsInOrder ==
  /\ txn.busy => phase = "rw"
  /\ ~txn.busy => todo = <<>>
  /\ txn.busy => /\ Issued \in Nat
                 /\ \A q \in 1 .. Len(todo) : todo[q] = CommitSteps(txn)[Issued + q]
  /\ \A i, k \in DOMAIN txn.writes : txn.writes[i].blk = txn.writes[k].blk => i = k

\* VALID_FS while Ext4FsRw is mounted.
FlagCleared ==
  /\ phase = "dirtied" => ~valid /\ marks
  /\ phase = "rw" /\ marks => ~valid /\ ~synced.valid

CleanWhenMounted ==
  /\ is_clean(stable.jsb) => is_clean(jsb)
  /\ phase \in {"scan", "apply", "mark"} => ~is_clean(jsb)
  /\ phase \in {"barrier", "recovered", "ro", "dirtied", "rw", "closing"} => is_clean(jsb)

\* Store f is what p promises, but for the last n of the writes w.
Owes(f, p, w, n) ==
  /\ \A i \in DOMAIN w : i > Len(w) - n => p[w[i].blk] = w[i].val
  /\ \A x \in FsBlock : (\A i \in DOMAIN w : i > Len(w) - n => w[i].blk # x) => f[x] = p[x]

\* The writes of txn that its commit block has promised and that are not yet in
\* place.
Owed == IF HalfInPlace THEN Len(todo) ELSE 0

\* Short of a tear the store is what the commit blocks promise but for the
\* owed writes, or else a replay will make it so.
PromiseKept ==
  /\ promised = [x \in FsBlock |-> promised[x]]
  /\ ~is_clean(jsb) /\ ~torn => promised = Overlay(image.fs, image.wal)
  /\ is_clean(jsb) /\ ~torn => Owes(fs, promised, txn.writes, Owed)

CommitInv == CommitTyped /\ StepsInOrder /\ FlagCleared /\ CleanWhenMounted /\ PromiseKept

-----------------------------------------------------------------------------
(* The device writes of one commit. *)

\* Only its last block is a commit block.
LEMMA BlocksOfCommit ==
  ASSUME NEW r \in SUBSET FsBlock, NEW w \in Seq(Write), NEW s \in Nat
  PROVE  /\ TransactionBlocks(r, w, s, FALSE) \in Seq(Entry)
         /\ Len(TransactionBlocks(r, w, s, FALSE)) = BlockCount(r, w)
         /\ BlockCount(r, w) \in Nat \ {0}
         /\ \A q \in 1 .. BlockCount(r, w) :
              /\ TransactionBlocks(r, w, s, FALSE)[q] \in Entry
              /\ TransactionBlocks(r, w, s, FALSE)[q].kind = "commit" <=> q = BlockCount(r, w)
<1> DEFINE bs == TransactionBlocks(r, w, s, FALSE)
           c == BlockCount(r, w)
           o == DescriptorOffset(r)
<1>1. bs \in Seq(Entry) /\ Len(bs) = c /\ bs[c] = CommitBlock(s)
  BY TransactionLayout
<1>2. /\ r # {} => bs[1] = Revoke(s, r)
      /\ w # <<>> => /\ bs[o + 1] = Descriptor(s, TagsOf(w, FALSE))
                     /\ \A i \in 1 .. Len(w) : bs[o + 1 + i] = Data(Escape(w[i].val))
  BY TransactionLayout
<1>3. Len(w) \in Nat
  <2> HIDE DEF Write
  <2> QED
    OBVIOUS
<1>4. o \in {0, 1} /\ (r = {} => o = 0) /\ (r # {} => o = 1) /\ c \in Nat \ {0}
      /\ c = IF w = <<>> THEN o + 1 ELSE o + Len(w) + 2
  BY <1>3 DEF DescriptorOffset, BlockCount
<1> HIDE DEF bs, c, o
<1>5. ASSUME NEW q \in 1 .. c
      PROVE  bs[q] \in Entry
  <2> HIDE DEF Entry
  <2> QED
    BY <1>1, <1>4
<1>6. bs[c].kind = "commit"
  BY <1>1 DEF CommitBlock, Blank
<1>7. ASSUME NEW q \in 1 .. c, q # c
      PROVE  bs[q].kind # "commit"
  <2>1. CASE r # {} /\ q = 1
    BY <1>2, <2>1 DEF Revoke, Blank
  <2>2. CASE w # <<>> /\ q = o + 1
    BY <1>2, <2>2 DEF Descriptor, Blank
  <2>3. CASE w # <<>> /\ q \in (o + 2) .. (o + Len(w) + 1)
    <3> DEFINE i == q - o - 1
    <3>1. i \in 1 .. Len(w) /\ o + 1 + i = q
      BY <1>3, <1>4, <2>3
    <3> HIDE DEF i
    <3>2. bs[q] = Data(Escape(w[i].val))
      BY <1>2, <2>3, <3>1
    <3> QED
      BY <3>2 DEF Data, Blank
  <2>4. (r # {} /\ q = 1) \/ (w # <<>> /\ q = o + 1) \/ (w # <<>> /\ q \in (o + 2) .. (o + Len(w) + 1))
    BY <1>3, <1>4, <1>7
  <2> QED
    BY <2>1, <2>2, <2>3, <2>4
<1> QED
  BY <1>1, <1>4, <1>5, <1>6, <1>7 DEF bs, c

LEMMA StepsOfCommit ==
  ASSUME NEW t, t.revoked \in SUBSET FsBlock, t.writes \in Seq(Write), t.seq \in Nat, Fits(t)
  PROVE  /\ CommitSteps(t) \in Seq(DeviceWrite)
         /\ LogLength(t) = BlockCount(t.revoked, t.writes) /\ LogLength(t) \in Nat \ {0}
         /\ Len(t.writes) \in Nat /\ DOMAIN t.writes = 1 .. Len(t.writes)
         /\ Len(CommitSteps(t)) = LogLength(t) + Len(t.writes)
         /\ \A q \in 1 .. LogLength(t) :
              CommitSteps(t)[q] = InLog(TransactionBlocks(t.revoked, t.writes, t.seq, FALSE)[q])
         /\ \A q \in 1 .. Len(t.writes) : CommitSteps(t)[LogLength(t) + q] = InStore(t.writes[q])
<1> DEFINE w == t.writes
           bs == TransactionBlocks(t.revoked, w, t.seq, FALSE)
           n == LogLength(t)
           A == [q \in DOMAIN bs |-> InLog(bs[q])]
           B == [q \in DOMAIN w |-> InStore(w[q])]
<1>1. CommitSteps(t) = A \o B
  BY DEF CommitSteps
<1>2. w \in Seq(Write) /\ Len(w) \in Nat /\ DOMAIN w = 1 .. Len(w) /\ \A q \in 1 .. Len(w) : w[q] \in Write
  <2> HIDE DEF w, Write
  <2>1. w \in Seq(Write)
    BY DEF w
  <2> QED
    BY <2>1
<1>3. bs \in Seq(Entry) /\ Len(bs) = n /\ n = BlockCount(t.revoked, w) /\ n \in Nat \ {0}
      /\ \A q \in 1 .. n : bs[q] \in Entry
  BY <1>2, BlocksOfCommit DEF LogLength
<1>4. DOMAIN bs = 1 .. n
  <2> HIDE DEF bs, n, Entry
  <2> QED
    BY <1>3
<1> HIDE DEF bs, w, n
<1>5. A \in Seq(DeviceWrite) /\ Len(A) = n /\ \A q \in 1 .. n : A[q] = InLog(bs[q])
  <2>1. \A q \in 1 .. n : InLog(bs[q]) \in DeviceWrite
    BY <1>3 DEF InLog, DeviceWrite
  <2>2. A \in [1 .. n -> DeviceWrite] /\ \A q \in 1 .. n : A[q] = InLog(bs[q])
    BY <1>4, <2>1
  <2> HIDE DEF A, DeviceWrite
  <2> QED
    BY <1>3, <2>2
<1>6. B \in Seq(DeviceWrite) /\ Len(B) = Len(w) /\ \A q \in 1 .. Len(w) : B[q] = InStore(w[q])
  <2>1. \A q \in 1 .. Len(w) : InStore(w[q]) \in DeviceWrite
    BY <1>2 DEF InStore, DeviceWrite
  <2>2. B \in [1 .. Len(w) -> DeviceWrite] /\ \A q \in 1 .. Len(w) : B[q] = InStore(w[q])
    BY <1>2, <2>1
  <2> HIDE DEF B, DeviceWrite
  <2> QED
    BY <1>2, <2>2
<1> HIDE DEF A, B
<1>7. /\ A \o B \in Seq(DeviceWrite) /\ Len(A \o B) = Len(A) + Len(B)
      /\ \A q \in 1 .. Len(A) + Len(B) : (A \o B)[q] = IF q <= Len(A) THEN A[q] ELSE B[q - Len(A)]
  BY <1>5, <1>6, ConcatProperties
<1>8. \A q \in 1 .. n : (A \o B)[q] = InLog(bs[q])
  BY <1>2, <1>3, <1>5, <1>6, <1>7
<1>9. \A q \in 1 .. Len(w) : (A \o B)[n + q] = InStore(w[q])
  <2> SUFFICES ASSUME NEW q \in 1 .. Len(w)
               PROVE  (A \o B)[n + q] = InStore(w[q])
    OBVIOUS
  <2>1. n + q \in 1 .. (n + Len(w)) /\ ~(n + q <= n) /\ n + q - n = q
    BY <1>2, <1>3
  <2> QED
    BY <1>5, <1>6, <1>7, <2>1
<1> QED
  BY <1>1, <1>2, <1>3, <1>5, <1>6, <1>7, <1>8, <1>9 DEF bs, w, n

\* A commit that its descriptor cannot hold writes a revoke block at most.
LEMMA StepsOfRefused ==
  ASSUME NEW t, t.revoked \in SUBSET FsBlock, t.seq \in Nat, ~Fits(t)
  PROVE  /\ CommitSteps(t) \in Seq(DeviceWrite) /\ Len(CommitSteps(t)) \in {0, 1}
         /\ \A q \in 1 .. Len(CommitSteps(t)) : CommitSteps(t)[q] = InLog(Revoke(t.seq, t.revoked))
         /\ Revoke(t.seq, t.revoked) \in Entry /\ Revoke(t.seq, t.revoked).kind = "revoke"
<1>1. Revoke(t.seq, t.revoked) \in Entry /\ Revoke(t.seq, t.revoked).kind = "revoke"
  <2> DEFINE s == t.seq
             r == t.revoked
  <2>1. s \in Nat /\ r \in SUBSET FsBlock
    OBVIOUS
  <2> HIDE DEF s, r
  <2>2. Blank \in Entry
    BY ValueAssumption DEF Blank, Entry, Kind
  <2>3. Revoke(s, r) \in Entry /\ Revoke(s, r).kind = "revoke"
    BY <2>1, <2>2 DEF Revoke, Entry, Kind
  <2> QED
    BY <2>3 DEF s, r
<1> DEFINE x == InLog(Revoke(t.seq, t.revoked))
<1>2. x \in DeviceWrite
  BY <1>1 DEF InLog, DeviceWrite
<1>3. CommitSteps(t) = IF t.revoked = {} THEN <<>> ELSE <<x>>
  BY DEF CommitSteps
<1> HIDE DEF x, DeviceWrite
<1>4. <<x>> \in Seq(DeviceWrite) /\ Len(<<x>>) = 1 /\ \A q \in 1 .. 1 : <<x>>[q] = x
  BY <1>2
<1>5. <<>> \in Seq(DeviceWrite) /\ Len(<<>>) = 0 /\ \A q \in 1 .. 0 : FALSE
  OBVIOUS
<1> QED
  BY <1>1, <1>3, <1>4, <1>5 DEF x

-----------------------------------------------------------------------------
(* Stores with writes carried out. *)

LEMMA LastWriteUnique ==
  ASSUME NEW w, NEW n \in Nat, NEW x, NEW i, NEW k, Redo!IsLastWrite(w, n, x, i), Redo!IsLastWrite(w, n, x, k)
  PROVE  i = k
BY DEF Redo!IsLastWrite

\* A store with the writes carried out is the overlay.
LEMMA ReplayedIsOverlay ==
  ASSUME NEW f, NEW w, Len(w) \in Nat, DOMAIN w = 1 .. Len(w), NEW s, Redo!IsReplayed(f, w, s), NEW x \in FsBlock
  PROVE  s[x] = Overlay(f, w)[x]
<1> DEFINE n == Len(w)
<1>1. CASE ~Redo!Written(w, n, x)
  <2>1. ~\E i \in 1 .. n : Redo!IsLastWrite(w, n, x, i)
    BY <1>1 DEF Redo!Written, Redo!IsLastWrite
  <2> QED
    BY <1>1, <2>1 DEF Redo!IsReplayed, Overlay
<1>2. CASE Redo!Written(w, n, x)
  <2>1. PICK i \in 1 .. n : Redo!IsLastWrite(w, n, x, i) /\ s[x] = w[i].val
    BY <1>2 DEF Redo!IsReplayed
  <2>2. \A k \in DOMAIN w : Redo!IsLastWrite(w, n, x, k) => k = i
    BY <2>1, LastWriteUnique
  <2> DEFINE last == CHOOSE k \in DOMAIN w : Redo!IsLastWrite(w, n, x, k)
  <2>3. i \in DOMAIN w
    BY <2>1
  <2>4. last = i
    BY <2>1, <2>2, <2>3
  <2>5. Overlay(f, w)[x] = w[last].val
    BY <1>2 DEF Overlay
  <2> QED
    BY <2>1, <2>4, <2>5
<1> QED
  BY <1>1, <1>2

\* Overlay of writes that target different blocks.
LEMMA OverlayOfDistinct ==
  ASSUME NEW f, NEW w \in Seq(Write),
         \A i, k \in DOMAIN w : w[i].blk = w[k].blk => i = k
  PROVE  /\ Overlay(f, w) = [x \in FsBlock |-> Overlay(f, w)[x]]
         /\ \A i \in DOMAIN w : Overlay(f, w)[w[i].blk] = w[i].val
         /\ \A x \in FsBlock : (\A i \in DOMAIN w : w[i].blk # x) => Overlay(f, w)[x] = f[x]
<1> DEFINE n == Len(w)
<1>1. n \in Nat /\ DOMAIN w = 1 .. n /\ \A i \in DOMAIN w : w[i] \in Write
  <2> HIDE DEF Write
  <2> QED
    OBVIOUS
<1>2. ASSUME NEW i \in DOMAIN w
      PROVE  Overlay(f, w)[w[i].blk] = w[i].val
  <2> DEFINE x == w[i].blk
  <2>1. x \in FsBlock
    BY <1>1 DEF Write
  <2>2. Redo!IsLastWrite(w, n, x, i) /\ Redo!Written(w, n, x)
    BY <1>1 DEF Redo!IsLastWrite, Redo!Written
  <2> DEFINE last == CHOOSE k \in DOMAIN w : Redo!IsLastWrite(w, n, x, k)
  <2>3. Redo!IsLastWrite(w, n, x, last)
    BY <2>2
  <2>4. last = i
    BY <1>1, <2>2, <2>3, LastWriteUnique
  <2>5. Overlay(f, w)[x] = w[last].val
    BY <2>1, <2>2 DEF Overlay
  <2> QED
    BY <2>4, <2>5
<1>3. \A x \in FsBlock : (\A i \in DOMAIN w : w[i].blk # x) => Overlay(f, w)[x] = f[x]
  BY <1>1 DEF Overlay, Redo!Written
<1> QED
  BY <1>2, <1>3 DEF Overlay

LEMMA WalTyped ==
  ASSUME NEW w \in Seq(Write)
  PROVE  Len(w) \in Nat /\ DOMAIN w = 1 .. Len(w)
<1> HIDE DEF Write
<1> QED
  OBVIOUS

LEMMA OwesNothing ==
  ASSUME NEW f, NEW p, NEW w \in Seq(Write)
  PROVE  Owes(f, p, w, 0) <=> \A x \in FsBlock : f[x] = p[x]
<1>1. \A i \in DOMAIN w : ~(i > Len(w) - 0)
  <2> HIDE DEF Write
  <2> QED
    OBVIOUS
<1> QED
  BY <1>1 DEF Owes

-----------------------------------------------------------------------------
(* What every step keeps. *)

LEMMA TypedForReplay ==
  ASSUME CommitTyped, phase \in Phase
  PROVE  TypeOK
BY DEF CommitTyped, TypeOK

LEMMA StepsFrame ==
  ASSUME StepsInOrder, UNCHANGED <<txn, todo>>, txn.busy => phase' = "rw"
  PROVE  StepsInOrder'
BY DEF StepsInOrder, Issued

LEMMA PromiseFrame ==
  ASSUME PromiseKept, UNCHANGED <<fs, jsb, promised, image, txn, todo, torn>>
  PROVE  PromiseKept'
BY DEF PromiseKept, Owed, HalfInPlace

\* No commit under way.
LEMMA NothingInFlight ==
  ASSUME CommitInv, ~txn.busy
  PROVE  /\ todo = <<>> /\ ~HalfInPlace
         /\ is_clean(jsb) /\ ~torn => \A x \in FsBlock : fs[x] = promised[x]
<1>1. todo = <<>> /\ ~HalfInPlace
  BY DEF CommitInv, StepsInOrder, HalfInPlace
<1>2. txn.writes \in Seq(Write)
  BY DEF CommitInv, CommitTyped, InFlight
<1>3. Owed = 0
  BY <1>1 DEF Owed
<1> QED
  BY <1>1, <1>2, <1>3, OwesNothing DEF CommitInv, PromiseKept

\* A commit cut off short of its in-place writes leaves the promised store.
LEMMA CutOff ==
  ASSUME CommitInv, txn' = Idle, todo' = <<>>, promised' = promised
  PROVE  /\ StepsInOrder'
         /\ ~HalfInPlace /\ is_clean(jsb) /\ ~torn => \A x \in FsBlock : fs[x] = promised[x]
         /\ (\A x \in FsBlock : fs'[x] = promised[x]) => Owes(fs, promised, txn.writes, Owed)'
         /\ promised' = [x \in FsBlock |-> promised'[x]]
<1>1. txn.writes \in Seq(Write)
  BY DEF CommitInv, CommitTyped, InFlight
<1>2. Idle.busy = FALSE /\ Idle.writes = <<>>
  BY DEF Idle
<1>3. StepsInOrder'
  BY <1>2 DEF StepsInOrder
<1>4. ~HalfInPlace => Owed = 0
  BY DEF Owed
<1>5. Owed' = 0
  BY DEF Owed, HalfInPlace
<1>6. <<>> \in Seq(Write)
  OBVIOUS
<1>7. ASSUME \A x \in FsBlock : fs'[x] = promised[x]
      PROVE  Owes(fs, promised, txn.writes, Owed)'
  <2>1. Owes(fs', promised', <<>>, 0)
    BY <1>6, <1>7, OwesNothing
  <2> QED
    BY <1>2, <1>5, <2>1
<1> QED
  BY <1>1, <1>3, <1>4, <1>7, OwesNothing DEF CommitInv, PromiseKept

LEMMA CommitInitHolds == CommitInit => CommitInv
<1> SUFFICES ASSUME CommitInit
             PROVE  CommitInv
  OBVIOUS
<1>1. Init /\ TypeOK /\ image \in Images
  BY InitTyped DEF CommitInit, Init
<1>2. First \in JBlock /\ <<>> \in Seq(Write) /\ <<>> \in Seq(DeviceWrite)
  BY GeometryAssumption DEF JBlock
<1>3. Idle \in InFlight /\ Idle.busy = FALSE /\ Idle.writes = <<>>
  BY <1>2 DEF Idle, InFlight
<1>4. CommitTyped
  <2>1. synced.log = log /\ image.wal \in Seq(Write)
    BY <1>1, ImageTyped DEF CommitInit
  <2>2. {"fs", "log", "wal"} \subseteq DOMAIN image
    BY <1>1, ImagesAssumption
  <2> QED
    BY <1>1, <1>2, <1>3, <2>1, <2>2 DEF CommitInit, TypeOK, CommitTyped
<1>5. StepsInOrder
  BY <1>3 DEF CommitInit, StepsInOrder
<1>6. FlagCleared
  BY DEF CommitInit, Init, FlagCleared
<1>7. CleanWhenMounted
  BY DEF CommitInit, Init, CleanWhenMounted
<1>8. PromiseKept
  <2>1. promised = Overlay(image.fs, image.wal)
    BY DEF CommitInit, Init
  <2>2. promised = [x \in FsBlock |-> promised[x]]
    BY <2>1 DEF Overlay
  <2>3. ASSUME is_clean(jsb)
        PROVE  Owes(fs, promised, txn.writes, Owed)
    <3>1. image.wal = <<>> /\ fs = image.fs
      BY <1>1, <2>3, ImageTyped DEF Init
    <3>2. \A x \in FsBlock : promised[x] = fs[x]
      <4> DEFINE none == <<>>
      <4>1. none \in Seq(Write) /\ \A i \in DOMAIN none : FALSE
        BY <1>2
      <4> HIDE DEF none
      <4>2. \A i, k \in DOMAIN none : none[i].blk = none[k].blk => i = k
        BY <4>1
      <4>3. \A x \in FsBlock : Overlay(fs, none)[x] = fs[x]
        BY <4>1, <4>2, OverlayOfDistinct
      <4> QED
        BY <2>1, <3>1, <4>3 DEF none
    <3>3. Owed = 0 /\ txn.writes = <<>>
      BY <1>3 DEF CommitInit, Owed, HalfInPlace
    <3> QED
      BY <1>2, <3>2, <3>3, OwesNothing
  <2> QED
    BY <2>1, <2>2, <2>3 DEF PromiseKept
<1> QED
  BY <1>4, <1>5, <1>6, <1>7, <1>8 DEF CommitInv

-----------------------------------------------------------------------------
(* Opening, replaying, closing. *)

LEMMA MountingHolds == ASSUME CommitInv, Mounting PROVE CommitInv'
<1>1. /\ OpenReadWrite \/ OpenReadOnly \/ Close \/ Replay
      /\ synced' = IF phase = "barrier" THEN [log |-> log, valid |-> valid] ELSE synced
      /\ torn' = (torn \/ (phase = "mark" /\ ~Redo!IsReplayed(image.fs, image.wal, fs)))
      /\ UNCHANGED <<write_head, next_sequence, txn, todo, marks, valid, promised>>
  BY DEF Mounting
<1>2. phase \in Phase /\ phase' \in Phase /\ image' = image
  BY <1>1 DEF OpenReadWrite, OpenReadOnly, Close, Replay, ScanDescriptor, ApplyWrite, EndTransaction,
     ScanCommit, ScanRevoke, EndOfLog, WriteJournalSuperblock, Flush, Phase
<1>3. TypeOK'
  BY <1>1, <1>2, TypedForReplay, OpenTyped, ReplayTyped DEF CommitInv
<1>4. ~txn.busy
  BY <1>2 DEF CommitInv, StepsInOrder, Phase
<1>5. CommitTyped'
  <2>1. synced'.log \in [JBlock -> Entry] /\ torn' \in BOOLEAN
    BY <1>1 DEF CommitInv, CommitTyped
  <2>2. /\ write_head' \in JBlock /\ next_sequence' \in Nat /\ txn' \in InFlight
        /\ todo' \in Seq(DeviceWrite) /\ image'.wal \in Seq(Write)
        /\ {"fs", "log", "wal"} \subseteq DOMAIN image'
    BY <1>1, <1>2 DEF CommitInv, CommitTyped
  <2> QED
    BY <1>3, <2>1, <2>2 DEF TypeOK, CommitTyped
<1>6. StepsInOrder'
  BY <1>1, <1>4, StepsFrame DEF CommitInv
<1>7. FlagCleared'
  BY <1>2 DEF FlagCleared, Phase
<1>8. jsb \in JournalSb
  BY DEF CommitInv, CommitTyped
<1>9. CleanWhenMounted'
  <2>1. CASE WriteJournalSuperblock
    <3>1. is_clean(jsb')
      BY <1>8, <2>1 DEF WriteJournalSuperblock, is_clean, JournalSb
    <3> QED
      BY <2>1, <3>1 DEF CleanWhenMounted, WriteJournalSuperblock
  <2>2. CASE OpenReadWrite \/ OpenReadOnly \/ Close
    BY <2>2 DEF CommitInv, CleanWhenMounted, OpenReadWrite, OpenReadOnly, Close, device, is_clean
  <2>3. CASE Flush
    BY <2>3 DEF CommitInv, CleanWhenMounted, Flush, device, is_clean
  <2>4. CASE ScanDescriptor \/ ApplyWrite \/ EndTransaction \/ ScanCommit \/ ScanRevoke \/ EndOfLog
    BY <2>4 DEF CommitInv, CleanWhenMounted, ScanDescriptor, ApplyWrite, EndTransaction, ScanCommit,
       ScanRevoke, EndOfLog, device, is_clean
  <2> QED
    BY <1>1, <2>1, <2>2, <2>3, <2>4 DEF Replay
<1>10. PromiseKept'
  <2>1. CASE WriteJournalSuperblock
    <3>1. phase = "mark" /\ fs' = fs /\ ~is_clean(jsb)
      BY <2>1 DEF WriteJournalSuperblock, CommitInv, CleanWhenMounted
    <3>2. is_clean(jsb')
      BY <1>8, <2>1 DEF WriteJournalSuperblock, is_clean, JournalSb
    <3>3. ASSUME ~torn'
          PROVE  Owes(fs, promised, txn.writes, Owed)'
      <4>1. ~torn /\ Redo!IsReplayed(image.fs, image.wal, fs)
        BY <1>1, <3>1, <3>3
      <4>2. promised = Overlay(image.fs, image.wal)
        BY <3>1, <4>1 DEF CommitInv, PromiseKept
      <4>3. \A x \in FsBlock : fs[x] = promised[x]
        <5>1. Len(image.wal) \in Nat /\ DOMAIN image.wal = 1 .. Len(image.wal)
          BY WalTyped DEF CommitInv, CommitTyped
        <5> QED
          BY <4>1, <4>2, <5>1, ReplayedIsOverlay
      <4>4. todo = <<>> /\ txn.writes \in Seq(Write)
        BY <1>4, NothingInFlight DEF CommitInv, CommitTyped, InFlight
      <4>5. Owes(fs, promised, txn.writes, 0)
        BY <4>3, <4>4, OwesNothing
      <4>6. Owed' = 0
        BY <1>1, <4>4 DEF Owed, HalfInPlace
      <4> QED
        BY <1>1, <3>1, <4>5, <4>6
    <3> QED
      BY <1>1, <3>2, <3>3 DEF CommitInv, PromiseKept
  <2>2. CASE ApplyWrite
    <3>1. ~is_clean(jsb) /\ jsb' = jsb /\ torn' = torn
      BY <1>1, <2>2 DEF ApplyWrite, CommitInv, CleanWhenMounted, CommitTyped
    <3> QED
      BY <1>1, <1>2, <3>1 DEF CommitInv, PromiseKept, is_clean
  <2>3. CASE ~WriteJournalSuperblock /\ ~ApplyWrite
    <3>1. UNCHANGED <<fs, jsb>> /\ phase # "mark"
      BY <1>1, <2>3 DEF OpenReadWrite, OpenReadOnly, Close, Replay, ScanDescriptor, EndTransaction,
         ScanCommit, ScanRevoke, EndOfLog, Flush, device
    <3>2. torn' = torn
      BY <1>1, <3>1 DEF CommitInv, CommitTyped
    <3> QED
      BY <1>1, <1>2, <3>1, <3>2, PromiseFrame DEF CommitInv
  <2> QED
    BY <2>1, <2>2, <2>3
<1> QED
  BY <1>5, <1>6, <1>7, <1>9, <1>10 DEF CommitInv

\* The steps between the replay and the first commit, and behind the last.
LEMMA FlagsHold ==
  ASSUME CommitInv,
         SetDirtyFlag \/ FlushDirtyFlag \/ StartHost \/ Unmount \/ FlushValidFlag \/ UserFlush
  PROVE  CommitInv'
<1>1. /\ UNCHANGED <<fs, jsb, log, journal, jblock, sequence, revoke_set, pending, crashes, image,
                     applied, txn, todo, promised, torn>>
      /\ phase \in {"recovered", "dirtied", "rw", "closing"}
  BY DEF SetDirtyFlag, FlushDirtyFlag, StartHost, Unmount, FlushValidFlag, UserFlush, device, locals
<1>a. phase' \in {"dirtied", "rw", "closing", "down"}
  BY DEF SetDirtyFlag, FlushDirtyFlag, StartHost, Unmount, FlushValidFlag, UserFlush
<1>b. stable' \in {stable, [fs |-> fs, jsb |-> jsb]} /\ synced'.log \in {synced.log, log}
  BY DEF SetDirtyFlag, FlushDirtyFlag, StartHost, Unmount, FlushValidFlag, UserFlush
<1>c. /\ next_sequence' \in {next_sequence, journal.seq}
      /\ write_head' \in {write_head, IF is_clean(journal) THEN First ELSE journal.start}
  BY DEF SetDirtyFlag, FlushDirtyFlag, StartHost, Unmount, FlushValidFlag, UserFlush, StartWriter
<1>2. txn.busy => phase' = "rw"
  BY DEF SetDirtyFlag, FlushDirtyFlag, StartHost, Unmount, FlushValidFlag, UserFlush, CommitInv, StepsInOrder
<1>3. CommitTyped'
  <2>1. write_head' \in JBlock
    <3>1. write_head \in JBlock /\ First \in JBlock /\ journal \in JournalSb
      BY GeometryAssumption DEF CommitInv, CommitTyped, JBlock
    <3>2. ~is_clean(journal) => journal.start \in JBlock
      BY <3>1 DEF is_clean, JournalSb
    <3> QED
      BY <1>c, <3>1, <3>2
  <2>2. next_sequence' \in Nat
    BY <1>c DEF CommitInv, CommitTyped, JournalSb
  <2>3. stable' \in [fs : [FsBlock -> Value], jsb : JournalSb] /\ synced'.log \in [JBlock -> Entry]
    BY <1>b DEF CommitInv, CommitTyped
  <2> QED
    BY <1>1, <1>a, <2>1, <2>2, <2>3 DEF CommitInv, CommitTyped, Phase
<1>4. StepsInOrder'
  BY <1>1, <1>2, StepsFrame DEF CommitInv
<1>5. FlagCleared'
  BY DEF CommitInv, FlagCleared, SetDirtyFlag, FlushDirtyFlag, StartHost, Unmount, FlushValidFlag, UserFlush
<1>6. CleanWhenMounted'
  <2>1. is_clean(jsb) /\ jsb' = jsb
    BY <1>1 DEF CommitInv, CleanWhenMounted
  <2> QED
    BY <1>1, <1>a, <1>b, <2>1 DEF CleanWhenMounted, is_clean
<1>7. PromiseKept'
  BY <1>1, PromiseFrame DEF CommitInv
<1> QED
  BY <1>3, <1>4, <1>5, <1>6, <1>7 DEF CommitInv

-----------------------------------------------------------------------------
(* commit(). *)

\* What commit() does next, and what is left behind it.
LEMMA NextWrite ==
  ASSUME CommitInv, todo # <<>>
  PROVE  /\ txn.busy /\ phase = "rw" /\ is_clean(jsb)
         /\ Issued \in Nat /\ Len(todo) \in Nat \ {0} /\ Len(CommitSteps(txn)) = Issued + Len(todo)
         /\ Head(todo) = CommitSteps(txn)[Issued + 1] /\ Head(todo) \in DeviceWrite
         /\ Tail(todo) \in Seq(DeviceWrite) /\ Len(Tail(todo)) = Len(todo) - 1
         /\ \A q \in 1 .. Len(Tail(todo)) : Tail(todo)[q] = CommitSteps(txn)[Issued + 1 + q]
         /\ Tail(todo) # <<>> => Head(Tail(todo)) = CommitSteps(txn)[Issued + 2]
         /\ Tail(todo) = <<>> <=> Len(todo) = 1
<1>1. txn.busy /\ phase = "rw" /\ is_clean(jsb)
  BY DEF CommitInv, StepsInOrder, CleanWhenMounted
<1>2. Issued \in Nat /\ \A q \in 1 .. Len(todo) : todo[q] = CommitSteps(txn)[Issued + q]
  BY <1>1 DEF CommitInv, StepsInOrder
<1>3. todo \in Seq(DeviceWrite)
  BY DEF CommitInv, CommitTyped
<1> DEFINE td == todo
<1>4. /\ Len(td) \in Nat \ {0} /\ Head(td) = td[1] /\ Head(td) \in DeviceWrite
      /\ Tail(td) \in Seq(DeviceWrite) /\ Len(Tail(td)) = Len(td) - 1
      /\ \A q \in 1 .. Len(Tail(td)) : Tail(td)[q] = td[q + 1]
      /\ Tail(td) # <<>> => Len(Tail(td)) # 0 /\ Head(Tail(td)) = Tail(td)[1]
      /\ Tail(td) = <<>> => Len(Tail(td)) = 0
  <2>1. td \in Seq(DeviceWrite) /\ td # <<>>
    BY <1>3
  <2> HIDE DEF td, DeviceWrite
  <2>2. Len(td) \in Nat \ {0} /\ td[1] \in DeviceWrite
    BY <2>1, EmptySeq, LenProperties
  <2>3. Head(td) = td[1] /\ Head(td) \in DeviceWrite
    BY <2>1, <2>2, HeadTailProperties
  <2>4. /\ Tail(td) \in Seq(DeviceWrite) /\ Len(Tail(td)) = Len(td) - 1
        /\ \A q \in 1 .. Len(Tail(td)) : Tail(td)[q] = td[q + 1]
    BY <2>1, HeadTailProperties
  <2> DEFINE tl == Tail(td)
  <2>5. tl \in Seq(DeviceWrite)
    BY <2>4
  <2> HIDE DEF tl
  <2>6. (tl # <<>> => Len(tl) # 0 /\ Head(tl) = tl[1]) /\ (tl = <<>> => Len(tl) = 0)
    BY <2>5, EmptySeq
  <2> QED
    BY <2>2, <2>3, <2>4, <2>6 DEF tl
<1>5. CommitSteps(txn) \in Seq(DeviceWrite)
  BY StepsOfCommit, StepsOfRefused DEF CommitInv, CommitTyped, InFlight
<1>6. Len(CommitSteps(txn)) \in Nat
  <2> DEFINE cs == CommitSteps(txn)
  <2>1. cs \in Seq(DeviceWrite)
    BY <1>5
  <2> HIDE DEF cs, DeviceWrite
  <2>2. Len(cs) \in Nat
    BY <2>1
  <2> QED
    BY <2>2 DEF cs
<1>7. Len(CommitSteps(txn)) = Issued + Len(todo)
  BY <1>4, <1>6 DEF Issued
<1> DEFINE k == Issued
<1>8. k \in Nat /\ \A q \in 1 .. Len(td) : td[q] = CommitSteps(txn)[k + q]
  BY <1>2
<1> HIDE DEF td, k
<1>9. Head(td) = CommitSteps(txn)[k + 1]
  BY <1>4, <1>8
<1>10. \A q \in 1 .. Len(Tail(td)) : Tail(td)[q] = CommitSteps(txn)[k + 1 + q]
  <2> SUFFICES ASSUME NEW q \in 1 .. Len(Tail(td))
               PROVE  Tail(td)[q] = CommitSteps(txn)[k + 1 + q]
    OBVIOUS
  <2>1. q + 1 \in 1 .. Len(td) /\ k + (q + 1) = k + 1 + q
    BY <1>4, <1>8
  <2> QED
    BY <1>4, <1>8, <2>1
<1>11. Tail(td) # <<>> => Head(Tail(td)) = CommitSteps(txn)[k + 2]
  <2>1. k + 1 + 1 = k + 2
    BY <1>8
  <2> QED
    BY <1>4, <1>10, <2>1
<1>12. Tail(td) = <<>> <=> Len(td) = 1
  BY <1>4
<1> QED
  BY <1>1, <1>2, <1>4, <1>7, <1>9, <1>10, <1>11, <1>12 DEF td, k

LEMMA NextWriteFits ==
  ASSUME CommitInv, todo # <<>>, Fits(txn)
  PROVE  LET n  == LogLength(txn)
             w  == txn.writes
             bs == TransactionBlocks(txn.revoked, w, txn.seq, FALSE)
         IN  /\ n \in Nat \ {0} /\ Len(w) \in Nat /\ DOMAIN w = 1 .. Len(w)
             /\ Issued + Len(todo) = n + Len(w)
             /\ Issued < n => /\ Head(todo) = InLog(bs[Issued + 1])
                              /\ bs[Issued + 1] \in Entry
                              /\ bs[Issued + 1].kind = "commit" <=> Issued + 1 = n
             /\ Issued >= n => /\ Head(todo) = InStore(w[Issued + 1 - n])
                               /\ Issued + 1 - n \in 1 .. Len(w)
                               /\ w[Issued + 1 - n] \in Write
             /\ Issued + 1 < n => Tail(todo) # <<>> /\ Head(Tail(todo)).area = "log"
             /\ Issued + 1 >= n /\ Tail(todo) # <<>> => Head(Tail(todo)).area = "store"
<1> DEFINE n  == LogLength(txn)
           w  == txn.writes
           r  == txn.revoked
           s  == txn.seq
           bs == TransactionBlocks(r, w, s, FALSE)
           k  == Issued
           cs == CommitSteps(txn)
<1>1. r \in SUBSET FsBlock /\ w \in Seq(Write) /\ s \in Nat
  BY DEF CommitInv, CommitTyped, InFlight
<1>2. /\ n = BlockCount(r, w) /\ n \in Nat \ {0} /\ Len(w) \in Nat /\ DOMAIN w = 1 .. Len(w)
      /\ Len(cs) = n + Len(w)
      /\ \A q \in 1 .. n : cs[q] = InLog(bs[q])
      /\ \A q \in 1 .. Len(w) : cs[n + q] = InStore(w[q])
  BY <1>1, StepsOfCommit
<1>3. \A q \in 1 .. n : bs[q] \in Entry /\ (bs[q].kind = "commit" <=> q = n)
  <2> HIDE DEF r, w, s, n
  <2> QED
    BY <1>1, <1>2, BlocksOfCommit
<1>4. \A q \in 1 .. Len(w) : w[q] \in Write
  <2> HIDE DEF w, Write
  <2> QED
    BY <1>1, <1>2
<1>5. /\ k \in Nat /\ Len(todo) \in Nat \ {0} /\ Len(cs) = k + Len(todo)
      /\ Head(todo) = cs[k + 1] /\ Len(Tail(todo)) = Len(todo) - 1
      /\ Tail(todo) # <<>> => Head(Tail(todo)) = cs[k + 2]
      /\ Tail(todo) = <<>> <=> Len(todo) = 1
  BY NextWrite
<1> HIDE DEF n, w, bs, k, cs
<1>6. ASSUME NEW q \in 1 .. n
      PROVE  cs[q].area = "log"
  <2> DEFINE e == bs[q]
  <2>1. cs[q] = InLog(e)
    BY <1>2
  <2> HIDE DEF e
  <2> QED
    BY <2>1 DEF InLog
<1>7. \A q \in (n + 1) .. (n + Len(w)) : cs[q] = InStore(w[q - n]) /\ q - n \in 1 .. Len(w) /\ cs[q].area = "store"
  <2> SUFFICES ASSUME NEW q \in (n + 1) .. (n + Len(w))
               PROVE  cs[q] = InStore(w[q - n]) /\ q - n \in 1 .. Len(w) /\ cs[q].area = "store"
    OBVIOUS
  <2> DEFINE m == q - n
  <2>1. m \in 1 .. Len(w) /\ n + m = q
    BY <1>2
  <2> HIDE DEF m
  <2>2. cs[q] = InStore(w[m])
    BY <1>2, <2>1
  <2>3. cs[q].area = "store"
    BY <2>2 DEF InStore
  <2> QED
    BY <2>1, <2>2, <2>3 DEF m
<1>8. k < n => Head(todo) = InLog(bs[k + 1]) /\ bs[k + 1] \in Entry /\ (bs[k + 1].kind = "commit" <=> k + 1 = n)
  BY <1>2, <1>3, <1>5
<1>9. k >= n => Head(todo) = InStore(w[k + 1 - n]) /\ k + 1 - n \in 1 .. Len(w) /\ w[k + 1 - n] \in Write
  <2> SUFFICES ASSUME k >= n
               PROVE  Head(todo) = InStore(w[k + 1 - n]) /\ k + 1 - n \in 1 .. Len(w) /\ w[k + 1 - n] \in Write
    OBVIOUS
  <2> DEFINE m == k + 1
  <2>1. m \in (n + 1) .. (n + Len(w)) /\ Head(todo) = cs[m] /\ m - n = k + 1 - n
    BY <1>2, <1>5
  <2> HIDE DEF m
  <2>2. Head(todo) = InStore(w[m - n]) /\ m - n \in 1 .. Len(w)
    BY <1>7, <2>1
  <2>3. w[m - n] \in Write
    BY <1>4, <2>2
  <2> QED
    BY <2>1, <2>2, <2>3
<1>10. k + 1 < n => Tail(todo) # <<>> /\ Head(Tail(todo)).area = "log"
  BY <1>2, <1>5, <1>6
<1>11. k + 1 >= n /\ Tail(todo) # <<>> => Head(Tail(todo)).area = "store"
  <2> SUFFICES ASSUME k + 1 >= n, Tail(todo) # <<>>
               PROVE  Head(Tail(todo)).area = "store"
    OBVIOUS
  <2> DEFINE m == k + 2
  <2>1. m \in (n + 1) .. (n + Len(w)) /\ Head(Tail(todo)) = cs[m]
    BY <1>2, <1>5
  <2> HIDE DEF m
  <2> QED
    BY <1>7, <2>1
<1> QED
  BY <1>2, <1>5, <1>8, <1>9, <1>10, <1>11 DEF n, w, bs, k, cs

LEMMA NextWriteRefused ==
  ASSUME CommitInv, todo # <<>>, ~Fits(txn)
  PROVE  /\ Issued = 0 /\ Tail(todo) = <<>>
         /\ Head(todo) = InLog(Revoke(txn.seq, txn.revoked))
         /\ Head(todo).area = "log" /\ Head(todo).entry \in Entry /\ Head(todo).entry.kind # "commit"
<1>1. txn.revoked \in SUBSET FsBlock /\ txn.seq \in Nat
  BY DEF CommitInv, CommitTyped, InFlight
<1>2. /\ Len(CommitSteps(txn)) \in {0, 1}
      /\ \A q \in 1 .. Len(CommitSteps(txn)) : CommitSteps(txn)[q] = InLog(Revoke(txn.seq, txn.revoked))
      /\ Revoke(txn.seq, txn.revoked) \in Entry /\ Revoke(txn.seq, txn.revoked).kind = "revoke"
  BY <1>1, StepsOfRefused
<1>3. /\ Issued \in Nat /\ Len(todo) \in Nat \ {0} /\ Len(CommitSteps(txn)) = Issued + Len(todo)
      /\ Head(todo) = CommitSteps(txn)[Issued + 1] /\ (Tail(todo) = <<>> <=> Len(todo) = 1)
  BY NextWrite
<1>4. Issued = 0 /\ Len(todo) = 1 /\ Len(CommitSteps(txn)) = 1 /\ Issued + 1 = 1
  BY <1>2, <1>3
<1>5. Head(todo) = InLog(Revoke(txn.seq, txn.revoked))
  BY <1>2, <1>3, <1>4
<1> QED
  BY <1>2, <1>3, <1>4, <1>5 DEF InLog

\* A write into the log, or one in place.
LEMMA NextWriteKind ==
  ASSUME CommitInv, todo # <<>>
  PROVE  /\ Head(todo).area \in {"log", "store"}
         /\ Head(todo).area = "log" => Head(todo).entry \in Entry /\ (Fits(txn) => Issued < LogLength(txn))
         /\ Head(todo).area = "store" => Fits(txn) /\ Issued >= LogLength(txn) /\ Head(todo).write \in Write
<1>1. CASE ~Fits(txn)
  BY <1>1, NextWriteRefused
<1>2. CASE Fits(txn) /\ Issued < LogLength(txn)
  <2> DEFINE e == TransactionBlocks(txn.revoked, txn.writes, txn.seq, FALSE)[Issued + 1]
  <2>0. Head(todo) = InLog(e) /\ e \in Entry
    BY <1>2, NextWriteFits
  <2> HIDE DEF e, Entry
  <2>1. Head(todo).area = "log" /\ Head(todo).entry \in Entry
    BY <2>0 DEF InLog
  <2> QED
    BY <1>2, <2>1
<1>3. CASE Fits(txn) /\ Issued >= LogLength(txn)
  <2>1. Head(todo).area = "store" /\ Head(todo).write \in Write
    BY <1>3, NextWriteFits DEF InStore
  <2> QED
    BY <1>3, <2>1
<1>4. Issued \in Nat /\ (Fits(txn) => LogLength(txn) \in Nat)
  BY NextWrite, NextWriteFits
<1> QED
  BY <1>1, <1>2, <1>3, <1>4

LEMMA IdleTyped == Idle \in InFlight /\ <<>> \in Seq(DeviceWrite)
<1>1. First \in JBlock /\ <<>> \in Seq(Write) /\ <<>> \in Seq(DeviceWrite)
  BY GeometryAssumption DEF JBlock
<1> QED
  BY <1>1 DEF Idle, InFlight

LEMMA BeginHolds == ASSUME CommitInv, begin_commit PROVE CommitInv'
<1>1. PICK t \in Transactions :
        txn' = [revoked |-> t.revoked, writes |-> t.writes, seq |-> next_sequence,
                at |-> write_head, busy |-> TRUE]
  BY DEF begin_commit
<1>2. /\ phase = "rw" /\ ~txn.busy /\ todo' = CommitSteps(txn')
      /\ UNCHANGED <<vars, write_head, next_sequence, marks, valid, synced, promised, torn>>
  BY DEF begin_commit
<1>3. /\ t.revoked \in SUBSET FsBlock /\ t.writes \in Seq(Write)
      /\ \A i, k \in DOMAIN t.writes : t.writes[i].blk = t.writes[k].blk => i = k
  BY CommitAssumption
<1>4. write_head \in JBlock /\ next_sequence \in Nat
  BY DEF CommitInv, CommitTyped
<1>5. /\ txn' \in InFlight /\ txn'.busy /\ txn'.writes = t.writes /\ txn'.revoked = t.revoked
      /\ txn'.seq \in Nat
  BY <1>1, <1>3, <1>4 DEF InFlight
<1> DEFINE cs == CommitSteps(txn')
<1>6. cs \in Seq(DeviceWrite) /\ (cs # <<>> => cs[1].area = "log")
  <2>1. CASE Fits(txn')
    <3> DEFINE bs == TransactionBlocks(txn'.revoked, txn'.writes, txn'.seq, FALSE)
               e == bs[1]
               n == LogLength(txn')
    <3>1. cs \in Seq(DeviceWrite) /\ n \in Nat \ {0} /\ \A q \in 1 .. n : cs[q] = InLog(bs[q])
      BY <1>3, <1>5, <2>1, StepsOfCommit
    <3> HIDE DEF bs, n, cs
    <3>2. cs[1] = InLog(e)
      BY <3>1
    <3> HIDE DEF e, cs
    <3> QED
      BY <3>1, <3>2 DEF InLog
  <2>2. CASE ~Fits(txn')
    <3> DEFINE e == Revoke(txn'.seq, txn'.revoked)
    <3>1. cs \in Seq(DeviceWrite) /\ \A q \in 1 .. Len(cs) : cs[q] = InLog(e)
      BY <1>3, <1>5, <2>2, StepsOfRefused
    <3> HIDE DEF e, cs, DeviceWrite
    <3>2. ASSUME cs # <<>>
          PROVE  cs[1] = InLog(e)
      <4>1. Len(cs) \in Nat \ {0}
        BY <3>1, <3>2, EmptySeq
      <4> QED
        BY <3>1, <4>1
    <3> QED
      BY <3>1, <3>2 DEF InLog
  <2> QED
    BY <2>1, <2>2
<1>7. Len(cs) \in Nat /\ (cs # <<>> => Head(cs) = cs[1])
  <2> HIDE DEF cs, DeviceWrite
  <2> QED
    BY <1>6
<1>8. CommitTyped'
  BY <1>2, <1>5, <1>6 DEF CommitInv, CommitTyped, vars
<1>9. StepsInOrder'
  <2>1. Issued' = 0
    BY <1>2, <1>7 DEF Issued
  <2>2. phase' = "rw"
    BY <1>2 DEF vars
  <2>3. \A q \in 1 .. Len(todo') : todo'[q] = CommitSteps(txn')[0 + q]
    BY <1>2
  <2> QED
    BY <1>3, <1>5, <2>1, <2>2, <2>3 DEF StepsInOrder
<1>10. FlagCleared' /\ CleanWhenMounted'
  BY <1>2 DEF CommitInv, FlagCleared, CleanWhenMounted, is_clean, vars
<1>11. PromiseKept'
  <2>1. Owed' = 0
    BY <1>2, <1>6, <1>7 DEF Owed, HalfInPlace
  <2>2. is_clean(jsb) /\ is_clean(jsb')
    BY <1>2 DEF CommitInv, CleanWhenMounted, is_clean, vars
  <2>3. ~torn => \A x \in FsBlock : fs[x] = promised[x]
    BY <1>2, <2>2, NothingInFlight
  <2>4. fs' = fs /\ promised' = promised /\ torn' = torn
    BY <1>2 DEF vars
  <2>5. ~torn => Owes(fs, promised, t.writes, 0)
    BY <1>3, <2>3, OwesNothing
  <2>6. ~torn' => Owes(fs, promised, txn.writes, Owed)'
    BY <1>5, <2>1, <2>4, <2>5
  <2> QED
    BY <2>2, <2>4, <2>6 DEF CommitInv, PromiseKept
<1> QED
  BY <1>8, <1>9, <1>10, <1>11 DEF CommitInv

\* One step of a commit is done, nothing else of it changes.
LEMMA StepTaken ==
  ASSUME CommitInv, todo # <<>>, todo' = Tail(todo), UNCHANGED <<txn, phase>>
  PROVE  StepsInOrder' /\ Issued' = Issued + 1
<1>1. /\ txn.busy /\ phase = "rw" /\ Issued \in Nat /\ Len(todo) \in Nat \ {0}
      /\ Len(CommitSteps(txn)) = Issued + Len(todo) /\ Len(Tail(todo)) = Len(todo) - 1
      /\ \A q \in 1 .. Len(Tail(todo)) : Tail(todo)[q] = CommitSteps(txn)[Issued + 1 + q]
  BY NextWrite
<1>2. Issued' = Issued + 1
  BY <1>1 DEF Issued
<1> QED
  BY <1>1, <1>2 DEF CommitInv, StepsInOrder

LEMMA LogWriteHolds == ASSUME CommitInv, LogWrite PROVE CommitInv'
<1>1. /\ todo # <<>> /\ Head(todo).area = "log" /\ todo' = Tail(todo)
      /\ log' = [log EXCEPT ![write_head] = Head(todo).entry]
      /\ write_head' = advance_jblock(write_head)
      /\ promised' = IF Head(todo).entry.kind = "commit" THEN Overlay(promised, txn.writes) ELSE promised
      /\ UNCHANGED <<fs, marks, jsb, stable, phase, journal, locals, crashes, image, applied,
                     next_sequence, txn, valid, synced, torn>>
  BY DEF LogWrite
<1>2. Head(todo).entry \in Entry /\ (Fits(txn) => Issued < LogLength(txn))
  BY <1>1, NextWriteKind
<1>3. Tail(todo) \in Seq(DeviceWrite)
  BY <1>1, NextWrite
<1>4. CommitTyped'
  <2>1. log' \in [JBlock -> Entry] /\ write_head' \in JBlock
    BY <1>1, <1>2, AdvanceStays DEF CommitInv, CommitTyped
  <2> QED
    BY <1>1, <1>3, <2>1 DEF CommitInv, CommitTyped, locals
<1>5. StepsInOrder'
  BY <1>1, StepTaken
<1>6. FlagCleared' /\ CleanWhenMounted'
  BY <1>1 DEF CommitInv, FlagCleared, CleanWhenMounted, is_clean
<1>7. PromiseKept'
  <2>1. is_clean(jsb) /\ is_clean(jsb') /\ txn.writes \in Seq(Write)
    BY <1>1, NextWrite DEF CommitInv, CommitTyped, InFlight, is_clean
  <2>2. ~HalfInPlace
    BY <1>1 DEF HalfInPlace
  <2>3. ~torn => \A x \in FsBlock : fs[x] = promised[x]
    <3>1. Owed = 0
      BY <2>2 DEF Owed
    <3> QED
      BY <2>1, <3>1, OwesNothing DEF CommitInv, PromiseKept
  <2>4. CASE Head(todo).entry.kind # "commit"
    <3>1. Owed' = 0
      <4>1. CASE ~Fits(txn)
        BY <1>1, <4>1, NextWriteRefused DEF Owed, HalfInPlace
      <4>2. CASE Fits(txn)
        <5> DEFINE e == TransactionBlocks(txn.revoked, txn.writes, txn.seq, FALSE)[Issued + 1]
        <5>1. Head(todo) = InLog(e) /\ (e.kind = "commit" <=> Issued + 1 = LogLength(txn))
          BY <1>1, <1>2, <4>2, NextWriteFits
        <5> HIDE DEF e
        <5>2. Issued + 1 # LogLength(txn)
          BY <2>4, <5>1 DEF InLog
        <5>3. Issued \in Nat /\ LogLength(txn) \in Nat
          BY <1>1, <4>2, NextWrite, NextWriteFits
        <5>4. Issued + 1 < LogLength(txn)
          BY <1>2, <4>2, <5>2, <5>3
        <5>5. Head(Tail(todo)).area = "log"
          BY <1>1, <4>2, <5>4, NextWriteFits
        <5> QED
          BY <1>1, <5>5 DEF Owed, HalfInPlace
      <4> QED
        BY <4>1, <4>2
    <3>2. promised' = promised /\ fs' = fs /\ txn' = txn /\ torn' = torn
      BY <1>1, <2>4
    <3>3. ~torn' => Owes(fs, promised, txn.writes, Owed)'
      BY <2>1, <2>3, <3>1, <3>2, OwesNothing
    <3> QED
      BY <2>1, <3>2, <3>3 DEF CommitInv, PromiseKept
  <2>5. CASE Head(todo).entry.kind = "commit"
    <3> DEFINE w == txn.writes
    <3>1. Fits(txn)
      BY <1>1, <2>5, NextWriteRefused
    <3>2. Issued + 1 = LogLength(txn) /\ Issued \in Nat
      <4> DEFINE e == TransactionBlocks(txn.revoked, txn.writes, txn.seq, FALSE)[Issued + 1]
      <4>1. Head(todo) = InLog(e) /\ (e.kind = "commit" <=> Issued + 1 = LogLength(txn))
        BY <1>1, <1>2, <3>1, NextWriteFits
      <4> HIDE DEF e
      <4>2. Issued + 1 = LogLength(txn)
        BY <2>5, <4>1 DEF InLog
      <4> QED
        BY <1>1, <4>2, NextWrite
    <3>3. Len(w) \in Nat /\ DOMAIN w = 1 .. Len(w) /\ Issued + Len(todo) = LogLength(txn) + Len(w)
      BY <1>1, <3>1, NextWriteFits
    <3>4. Len(Tail(todo)) = Len(w)
      <4>1. Len(Tail(todo)) = Len(todo) - 1 /\ Len(todo) \in Nat
        BY <1>1, NextWrite
      <4> HIDE DEF w
      <4> QED
        BY <3>2, <3>3, <4>1
    <3>5. Owed' = Len(w)
      <4>1. CASE Tail(todo) = <<>>
        BY <1>1, <3>4, <4>1 DEF Owed, HalfInPlace
      <4>2. CASE Tail(todo) # <<>>
        <5>1. Issued + 1 >= LogLength(txn)
          BY <3>2
        <5>2. Head(Tail(todo)).area = "store"
          BY <1>1, <3>1, <4>2, <5>1, NextWriteFits
        <5> QED
          BY <1>1, <3>4, <4>2, <5>2 DEF Owed, HalfInPlace
      <4> QED
        BY <4>1, <4>2
    <3>6. promised' = Overlay(promised, w) /\ fs' = fs /\ txn' = txn /\ torn' = torn
      BY <1>1, <2>5
    <3>7. \A i, k \in DOMAIN w : w[i].blk = w[k].blk => i = k
      BY DEF CommitInv, StepsInOrder
    <3>8. w \in Seq(Write)
      BY <2>1
    <3> HIDE DEF w
    <3>9. /\ promised' = [x \in FsBlock |-> promised'[x]]
          /\ \A i \in DOMAIN w : promised'[w[i].blk] = w[i].val
          /\ \A x \in FsBlock : (\A i \in DOMAIN w : w[i].blk # x) => promised'[x] = promised[x]
      BY <3>6, <3>7, <3>8, OverlayOfDistinct
    <3>10. \A i \in DOMAIN w : i > Len(w) - Len(w)
      BY <3>3
    <3>11. ~torn' => Owes(fs', promised', w, Len(w))
      BY <2>3, <3>6, <3>9, <3>10 DEF Owes
    <3>12. ~torn' => Owes(fs, promised, txn.writes, Owed)'
      BY <3>5, <3>6, <3>11 DEF w
    <3> QED
      BY <2>1, <3>9, <3>12 DEF PromiseKept
  <2> QED
    BY <2>4, <2>5
<1> QED
  BY <1>4, <1>5, <1>6, <1>7 DEF CommitInv

LEMMA StoreWriteHolds == ASSUME CommitInv, StoreWrite PROVE CommitInv'
<1>1. /\ todo # <<>> /\ Head(todo).area = "store" /\ todo' = Tail(todo)
      /\ fs' = [fs EXCEPT ![Head(todo).write.blk] = Head(todo).write.val]
      /\ UNCHANGED <<jsb, marks, log, stable, phase, journal, locals, crashes, image, applied,
                     write_head, next_sequence, txn, valid, synced, promised, torn>>
  BY DEF StoreWrite
<1> DEFINE w == txn.writes
           n == LogLength(txn)
           k == Issued + 1 - n
<1>2. Fits(txn) /\ Issued >= n /\ Head(todo).write \in Write
  BY <1>1, NextWriteKind
<1>3. /\ Issued \in Nat /\ n \in Nat /\ Len(w) \in Nat /\ DOMAIN w = 1 .. Len(w)
      /\ Len(todo) \in Nat \ {0}
      /\ Issued + Len(todo) = n + Len(w) /\ k \in DOMAIN w /\ Head(todo) = InStore(w[k])
      /\ Tail(todo) # <<>> => Head(Tail(todo)).area = "store"
      /\ Tail(todo) \in Seq(DeviceWrite) /\ Len(Tail(todo)) = Len(todo) - 1
  <2>1. Issued \in Nat /\ n \in Nat
    BY <1>1, <1>2, NextWrite, NextWriteFits
  <2>2. Issued + 1 >= n
    BY <1>2, <2>1
  <2> QED
    BY <1>1, <1>2, <2>1, <2>2, NextWrite, NextWriteFits
<1>4. CommitTyped'
  <2>1. fs' \in [FsBlock -> Value]
    BY <1>1, <1>2 DEF CommitInv, CommitTyped, Write
  <2> QED
    BY <1>1, <1>3, <2>1 DEF CommitInv, CommitTyped, locals
<1>5. StepsInOrder'
  BY <1>1, StepTaken
<1>6. FlagCleared' /\ CleanWhenMounted'
  BY <1>1 DEF CommitInv, FlagCleared, CleanWhenMounted, is_clean
<1>7. PromiseKept'
  <2>1. is_clean(jsb) /\ is_clean(jsb')
    BY <1>1, NextWrite DEF is_clean
  <2>2. Owed = Len(todo)
    BY <1>1 DEF Owed, HalfInPlace
  <2>3. Owed' = Len(todo) - 1
    <3>1. CASE Tail(todo) = <<>>
      <4>1. Len(todo) = 1
        BY <1>1, <3>1, NextWrite
      <4> QED
        BY <1>1, <3>1, <4>1 DEF Owed, HalfInPlace
    <3>2. CASE Tail(todo) # <<>>
      BY <1>1, <1>3, <3>2 DEF Owed, HalfInPlace
    <3> QED
      BY <3>1, <3>2
  <2> DEFINE R == Len(todo)
             y == w[k].blk
  <2>4. Head(todo).write = w[k] /\ fs' = [fs EXCEPT ![y] = w[k].val] /\ y \in FsBlock
    <3> HIDE DEF w, k
    <3>1. Head(todo).write = w[k]
      BY <1>3 DEF InStore
    <3> QED
      BY <1>1, <1>2, <3>1 DEF Write
  <2>5. R \in Nat \ {0} /\ k = Len(w) - R + 1 /\ Issued \in Nat
    BY <1>3
  <2>6. ASSUME ~torn
        PROVE  Owes(fs', promised, w, R - 1)
    <3>1. Owes(fs, promised, w, R)
      BY <2>1, <2>2, <2>6 DEF CommitInv, PromiseKept
    <3>2. fs \in [FsBlock -> Value]
      BY DEF CommitInv, CommitTyped
    <3> HIDE DEF w, k, R
    <3>3. k > Len(w) - R /\ \A i \in DOMAIN w : (i > Len(w) - (R - 1) => i > Len(w) - R)
                                                /\ (i > Len(w) - R => i = k \/ i > Len(w) - (R - 1))
      BY <1>3, <2>5
    <3>4. promised[y] = w[k].val
      BY <1>3, <3>1, <3>3 DEF Owes
    <3>5. \A i \in DOMAIN w : i > Len(w) - (R - 1) => promised[w[i].blk] = w[i].val
      BY <3>1, <3>3 DEF Owes
    <3>6. ASSUME NEW x \in FsBlock, \A i \in DOMAIN w : i > Len(w) - (R - 1) => w[i].blk # x
          PROVE  fs'[x] = promised[x]
      <4>1. CASE x = y
        BY <2>4, <3>2, <3>4, <4>1
      <4>2. CASE x # y
        <5>1. \A i \in DOMAIN w : i > Len(w) - R => w[i].blk # x
          BY <3>3, <3>6, <4>2
        <5>2. fs[x] = promised[x]
          BY <3>1, <5>1 DEF Owes
        <5> QED
          BY <2>4, <3>2, <4>2, <5>2
      <4> QED
        BY <4>1, <4>2
    <3> QED
      BY <3>5, <3>6 DEF Owes
  <2>7. ~torn' => Owes(fs, promised, txn.writes, Owed)'
    BY <1>1, <2>3, <2>6
  <2> QED
    BY <1>1, <2>1, <2>7 DEF CommitInv, PromiseKept
<1> QED
  BY <1>4, <1>5, <1>6, <1>7 DEF CommitInv

LEMMA EndCommitHolds == ASSUME CommitInv, EndCommit PROVE CommitInv'
<1>1. /\ todo = <<>> /\ txn' = Idle /\ todo' = todo
      /\ next_sequence' \in {next_sequence, next_sequence + 1}
      /\ UNCHANGED <<vars, marks, write_head, valid, synced, promised, torn>>
  BY DEF EndCommit
<1>2. CommitTyped'
  <2>1. next_sequence' \in Nat
    BY <1>1 DEF CommitInv, CommitTyped
  <2> QED
    BY <1>1, <2>1, IdleTyped DEF CommitInv, CommitTyped, vars
<1>3. StepsInOrder'
  BY <1>1, CutOff
<1>4. FlagCleared' /\ CleanWhenMounted'
  BY <1>1 DEF CommitInv, FlagCleared, CleanWhenMounted, is_clean, vars
<1>5. PromiseKept'
  <2>1. /\ ~HalfInPlace /\ is_clean(jsb) /\ ~torn => \A x \in FsBlock : fs[x] = promised[x]
        /\ (\A x \in FsBlock : fs'[x] = promised[x]) => Owes(fs, promised, txn.writes, Owed)'
        /\ promised' = [x \in FsBlock |-> promised'[x]]
    BY <1>1, CutOff
  <2>2. ~HalfInPlace
    BY <1>1 DEF HalfInPlace
  <2> QED
    BY <1>1, <2>1, <2>2 DEF CommitInv, PromiseKept, is_clean, vars
<1> QED
  BY <1>2, <1>3, <1>4, <1>5 DEF CommitInv

LEMMA BlankTyped == Blank \in Entry /\ Junk \in Value
BY ValueAssumption DEF Blank, Entry, Kind

LEMMA FailedCommitHolds == ASSUME CommitInv, FailedCommit PROVE CommitInv'
<1>1. /\ todo # <<>> /\ torn' = (torn \/ HalfInPlace) /\ todo' = <<>> /\ txn' = Idle
      /\ UNCHANGED <<jsb, stable, phase, journal, locals, crashes, image, applied, write_head,
                     next_sequence, marks, valid, synced, promised>>
  BY DEF FailedCommit
<1>2. /\ log' \in {log, [log EXCEPT ![write_head] = Blank]}
      /\ fs' \in {fs, [fs EXCEPT ![Head(todo).write.blk] = Junk]}
      /\ ~HalfInPlace => fs' = fs
  BY <1>1 DEF FailedCommit, HalfInPlace
<1>3. CommitTyped'
  <2>1. log' \in [JBlock -> Entry]
    BY <1>2, BlankTyped DEF CommitInv, CommitTyped
  <2>2. fs' \in [FsBlock -> Value]
    BY <1>2, BlankTyped DEF CommitInv, CommitTyped
  <2>3. torn' \in BOOLEAN
    BY <1>1 DEF CommitInv, CommitTyped, HalfInPlace
  <2> QED
    BY <1>1, <2>1, <2>2, <2>3, IdleTyped DEF CommitInv, CommitTyped, locals
<1>4. StepsInOrder'
  BY <1>1, CutOff
<1>5. FlagCleared' /\ CleanWhenMounted'
  BY <1>1 DEF CommitInv, FlagCleared, CleanWhenMounted, is_clean
<1>6. PromiseKept'
  <2>1. /\ ~HalfInPlace /\ is_clean(jsb) /\ ~torn => \A x \in FsBlock : fs[x] = promised[x]
        /\ (\A x \in FsBlock : fs'[x] = promised[x]) => Owes(fs, promised, txn.writes, Owed)'
        /\ promised' = [x \in FsBlock |-> promised'[x]]
    BY <1>1, CutOff
  <2> QED
    BY <1>1, <1>2, <2>1 DEF CommitInv, PromiseKept, is_clean
<1> QED
  BY <1>3, <1>4, <1>5, <1>6 DEF CommitInv

LEMMA KilledHolds == ASSUME CommitInv, Killed PROVE CommitInv'
<1>1. /\ ProcessCrash \/ TornWrite \/ TornCommit
      /\ torn' = (torn \/ HalfInPlace) /\ todo' = <<>> /\ txn' = Idle
      /\ UNCHANGED <<marks, write_head, next_sequence, promised, valid, synced>>
  BY DEF Killed, WriterGone
<1>2. /\ UNCHANGED <<jsb, stable, journal, locals, image>>
      /\ phase' = "down" /\ applied' = 0 /\ crashes' = crashes + 1 /\ crashes < MaxCrashes
  BY <1>1 DEF ProcessCrash, TornWrite, TornCommit, Restart
<1>3. /\ log' \in {log, [log EXCEPT ![write_head] = Blank]}
      /\ fs' \in {fs, [fs EXCEPT ![Head(todo).write.blk] = Junk], [fs EXCEPT ![Head(pending).blk] = Junk]}
      /\ fs' = fs \/ HalfInPlace \/ phase = "apply"
  <2>1. CASE ProcessCrash
    BY <2>1 DEF ProcessCrash, Restart
  <2>2. CASE TornWrite
    BY <2>2 DEF TornWrite, Restart
  <2>3. CASE TornCommit
    <3>1. Head(todo).area \in {"log", "store"}
      BY <2>3, NextWriteKind DEF TornCommit
    <3> QED
      BY <2>3, <3>1 DEF TornCommit, HalfInPlace
  <2> QED
    BY <1>1, <2>1, <2>2, <2>3
<1>4. CommitTyped'
  <2>1. log' \in [JBlock -> Entry]
    BY <1>3, BlankTyped DEF CommitInv, CommitTyped
  <2>2. fs' \in [FsBlock -> Value]
    BY <1>3, BlankTyped DEF CommitInv, CommitTyped
  <2>3. torn' \in BOOLEAN /\ crashes' \in 0 .. MaxCrashes
    BY <1>1, <1>2, BoundAssumption DEF CommitInv, CommitTyped, HalfInPlace
  <2> QED
    BY <1>1, <1>2, <2>1, <2>2, <2>3, IdleTyped DEF CommitInv, CommitTyped, locals, Phase
<1>5. StepsInOrder'
  BY <1>1, CutOff
<1>6. FlagCleared' /\ CleanWhenMounted'
  BY <1>1, <1>2 DEF CommitInv, FlagCleared, CleanWhenMounted, is_clean
<1>7. PromiseKept'
  <2>1. /\ ~HalfInPlace /\ is_clean(jsb) /\ ~torn => \A x \in FsBlock : fs[x] = promised[x]
        /\ (\A x \in FsBlock : fs'[x] = promised[x]) => Owes(fs, promised, txn.writes, Owed)'
        /\ promised' = [x \in FsBlock |-> promised'[x]]
    BY <1>1, CutOff
  <2>2. phase = "apply" => ~is_clean(jsb)
    BY DEF CommitInv, CleanWhenMounted
  <2> QED
    BY <1>1, <1>2, <1>3, <2>1, <2>2 DEF CommitInv, PromiseKept, is_clean
<1> QED
  BY <1>4, <1>5, <1>6, <1>7 DEF CommitInv

LEMMA SurvivorsTyped ==
  ASSUME NEW new \in [FsBlock -> Value], NEW old \in [FsBlock -> Value]
  PROVE  Survivors(new, old) \subseteq [FsBlock -> Value]
BY BlankTyped DEF Survivors

LEMMA LosePowerHolds == ASSUME CommitInv, LosePower PROVE CommitInv'
<1>1. /\ fs' \in Survivors(fs, stable.fs) /\ jsb' \in {jsb, stable.jsb}
      /\ torn' = (torn \/ HalfInPlace
                    \/ IF is_clean(jsb') THEN fs' # fs ELSE promised # Overlay(image.fs, image.wal))
      /\ stable' = [fs |-> fs', jsb |-> jsb'] /\ synced' = [log |-> log', valid |-> valid']
      /\ crashes' = crashes + 1 /\ crashes < MaxCrashes /\ phase' = "down" /\ applied' = 0
      /\ todo' = <<>> /\ txn' = Idle
      /\ UNCHANGED <<marks, write_head, next_sequence, promised, journal, locals, image>>
  BY DEF LosePower, WriterGone
<1>2. CommitTyped'
  <2>1. log' \in [JBlock -> Entry]
    <3>1. PICK lost : log' = [j \in JBlock |-> IF j \in lost THEN synced.log[j] ELSE log[j]]
      BY DEF LosePower
    <3> QED
      BY <3>1 DEF CommitInv, CommitTyped
  <2>2. fs' \in [FsBlock -> Value]
    BY <1>1, SurvivorsTyped DEF CommitInv, CommitTyped
  <2>3. torn' \in BOOLEAN /\ crashes' \in 0 .. MaxCrashes
    BY <1>1, BoundAssumption DEF CommitInv, CommitTyped, HalfInPlace
  <2>4. jsb' \in JournalSb
    BY <1>1 DEF CommitInv, CommitTyped
  <2> QED
    BY <1>1, <2>1, <2>2, <2>3, <2>4, IdleTyped DEF CommitInv, CommitTyped, locals, Phase
<1>3. StepsInOrder'
  BY <1>1, CutOff
<1>4. FlagCleared' /\ CleanWhenMounted'
  BY <1>1 DEF FlagCleared, CleanWhenMounted, is_clean
<1>5. PromiseKept'
  <2>1. /\ ~HalfInPlace /\ is_clean(jsb) /\ ~torn => \A x \in FsBlock : fs[x] = promised[x]
        /\ (\A x \in FsBlock : fs'[x] = promised[x]) => Owes(fs, promised, txn.writes, Owed)'
        /\ promised' = [x \in FsBlock |-> promised'[x]]
    BY <1>1, CutOff
  <2>2. is_clean(jsb') => is_clean(jsb)
    BY <1>1 DEF CommitInv, CleanWhenMounted
  <2>3. ~torn' => ~torn /\ ~HalfInPlace
                  /\ (is_clean(jsb') => fs' = fs)
                  /\ (~is_clean(jsb') => promised = Overlay(image.fs, image.wal))
    BY <1>1
  <2> QED
    BY <1>1, <2>1, <2>2, <2>3 DEF PromiseKept, is_clean
<1> QED
  BY <1>2, <1>3, <1>4, <1>5 DEF CommitInv

LEMMA ForeignCrashHolds == ASSUME CommitInv, ForeignCrash PROVE CommitInv'
<1> DEFINE slot(j) == ((j - First) % (Total - First)) + 1
<1>1. PICK t \in Foreign :
        LET blocks == TransactionBlocks(t.revoked, t.writes, jsb.seq + 1, TRUE)
        IN  /\ log' = [j \in JBlock |-> IF slot(j) <= Len(blocks) THEN blocks[slot(j)] ELSE log[j]]
            /\ image' = [image EXCEPT !.fs = fs, !.log = log', !.wal = t.writes]
            /\ promised' = Overlay(fs, t.writes)
  BY DEF ForeignCrash
<1>2. /\ phase = "down" /\ is_clean(jsb)
      /\ jsb' = [jsb EXCEPT !.start = First, !.seq = jsb.seq + 1]
      /\ stable' = [fs |-> fs, jsb |-> jsb'] /\ synced' = [log |-> log', valid |-> valid]
      /\ torn' = FALSE
      /\ UNCHANGED <<fs, marks, phase, journal, locals, crashes, applied, write_head, next_sequence, txn,
                     todo, valid>>
  BY DEF ForeignCrash
<1>3. t.revoked \in SUBSET FsBlock /\ t.writes \in Seq(Write)
  BY CommitAssumption
<1> DEFINE blocks == TransactionBlocks(t.revoked, t.writes, jsb.seq + 1, TRUE)
<1>4. jsb.seq + 1 \in Nat /\ jsb \in JournalSb
  BY DEF CommitInv, CommitTyped, JournalSb
<1>5. blocks \in Seq(Entry)
  BY <1>3, <1>4, TransactionLayout
<1>6. \A q \in 1 .. Len(blocks) : blocks[q] \in Entry
  <2> HIDE DEF blocks, Entry
  <2> QED
    BY <1>5
<1>7. Len(blocks) \in Nat
  <2> HIDE DEF blocks, Entry
  <2> QED
    BY <1>5
<1>8. \A j \in JBlock : slot(j) \in Nat \ {0}
  <2> SUFFICES ASSUME NEW j \in JBlock
               PROVE  (j - First) % (Total - First) \in Nat
    OBVIOUS
  <2>1. Total - First \in Nat \ {0} /\ j - First \in Nat
    BY GeometryAssumption DEF JBlock
  <2> QED
    BY <2>1
<1>9. log' \in [JBlock -> Entry]
  <2>1. log' = [j \in JBlock |-> IF slot(j) <= Len(blocks) THEN blocks[slot(j)] ELSE log[j]]
    BY <1>1
  <2>2. log \in [JBlock -> Entry]
    BY DEF CommitInv, CommitTyped
  <2> HIDE DEF blocks, slot, Entry
  <2>3. \A j \in JBlock : slot(j) <= Len(blocks) => blocks[slot(j)] \in Entry
    BY <1>6, <1>7, <1>8
  <2> QED
    BY <2>1, <2>2, <2>3
<1>10. jsb' \in JournalSb /\ ~is_clean(jsb')
  <2>1. First \in JBlock /\ First # 0
    BY GeometryAssumption DEF JBlock
  <2> QED
    BY <1>2, <1>4, <2>1 DEF JournalSb, is_clean
<1>11. image'.wal = t.writes /\ image'.fs = fs /\ {"fs", "log", "wal"} \subseteq DOMAIN image'
  BY <1>1 DEF CommitInv, CommitTyped
<1>12. CommitTyped'
  BY <1>2, <1>3, <1>9, <1>10, <1>11 DEF CommitInv, CommitTyped, locals
<1>13. StepsInOrder'
  BY <1>2, StepsFrame DEF CommitInv, StepsInOrder
<1>14. FlagCleared' /\ CleanWhenMounted'
  BY <1>2, <1>10 DEF CommitInv, FlagCleared, CleanWhenMounted, is_clean
<1>15. PromiseKept'
  <2>1. promised' = Overlay(fs, t.writes) /\ promised' = Overlay(image'.fs, image'.wal)
    BY <1>1, <1>11
  <2>2. promised' = [x \in FsBlock |-> promised'[x]]
    BY <2>1 DEF Overlay
  <2> QED
    BY <1>10, <2>1, <2>2 DEF PromiseKept
<1> QED
  BY <1>12, <1>13, <1>14, <1>15 DEF CommitInv

-----------------------------------------------------------------------------
(* The invariant and what follows from it. *)

LEMMA CommitStep == CommitInv /\ [CommitNext]_allvars => CommitInv'
<1> SUFFICES ASSUME CommitInv, [CommitNext]_allvars
             PROVE  CommitInv'
  OBVIOUS
<1>1. CASE Lifecycle
  BY <1>1, MountingHolds, FlagsHold DEF Lifecycle
<1>2. CASE Committing
  BY <1>2, BeginHolds, LogWriteHolds, StoreWriteHolds, EndCommitHolds, FailedCommitHolds, FlagsHold
     DEF Committing
<1>3. CASE Killed \/ LosePower \/ ForeignCrash
  BY <1>3, KilledHolds, LosePowerHolds, ForeignCrashHolds
<1>4. CASE UNCHANGED allvars
  <2>1. UNCHANGED <<vars, write_head, next_sequence, txn, todo, marks, valid, synced, promised, torn>>
    BY <1>4 DEF allvars, wvars
  <2>2. CommitTyped'
    BY <2>1 DEF vars, CommitInv, CommitTyped
  <2>3. StepsInOrder'
    BY <2>1, StepsFrame DEF vars, CommitInv, StepsInOrder
  <2>4. FlagCleared' /\ CleanWhenMounted'
    BY <2>1 DEF vars, CommitInv, FlagCleared, CleanWhenMounted, is_clean
  <2>5. PromiseKept'
    BY <2>1, PromiseFrame DEF vars, CommitInv
  <2> QED
    BY <2>2, <2>3, <2>4, <2>5 DEF CommitInv
<1> QED
  BY <1>1, <1>2, <1>3, <1>4 DEF CommitNext

\* Whatever the interleaving of commits with device errors, crashes, power
\* losses and other users of the journal, the store holds what the commit
\* blocks promise, but for the writes the commit still owes.
THEOREM CommitInvariant == CommitSpec => []CommitInv
<1>1. CommitInit => CommitInv
  BY CommitInitHolds
<1>2. CommitInv /\ [CommitNext]_allvars => CommitInv'
  BY CommitStep
<1> QED
  BY <1>1, <1>2, PTL DEF CommitSpec

\* Every variable of the write side keeps its type, the head stays in the log
\* and only journal blocks are queued for it (commit(), write_to_journal).
THEOREM CommitTypeCorrect == CommitSpec => []CommitTypeOK
<1>1. CommitInv => CommitTypeOK
  <2> SUFFICES ASSUME CommitInv
               PROVE  CommitTypeOK
    OBVIOUS
  <2>1. todo \in Seq(DeviceWrite)
    BY DEF CommitInv, CommitTyped
  <2>2. \A i \in DOMAIN todo : todo[i] \in DeviceWrite
    <3> HIDE DEF DeviceWrite
    <3> QED
      BY <2>1
  <2>3. \A i \in DOMAIN todo : todo[i].area = "log" => todo[i].entry \in Entry
    BY <2>2 DEF DeviceWrite
  <2> QED
    BY <2>3 DEF CommitInv, CommitTyped, CommitTypeOK
<1> QED
  BY <1>1, CommitInvariant, PTL

\* Between commits the store is the one the commit blocks promise, short of a
\* tear: a transaction without a commit block leaves no trace (commit()).
THEOREM CommittedInPlaceTheorem == CommitSpec => []CommittedInPlace
<1>1. CommitInv => CommittedInPlace
  <2> SUFFICES ASSUME CommitInv, phase = "rw", ~txn.busy, ~torn
               PROVE  fs = promised
    BY DEF CommittedInPlace
  <2>1. is_clean(jsb)
    BY DEF CommitInv, CleanWhenMounted
  <2>2. \A x \in FsBlock : fs[x] = promised[x]
    BY <2>1, NothingInFlight
  <2>3. fs = [x \in FsBlock |-> fs[x]] /\ promised = [x \in FsBlock |-> promised[x]]
    BY DEF CommitInv, CommitTyped, PromiseKept
  <2> QED
    BY <2>2, <2>3
<1> QED
  BY <1>1, CommitInvariant, PTL

\* No commit is torn under Ext4FsRw on a volume that says VALID_FS (open_rw).
THEOREM TearIsFlaggedTheorem == CommitSpec => TearIsFlagged
<1>1. CommitInv /\ [CommitNext]_allvars => [(torn' /\ ~torn /\ phase = "rw" /\ marks) => ~valid']_allvars
  <2> SUFFICES ASSUME CommitInv, CommitNext, torn', ~torn, phase = "rw", marks
               PROVE  ~valid'
    OBVIOUS
  <2>1. ~valid /\ ~synced.valid
    BY DEF CommitInv, FlagCleared
  <2>2. CASE Lifecycle
    BY <2>1, <2>2 DEF Lifecycle, Mounting, SetDirtyFlag, FlushDirtyFlag, StartHost, Unmount,
       FlushValidFlag
  <2>3. CASE Committing
    BY <2>1, <2>3 DEF Committing, begin_commit, LogWrite, StoreWrite, EndCommit, FailedCommit, UserFlush
  <2>4. CASE Killed \/ LosePower \/ ForeignCrash
    BY <2>1, <2>4 DEF Killed, LosePower, ForeignCrash
  <2> QED
    BY <2>2, <2>3, <2>4 DEF CommitNext
<1> QED
  BY <1>1, CommitInvariant, PTL DEF CommitSpec, TearIsFlagged

-----------------------------------------------------------------------------
(* The log behind the writer's head.  Positions in it are counted without  *)
(* the wrap: position p is journal block AdvanceBy(First, p), and one lap  *)
(* is Lap positions.                                                       *)

Lap == Total - First

\* What the theorems on the log suppose: no block of a transaction starts with
\* the journal's magic number, and a revoke block, a descriptor with all its
\* data and a commit block fit into the log.
NothingToEscape == \A t \in Transactions : \A i \in DOMAIN t.writes : t.writes[i].val # Magic
LogLargeEnough  == MaxTags + 3 <= Lap

Blocks(t) == TransactionBlocks(t.revoked, t.writes, t.seq, FALSE)

\* t can be logged: it fits into one descriptor and has nothing to escape.
Loggable(t) == t \in InFlight /\ Fits(t) /\ \A i \in DOMAIN t.writes : t.writes[i].val # Magic

\* The log lg holds the first n log blocks of t, from position p on.
LoggedAt(lg, t, p, n) ==
  t.at = AdvanceBy(First, p) /\ \A q \in 1 .. n : lg[AdvanceBy(First, p + q - 1)] = Blocks(t)[q]

\* rc is an unbroken run of commits in lg: commit i starts at pos[i], and the
\* last one ends at pos[Len(rc) + 1].
RunOfCommits(lg, rc, pos) ==
  /\ rc \in Seq(InFlight) /\ pos \in [1 .. Len(rc) + 1 -> Nat]
  /\ \A i \in 1 .. Len(rc) : /\ Loggable(rc[i]) /\ LoggedAt(lg, rc[i], pos[i], LogLength(rc[i]))
                             /\ pos[i + 1] = pos[i] + LogLength(rc[i])
  /\ \A i \in 1 .. (Len(rc) - 1) : rc[i + 1].seq = rc[i].seq + 1
  /\ \A i, k \in 1 .. Len(rc) + 1 : i <= k => pos[i] <= pos[k]

\* How many of its log blocks the commit has written.
LogIssued == IF Fits(txn) /\ Issued > LogLength(txn) THEN LogLength(txn) ELSE Issued

\* The head is at position h, at most a lap in front of the oldest commit of
\* the run; what it has written since the youngest is the commit under way.
HeadBehind(pos, h) ==
  LET n == Len(recent) IN
    /\ h \in Nat /\ write_head = AdvanceBy(First, h) /\ h <= pos[1] + Lap
    /\ recent # <<>> => recent[n].seq + 1 = next_sequence
    /\ h = pos[n + 1] + (IF txn.busy THEN LogIssued ELSE 0)
    /\ txn.busy => txn.seq = next_sequence
    /\ txn.busy /\ Fits(txn) => Loggable(txn) /\ LoggedAt(log, txn, pos[n + 1], LogIssued)

RunInLog ==
  \E pos \in [1 .. Len(recent) + 1 -> Nat] :
    RunOfCommits(log, recent, pos) /\ (phase = "rw" => \E h \in Nat : HeadBehind(pos, h))

-----------------------------------------------------------------------------
(* Positions. *)

LEMMA DivisionHolds ==
  ASSUME NEW n \in Nat \ {0}, NEW x \in Nat
  PROVE  x = n * (x \div n) + (x % n) /\ x % n \in 0 .. (n - 1) /\ x \div n \in Int
OBVIOUS

\* Two positions less than a lap apart are that far apart in the circle, and a
\* lap leads back.
LEMMA Distance ==
  ASSUME NEW p \in Nat, NEW h \in Nat
  PROVE  /\ p <= h /\ h < p + Lap => (AdvanceBy(First, h) - AdvanceBy(First, p)) % Lap = h - p
         /\ h = p + Lap => (AdvanceBy(First, h) - AdvanceBy(First, p)) % Lap = 0
         /\ AdvanceBy(First, h) \in JBlock
<1> DEFINE N == Lap
           a == h % N
           b == p % N
           qa == h \div N
           qb == p \div N
<1>1. N \in Nat \ {0} /\ First \in Nat \ {0} /\ N = Total - First
  BY GeometryAssumption DEF Lap
<1>2. AdvanceBy(First, h) = First + a /\ AdvanceBy(First, p) = First + b
  <2>1. First - First + h = h /\ First - First + p = p
    BY <1>1
  <2> QED
    BY <2>1 DEF AdvanceBy, Lap
<1> HIDE DEF N
<1>3. h = N * qa + a /\ p = N * qb + b /\ a \in 0 .. (N - 1) /\ b \in 0 .. (N - 1) /\ qa \in Int /\ qb \in Int
  BY <1>1, DivisionHolds
<1> HIDE DEF a, b, qa, qb
<1>4. (First + a) - (First + b) = N * (qb - qa) + (h - p) /\ qb - qa \in Int
  BY <1>1, <1>3
<1>5. ASSUME p <= h, h < p + N
      PROVE  ((First + a) - (First + b)) % N = h - p
  <2>1. h - p \in 0 .. (N - 1)
    BY <1>1, <1>5
  <2> QED
    BY <1>1, <1>4, <2>1, ModuloOfSum
<1>6. ASSUME h = p + N
      PROVE  ((First + a) - (First + b)) % N = 0
  <2>1. (First + a) - (First + b) = N * (qb - qa + 1) + 0 /\ qb - qa + 1 \in Int /\ 0 \in 0 .. (N - 1)
    BY <1>1, <1>4, <1>6
  <2> QED
    BY <1>1, <2>1, ModuloOfSum
<1>7. First + a \in JBlock
  BY <1>1, <1>3, GeometryAssumption DEF JBlock
<1> QED
  BY <1>2, <1>5, <1>6, <1>7 DEF N

LEMMA SlotsDiffer ==
  ASSUME NEW p \in Nat, NEW h \in Nat, p < h, h < p + Lap
  PROVE  AdvanceBy(First, p) # AdvanceBy(First, h)
<1>1. Lap \in Nat \ {0} /\ First \in Nat
  BY GeometryAssumption DEF Lap
<1>2. (AdvanceBy(First, h) - AdvanceBy(First, p)) % Lap = h - p /\ h - p # 0
  BY <1>1, Distance
<1>3. AdvanceBy(First, p) \in Nat
  BY Distance, GeometryAssumption DEF JBlock
<1>4. (AdvanceBy(First, p) - AdvanceBy(First, p)) % Lap = 0
  <2>1. AdvanceBy(First, p) - AdvanceBy(First, p) = 0
    BY <1>3
  <2> QED
    BY <1>1, <2>1
<1> QED
  BY <1>2, <1>4

LEMMA PositionOf ==
  ASSUME NEW j \in JBlock
  PROVE  j - First \in Nat /\ AdvanceBy(First, j - First) = j
<1>1. First \in Nat /\ Total - First \in Nat \ {0} /\ j - First \in 0 .. (Total - First - 1)
  BY GeometryAssumption DEF JBlock
<1>2. First - First + (j - First) = (Total - First) * 0 + (j - First)
  BY <1>1 DEF JBlock
<1>3. ((Total - First) * 0 + (j - First)) % (Total - First) = j - First
  BY <1>1, ModuloOfSum
<1> QED
  BY <1>1, <1>2, <1>3 DEF AdvanceBy, JBlock

LEMMA NextPosition ==
  ASSUME NEW h \in Nat
  PROVE  advance_jblock(AdvanceBy(First, h)) = AdvanceBy(First, h + 1)
<1>1. First \in JBlock
  BY GeometryAssumption DEF JBlock
<1> QED
  BY <1>1, AdvanceByStep

-----------------------------------------------------------------------------
(* Runs of commits. *)

LEMMA BlocksLogged ==
  ASSUME NEW t, Loggable(t)
  PROVE  /\ t.writes \in Seq(Write) /\ t.revoked \in SUBSET FsBlock /\ t.seq \in Nat /\ t.at \in JBlock
         /\ LogLength(t) \in Nat \ {0} /\ LogLength(t) <= MaxTags + 3
         /\ DOMAIN Blocks(t) = 1 .. LogLength(t)
<1> DEFINE w == t.writes
           r == t.revoked
           s == t.seq
<1>1. w \in Seq(Write) /\ r \in SUBSET FsBlock /\ s \in Nat /\ t.at \in JBlock
  BY DEF Loggable, InFlight
<1>2. /\ LogLength(t) = BlockCount(r, w) /\ LogLength(t) \in Nat \ {0} /\ Len(w) \in Nat
  BY <1>1, StepsOfCommit DEF Loggable
<1>3. Len(w) <= MaxTags /\ MaxTags \in Nat
  BY CommitAssumption DEF Loggable, Fits
<1>4. Blocks(t) \in Seq(Entry)
  BY <1>1, BlocksOfCommit DEF Blocks
<1>5. DOMAIN Blocks(t) = 1 .. Len(Blocks(t))
  <2> DEFINE bs == Blocks(t)
  <2>1. bs \in Seq(Entry)
    BY <1>4
  <2> HIDE DEF bs, Entry
  <2>2. DOMAIN bs = 1 .. Len(bs)
    BY <2>1
  <2> QED
    BY <2>2 DEF bs
<1> HIDE DEF w, r
<1>6. BlockCount(r, w) <= MaxTags + 3
  BY <1>2, <1>3 DEF BlockCount, DescriptorOffset
<1> QED
  BY <1>1, <1>2, <1>5, <1>6 DEF LogLength, Blocks, w, r

\* A log that holds t reads back as t.
LEMMA LoggedReadsBack ==
  ASSUME log \in [JBlock -> Entry], NEW t, Loggable(t), NEW p \in Nat, LoggedAt(log, t, p, LogLength(t))
  PROVE  ReadsBack(t)
<1> DEFINE w == t.writes
           r == t.revoked
           s == t.seq
           j == t.at
           bs == TransactionBlocks(r, w, s, FALSE)
<1>1. w \in Seq(Write) /\ r \in SUBSET FsBlock /\ s \in Nat /\ j \in JBlock /\ DOMAIN bs = 1 .. LogLength(t)
      /\ LogLength(t) \in Nat
  BY BlocksLogged DEF Blocks
<1>2. \A i \in DOMAIN w : w[i].val # Magic
  BY DEF Loggable
<1>3. j = AdvanceBy(First, p) /\ \A q \in 1 .. LogLength(t) : log[AdvanceBy(First, p + q - 1)] = bs[q]
  BY DEF LoggedAt, Blocks
<1> HIDE DEF w, r, s, j
<1>4. ASSUME NEW k \in DOMAIN bs
      PROVE  log[AdvanceBy(j, k - 1)] = bs[k]
  <2>1. k \in 1 .. LogLength(t) /\ k - 1 \in Nat
    <3> DEFINE n == LogLength(t)
    <3>1. k \in 1 .. n /\ n \in Nat
      BY <1>1
    <3> HIDE DEF n
    <3>2. k - 1 \in Nat
      BY <3>1
    <3> QED
      BY <3>1, <3>2 DEF n
  <2>2. First \in JBlock
    BY GeometryAssumption DEF JBlock
  <2>3. AdvanceBy(AdvanceBy(First, p), k - 1) = AdvanceBy(First, p + (k - 1))
    BY <2>1, <2>2, AdvanceFurther
  <2> QED
    BY <1>3, <2>1, <2>3
<1>5. Found(log, j, r, w, s, AdvanceBy(j, Len(bs)))
  BY <1>1, <1>2, <1>4, ReadBack
<1> HIDE DEF bs
<1>6. LET d == IF r = {} THEN j ELSE advance_jblock(j)
      IN  /\ r # {} => HasHeader(log[j], "revoke", s) /\ log[j].blks = r
          /\ IF w = <<>> THEN HasHeader(log[d], "commit", s)
             ELSE IsCommitted(d, s) /\ parse_descriptor_block(log, d) = w
  BY <1>5 DEF Found, IsCommitted
<1> QED
  BY <1>6 DEF ReadsBack, w, r, s, j

\* A block written at position h does not touch what lies behind h and less
\* than a lap away.
LEMMA LoggedAtKept ==
  ASSUME NEW lg \in [JBlock -> Entry], NEW x, NEW t, NEW p \in Nat, NEW n \in Nat, NEW h \in Nat,
         LoggedAt(lg, t, p, n), p + n <= h, h < p + Lap
  PROVE  LoggedAt([lg EXCEPT ![AdvanceBy(First, h)] = x], t, p, n)
<1> SUFFICES ASSUME NEW q \in 1 .. n
             PROVE  [lg EXCEPT ![AdvanceBy(First, h)] = x][AdvanceBy(First, p + q - 1)] = Blocks(t)[q]
  BY DEF LoggedAt
<1> DEFINE m == p + q - 1
<1>1. m \in Nat /\ m < h /\ h < m + Lap
  BY GeometryAssumption DEF Lap
<1> HIDE DEF m
<1>2. AdvanceBy(First, m) # AdvanceBy(First, h) /\ AdvanceBy(First, m) \in JBlock
  BY <1>1, SlotsDiffer, Distance
<1>3. lg[AdvanceBy(First, m)] = Blocks(t)[q]
  BY DEF LoggedAt, m
<1>4. [lg EXCEPT ![AdvanceBy(First, h)] = x][AdvanceBy(First, m)] = lg[AdvanceBy(First, m)]
  <2> HIDE DEF Entry
  <2> QED
    BY <1>2
<1> QED
  BY <1>3, <1>4 DEF m

LEMMA RunTyped ==
  ASSUME NEW lg, NEW rc, NEW pos, RunOfCommits(lg, rc, pos)
  PROVE  /\ Len(rc) \in Nat /\ \A i \in 1 .. Len(rc) + 1 : pos[i] \in Nat
         /\ \A i \in 1 .. Len(rc) : LogLength(rc[i]) \in Nat \ {0}
         /\ rc = <<>> <=> Len(rc) = 0
<1>1. rc \in Seq(InFlight) /\ pos \in [1 .. Len(rc) + 1 -> Nat]
  BY DEF RunOfCommits
<1>2. Len(rc) \in Nat /\ (rc = <<>> <=> Len(rc) = 0)
  <2> HIDE DEF InFlight
  <2> QED
    BY <1>1, EmptySeq
<1>3. \A i \in 1 .. Len(rc) : Loggable(rc[i])
  BY DEF RunOfCommits
<1> QED
  BY <1>1, <1>2, <1>3, BlocksLogged

LEMMA RunKept ==
  ASSUME NEW lg \in [JBlock -> Entry], NEW x, NEW rc, NEW pos, RunOfCommits(lg, rc, pos),
         NEW h \in Nat, pos[Len(rc) + 1] <= h, h < pos[1] + Lap
  PROVE  RunOfCommits([lg EXCEPT ![AdvanceBy(First, h)] = x], rc, pos)
<1> DEFINE new == [lg EXCEPT ![AdvanceBy(First, h)] = x]
<1>1. ASSUME NEW i \in 1 .. Len(rc)
      PROVE  LoggedAt(new, rc[i], pos[i], LogLength(rc[i]))
  <2> DEFINE p == pos[i]
             n == LogLength(rc[i])
  <2>1. /\ Len(rc) \in Nat /\ n \in Nat /\ p \in Nat /\ pos[1] \in Nat /\ pos[Len(rc) + 1] \in Nat
        /\ pos[i + 1] \in Nat
    BY RunTyped
  <2>2. LoggedAt(lg, rc[i], p, n) /\ pos[i + 1] = p + n
    BY DEF RunOfCommits
  <2>3. pos[i + 1] <= pos[Len(rc) + 1] /\ pos[1] <= pos[i]
    <3>1. /\ {1, i, i + 1, Len(rc) + 1} \subseteq 1 .. Len(rc) + 1
          /\ 1 <= i /\ i + 1 <= Len(rc) + 1
      BY <2>1
    <3> QED
      BY <3>1 DEF RunOfCommits
  <2>4. p + n <= h /\ h < p + Lap
    BY <2>1, <2>2, <2>3, GeometryAssumption DEF Lap
  <2> HIDE DEF p, n
  <2>5. LoggedAt(new, rc[i], p, n)
    BY <2>1, <2>2, <2>4, LoggedAtKept
  <2> QED
    BY <2>5 DEF p, n
<1> HIDE DEF new
<1>2. RunOfCommits(new, rc, pos)
  BY <1>1 DEF RunOfCommits
<1> QED
  BY <1>2 DEF new

LEMMA RunEmpty ==
  ASSUME NEW lg, NEW p \in Nat
  PROVE  /\ RunOfCommits(lg, <<>>, [i \in 1 .. 1 |-> p])
         /\ [i \in 1 .. 1 |-> p] \in [1 .. Len(<<>>) + 1 -> Nat]
<1> DEFINE none == <<>>
           pos == [i \in 1 .. 1 |-> p]
<1>1. none \in Seq(InFlight) /\ Len(none) = 0 /\ Len(none) + 1 = 1
  OBVIOUS
<1>2. pos \in [1 .. 1 -> Nat] /\ pos[1] = p
  OBVIOUS
<1> HIDE DEF none, pos
<1>3. \A i \in 1 .. 0 : FALSE
  OBVIOUS
<1>4. RunOfCommits(lg, none, pos)
  BY <1>1, <1>2, <1>3 DEF RunOfCommits
<1> QED
  BY <1>1, <1>2, <1>4 DEF none, pos

\* The run without its oldest commit.
TailOf(pos, n) == [i \in 1 .. n |-> pos[i + 1]]

LEMMA RunTail ==
  ASSUME NEW lg, NEW rc, NEW pos, RunOfCommits(lg, rc, pos), rc # <<>>
  PROVE  /\ RunOfCommits(lg, Tail(rc), TailOf(pos, Len(rc)))
         /\ Len(Tail(rc)) = Len(rc) - 1 /\ Len(rc) \in Nat \ {0}
         /\ TailOf(pos, Len(rc)) \in [1 .. Len(Tail(rc)) + 1 -> Nat]
         /\ Tail(rc) # <<>> => Tail(rc)[Len(rc) - 1] = rc[Len(rc)]
<1> DEFINE n == Len(rc)
           tl == Tail(rc)
           tp == TailOf(pos, n)
<1>1. /\ n \in Nat \ {0} /\ rc \in Seq(InFlight) /\ pos \in [1 .. n + 1 -> Nat]
  BY RunTyped DEF RunOfCommits
<1>2. tl \in Seq(InFlight) /\ Len(tl) = n - 1 /\ \A i \in 1 .. Len(tl) : tl[i] = rc[i + 1]
  <2> HIDE DEF InFlight
  <2> QED
    BY <1>1, HeadTailProperties
<1>3. /\ tp \in [1 .. n -> Nat] /\ \A i \in 1 .. n : tp[i] = pos[i + 1] /\ Len(tl) + 1 = n
  <2>1. \A i \in 1 .. n : pos[i + 1] \in Nat
    BY <1>1
  <2> HIDE DEF n, tl
  <2>2. Len(tl) + 1 = n
    BY <1>1, <1>2
  <2> QED
    BY <2>1, <2>2 DEF TailOf
<1>4. /\ \A i \in 1 .. n : /\ Loggable(rc[i]) /\ LoggedAt(lg, rc[i], pos[i], LogLength(rc[i]))
                           /\ pos[i + 1] = pos[i] + LogLength(rc[i])
      /\ \A i \in 1 .. (n - 1) : rc[i + 1].seq = rc[i].seq + 1
      /\ \A i, k \in 1 .. n + 1 : i <= k => pos[i] <= pos[k]
  BY DEF RunOfCommits
<1> HIDE DEF n, tl, tp
<1>5. ASSUME NEW i \in 1 .. Len(tl)
      PROVE  /\ Loggable(tl[i]) /\ LoggedAt(lg, tl[i], tp[i], LogLength(tl[i]))
             /\ tp[i + 1] = tp[i] + LogLength(tl[i])
  <2> DEFINE m == i + 1
  <2>1. m \in 1 .. n /\ i \in 1 .. n
    BY <1>1, <1>2
  <2>2. tl[i] = rc[m] /\ tp[i] = pos[m] /\ tp[m] = pos[m + 1]
    BY <1>2, <1>3, <2>1
  <2> HIDE DEF m
  <2>3. Loggable(rc[m]) /\ LoggedAt(lg, rc[m], pos[m], LogLength(rc[m])) /\ pos[m + 1] = pos[m] + LogLength(rc[m])
    BY <1>4, <2>1
  <2>4. tp[m] = tp[i] + LogLength(tl[i])
    BY <2>2, <2>3
  <2> QED
    BY <2>2, <2>3, <2>4 DEF m
<1>6. ASSUME NEW i \in 1 .. (Len(tl) - 1)
      PROVE  tl[i + 1].seq = tl[i].seq + 1
  <2> DEFINE m == i + 1
  <2>1. m \in 1 .. (n - 1) /\ i \in 1 .. Len(tl) /\ m \in 1 .. Len(tl)
    BY <1>1, <1>2
  <2>2. tl[i] = rc[m] /\ tl[m] = rc[m + 1]
    BY <1>2, <2>1
  <2> HIDE DEF m
  <2>3. rc[m + 1].seq = rc[m].seq + 1
    BY <1>4, <2>1
  <2>4. tl[m].seq = tl[i].seq + 1
    BY <2>2, <2>3
  <2> QED
    BY <2>4 DEF m
<1>7. ASSUME NEW i \in 1 .. Len(tl) + 1, NEW k \in 1 .. Len(tl) + 1, i <= k
      PROVE  tp[i] <= tp[k]
  <2>1. i \in 1 .. n /\ k \in 1 .. n /\ i + 1 \in 1 .. n + 1 /\ k + 1 \in 1 .. n + 1 /\ i + 1 <= k + 1
    BY <1>1, <1>2, <1>7
  <2>2. pos[i + 1] <= pos[k + 1]
    BY <1>4, <2>1
  <2> QED
    BY <1>3, <2>1, <2>2
<1>8. tp \in [1 .. Len(tl) + 1 -> Nat]
  BY <1>1, <1>3
<1>9. RunOfCommits(lg, tl, tp)
  BY <1>2, <1>5, <1>6, <1>7, <1>8 DEF RunOfCommits
<1>10. tl # <<>> => tl[n - 1] = rc[n]
  <2> SUFFICES ASSUME tl # <<>>
               PROVE  tl[n - 1] = rc[n]
    OBVIOUS
  <2>1. Len(tl) \in Nat \ {0}
    <3> HIDE DEF InFlight
    <3> QED
      BY <1>2, EmptySeq
  <2> DEFINE i == n - 1
  <2>2. i \in 1 .. Len(tl) /\ i + 1 = n
    BY <1>1, <1>2, <2>1
  <2> HIDE DEF i
  <2>3. tl[i] = rc[n]
    BY <1>2, <2>2
  <2> QED
    BY <2>3 DEF i
<1> QED
  BY <1>1, <1>2, <1>8, <1>9, <1>10 DEF n, tl, tp

\* The run with a commit added.
Extended(pos, n, l) == [i \in 1 .. n + 2 |-> IF i <= n + 1 THEN pos[i] ELSE pos[n + 1] + l]

LEMMA RunAppend ==
  ASSUME NEW lg, NEW rc, NEW pos, RunOfCommits(lg, rc, pos), NEW t, Loggable(t),
         LoggedAt(lg, t, pos[Len(rc) + 1], LogLength(t)),
         rc # <<>> => t.seq = rc[Len(rc)].seq + 1
  PROVE  /\ RunOfCommits(lg, Append(rc, t), Extended(pos, Len(rc), LogLength(t)))
         /\ Extended(pos, Len(rc), LogLength(t)) \in [1 .. Len(Append(rc, t)) + 1 -> Nat]
         /\ Len(Append(rc, t)) = Len(rc) + 1 /\ Append(rc, t)[Len(rc) + 1] = t
         /\ Append(rc, t) # <<>>
<1> DEFINE n == Len(rc)
           l == LogLength(t)
           ap == Append(rc, t)
           ep == Extended(pos, n, l)
<1>1. /\ n \in Nat /\ rc \in Seq(InFlight) /\ pos \in [1 .. n + 1 -> Nat] /\ (rc = <<>> <=> n = 0)
      /\ \A i \in 1 .. n + 1 : pos[i] \in Nat
      /\ \A i \in 1 .. n : /\ Loggable(rc[i]) /\ LoggedAt(lg, rc[i], pos[i], LogLength(rc[i]))
                           /\ pos[i + 1] = pos[i] + LogLength(rc[i])
      /\ \A i \in 1 .. (n - 1) : rc[i + 1].seq = rc[i].seq + 1
      /\ \A i, k \in 1 .. n + 1 : i <= k => pos[i] <= pos[k]
  BY RunTyped DEF RunOfCommits
<1>2. t \in InFlight /\ l \in Nat \ {0}
  BY BlocksLogged DEF Loggable
<1>3. /\ ap \in Seq(InFlight) /\ Len(ap) = n + 1 /\ ap[n + 1] = t /\ ap # <<>>
      /\ \A i \in 1 .. n : ap[i] = rc[i]
  <2> HIDE DEF InFlight
  <2>1. /\ ap \in Seq(InFlight) /\ Len(ap) = n + 1 /\ ap[n + 1] = t
        /\ \A i \in 1 .. n : ap[i] = rc[i]
    BY <1>1, <1>2, AppendProperties
  <2> QED
    BY <1>1, <1>2, <2>1, AppendProperties
<1>4. /\ ep \in [1 .. n + 2 -> Nat] /\ ep[n + 2] = pos[n + 1] + l
      /\ \A i \in 1 .. n + 1 : ep[i] = pos[i]
  <2> HIDE DEF n, l
  <2>1. \A i \in 1 .. n + 2 : (IF i <= n + 1 THEN pos[i] ELSE pos[n + 1] + l) \in Nat
    BY <1>1, <1>2
  <2> QED
    BY <1>1, <2>1 DEF Extended
<1> HIDE DEF n, l, ap, ep
<1>5. ASSUME NEW i \in 1 .. n + 1
      PROVE  /\ Loggable(ap[i]) /\ LoggedAt(lg, ap[i], ep[i], LogLength(ap[i]))
             /\ ep[i + 1] = ep[i] + LogLength(ap[i])
  <2>1. CASE i = n + 1
    <3>1. ap[i] = t /\ ep[i] = pos[n + 1] /\ ep[i + 1] = pos[n + 1] + l
      <4>1. i + 1 = n + 2
        BY <1>1, <2>1
      <4> QED
        BY <1>3, <1>4, <2>1, <4>1
    <3> QED
      BY <2>1, <3>1 DEF n, l
  <2>2. CASE i # n + 1
    <3>1. i \in 1 .. n /\ i + 1 \in 1 .. n + 1
      BY <1>1, <2>2
    <3>2. ap[i] = rc[i] /\ ep[i] = pos[i] /\ ep[i + 1] = pos[i + 1]
      BY <1>3, <1>4, <3>1
    <3> QED
      BY <1>1, <3>1, <3>2
  <2> QED
    BY <2>1, <2>2
<1>6. ASSUME NEW i \in 1 .. n
      PROVE  ap[i + 1].seq = ap[i].seq + 1
  <2>1. ap[i] = rc[i]
    BY <1>3
  <2>2. CASE i = n
    BY <1>1, <1>3, <2>1, <2>2 DEF n
  <2>3. CASE i # n
    <3>1. i \in 1 .. (n - 1) /\ i + 1 \in 1 .. n
      BY <1>1, <2>3
    <3>2. rc[i + 1].seq = rc[i].seq + 1
      BY <1>1, <3>1
    <3> QED
      BY <1>3, <2>1, <3>1, <3>2
  <2> QED
    BY <2>2, <2>3
<1>7. ASSUME NEW i \in 1 .. n + 2, NEW k \in 1 .. n + 2, i <= k
      PROVE  ep[i] <= ep[k]
  <2>1. CASE k <= n + 1
    <3>1. i \in 1 .. n + 1 /\ k \in 1 .. n + 1
      BY <1>1, <1>7, <2>1
    <3> QED
      BY <1>1, <1>4, <1>7, <3>1
  <2>2. CASE k = n + 2 /\ i <= n + 1
    <3>1. i \in 1 .. n + 1 /\ n + 1 \in 1 .. n + 1
      BY <1>1, <2>2
    <3>2. pos[i] <= pos[n + 1]
      BY <1>1, <3>1
    <3> QED
      BY <1>1, <1>2, <1>4, <2>2, <3>1, <3>2
  <2>3. CASE k = n + 2 /\ i = n + 2
    <3>1. ep[k] \in Nat /\ ep[i] = ep[k]
      BY <1>4, <2>3
    <3> QED
      BY <3>1
  <2> QED
    BY <1>1, <1>7, <2>1, <2>2, <2>3
<1>8. Len(ap) + 1 = n + 2 /\ Len(ap) - 1 = n
  BY <1>1, <1>3
<1>9. RunOfCommits(lg, ap, ep)
  BY <1>3, <1>4, <1>5, <1>6, <1>7, <1>8 DEF RunOfCommits
<1> QED
  BY <1>3, <1>4, <1>8, <1>9 DEF n, l, ap, ep

-----------------------------------------------------------------------------
(* The run of commits behind the head is an invariant. *)

LEMMA RunFrame ==
  ASSUME RunInLog, UNCHANGED <<log, recent>>,
         phase' # "rw" \/ (phase = "rw" /\ UNCHANGED <<write_head, next_sequence, txn, todo>>)
  PROVE  RunInLog'
<1>1. PICK pos \in [1 .. Len(recent) + 1 -> Nat] :
        RunOfCommits(log, recent, pos) /\ (phase = "rw" => \E h \in Nat : HeadBehind(pos, h))
  BY DEF RunInLog
<1>2. RunOfCommits(log', recent', pos) /\ pos \in [1 .. Len(recent') + 1 -> Nat]
  BY <1>1
<1>3. CASE phase' # "rw"
  BY <1>2, <1>3 DEF RunInLog
<1>4. CASE phase = "rw" /\ UNCHANGED <<write_head, next_sequence, txn, todo>>
  <2>1. PICK h \in Nat : HeadBehind(pos, h)
    BY <1>1, <1>4
  <2>2. HeadBehind(pos, h)'
    BY <1>4, <2>1 DEF HeadBehind, LogIssued, Issued
  <2> QED
    BY <1>2, <2>2 DEF RunInLog
<1> QED
  BY <1>3, <1>4

\* No commit in the run, none under way.
LEMMA FreshRun ==
  ASSUME CommitInv', recent' = <<>>, ~txn'.busy
  PROVE  RunInLog'
<1>1. PICK p \in Nat : AdvanceBy(First, p) = write_head'
  BY PositionOf DEF CommitInv, CommitTyped
<1> DEFINE pos == [i \in 1 .. 1 |-> p]
<1>2. RunOfCommits(log', recent', pos) /\ pos \in [1 .. Len(recent') + 1 -> Nat]
  BY <1>1, RunEmpty
<1>3. pos[1] = p /\ Len(recent') + 1 = 1
  OBVIOUS
<1> HIDE DEF pos
<1>4. p <= pos[1] + Lap /\ p = pos[1] + 0
  BY <1>1, <1>3, GeometryAssumption DEF Lap
<1>5. HeadBehind(pos, p)'
  BY <1>1, <1>3, <1>4 DEF HeadBehind
<1> QED
  BY <1>2, <1>5 DEF RunInLog

LEMMA BeginRun ==
  ASSUME NothingToEscape, CommitInv, RunInLog, begin_commit
  PROVE  RunInLog'
<1>1. PICK t \in Transactions :
        txn' = [revoked |-> t.revoked, writes |-> t.writes, seq |-> next_sequence,
                at |-> write_head, busy |-> TRUE]
  BY DEF begin_commit
<1>2. /\ phase = "rw" /\ ~txn.busy /\ todo' = CommitSteps(txn')
      /\ UNCHANGED <<vars, write_head, next_sequence, recent>>
  BY DEF begin_commit
<1>3. PICK pos \in [1 .. Len(recent) + 1 -> Nat], h \in Nat :
        RunOfCommits(log, recent, pos) /\ HeadBehind(pos, h)
  BY <1>2 DEF RunInLog
<1>4. RunOfCommits(log', recent', pos) /\ pos \in [1 .. Len(recent') + 1 -> Nat]
  BY <1>2, <1>3 DEF vars
<1>5. h = pos[Len(recent) + 1] + 0 /\ write_head = AdvanceBy(First, h)
  BY <1>2, <1>3 DEF HeadBehind
<1>6. h = pos[Len(recent) + 1]
  <2>1. pos[Len(recent) + 1] \in Nat
    BY <1>3, RunTyped
  <2> QED
    BY <1>5, <2>1
<1>7. /\ txn' \in InFlight /\ txn'.busy /\ txn'.seq = next_sequence /\ txn'.at = write_head
      /\ \A i \in DOMAIN txn'.writes : txn'.writes[i].val # Magic
  BY <1>1, CommitAssumption DEF NothingToEscape, CommitInv, CommitTyped, InFlight
<1> DEFINE cs == CommitSteps(txn')
<1>8. Issued' = 0
  <2>1. cs \in Seq(DeviceWrite)
    BY <1>7, StepsOfCommit, StepsOfRefused DEF InFlight
  <2> HIDE DEF cs, DeviceWrite
  <2>2. Len(cs) - Len(cs) = 0
    BY <2>1
  <2> QED
    BY <1>2, <2>2 DEF Issued, cs
<1>9. LogIssued' = 0
  <2>1. Fits(txn') => LogLength(txn') \in Nat
    BY <1>7, StepsOfCommit DEF InFlight
  <2> QED
    BY <1>8, <2>1 DEF LogIssued
<1>10. HeadBehind(pos, h)'
  <2>1. Fits(txn') => Loggable(txn')
    BY <1>7 DEF Loggable
  <2>2. LoggedAt(log', txn', pos[Len(recent') + 1], 0)
    BY <1>2, <1>5, <1>6, <1>7 DEF LoggedAt
  <2> QED
    BY <1>2, <1>3, <1>5, <1>7, <1>9, <2>1, <2>2 DEF HeadBehind, vars
<1> QED
  BY <1>4, <1>10 DEF RunInLog

\* What the head reaches after a block of the log has been written.
LEMMA NextLogIssued ==
  ASSUME CommitInv, todo # <<>>, Head(todo).area = "log", todo' = Tail(todo), UNCHANGED <<txn, phase>>
  PROVE  /\ txn.busy /\ LogIssued \in Nat /\ LogIssued' = LogIssued + 1
         /\ LogIssued + 1 <= MaxTags + 3 \/ (~Fits(txn) /\ LogIssued = 0)
         /\ Fits(txn) => /\ LogIssued < LogLength(txn)
                         /\ Head(todo).entry = Blocks(txn)[LogIssued + 1]
<1>1. txn.busy /\ Issued \in Nat /\ Issued' = Issued + 1
  BY NextWrite, StepTaken
<1>2. CASE ~Fits(txn)
  <2>1. LogIssued = Issued /\ LogIssued' = Issued' /\ Issued = 0
    BY <1>2, NextWriteRefused DEF LogIssued
  <2> QED
    BY <1>1, <1>2, <2>1
<1>3. CASE Fits(txn)
  <2> DEFINE n == LogLength(txn)
             e == TransactionBlocks(txn.revoked, txn.writes, txn.seq, FALSE)[Issued + 1]
  <2>1. Issued < n
    BY <1>3, NextWriteKind
  <2>2. n \in Nat /\ Head(todo) = InLog(e)
    BY <1>3, <2>1, NextWriteFits
  <2>3. Head(todo).entry = e
    <3> HIDE DEF e
    <3> QED
      BY <2>2 DEF InLog
  <2>4. LogIssued = Issued
    BY <1>1, <2>1, <2>2 DEF LogIssued
  <2>5. LogIssued' = Issued'
    <3>1. LogLength(txn') = n /\ Fits(txn')
      BY <1>3
    <3> QED
      BY <1>1, <2>1, <2>2, <3>1 DEF LogIssued
  <2>6. n <= MaxTags + 3
    <3> DEFINE w == txn.writes
               r == txn.revoked
    <3>1. w \in Seq(Write) /\ r \in SUBSET FsBlock /\ txn.seq \in Nat
      BY DEF CommitInv, CommitTyped, InFlight
    <3>2. n = BlockCount(r, w) /\ Len(w) \in Nat
      BY <1>3, <3>1, StepsOfCommit
    <3>3. Len(w) <= MaxTags /\ MaxTags \in Nat
      BY <1>3, CommitAssumption DEF Fits
    <3> HIDE DEF w, r
    <3> QED
      BY <3>2, <3>3 DEF BlockCount, DescriptorOffset
  <2>7. e = Blocks(txn)[LogIssued + 1]
    BY <2>4 DEF Blocks
  <2>8. LogIssued + 1 <= MaxTags + 3
    <3>1. MaxTags \in Nat
      BY CommitAssumption
    <3> HIDE DEF n
    <3> QED
      BY <1>1, <2>1, <2>2, <2>4, <2>6, <3>1
  <2>9. LogIssued \in Nat /\ LogIssued' = LogIssued + 1
    BY <1>1, <2>4, <2>5
  <2>10. LogIssued < LogLength(txn) /\ Head(todo).entry = Blocks(txn)[LogIssued + 1]
    BY <2>1, <2>3, <2>4, <2>7
  <2> HIDE DEF n, e
  <2> QED
    BY <1>1, <1>3, <2>8, <2>9, <2>10
<1> QED
  BY <1>2, <1>3

LEMMA LogWriteRun ==
  ASSUME LogLargeEnough, CommitInv, RunInLog, LogWrite
  PROVE  RunInLog'
<1>1. /\ todo # <<>> /\ Head(todo).area = "log" /\ todo' = Tail(todo)
      /\ log' = [log EXCEPT ![write_head] = Head(todo).entry]
      /\ write_head' = advance_jblock(write_head)
      /\ recent' = IF recent # <<>> /\ Covers(Head(recent), write_head) THEN Tail(recent) ELSE recent
      /\ UNCHANGED <<phase, next_sequence, txn>>
  BY DEF LogWrite
<1>2. phase = "rw" /\ txn.busy
  BY <1>1, NextWrite
<1>3. PICK pos \in [1 .. Len(recent) + 1 -> Nat], h \in Nat :
        RunOfCommits(log, recent, pos) /\ HeadBehind(pos, h)
  BY <1>2 DEF RunInLog
<1> DEFINE n == Len(recent)
           k == LogIssued
           x == Head(todo).entry
<1>4. /\ k \in Nat /\ k' = k + 1
      /\ k + 1 <= MaxTags + 3 \/ (~Fits(txn) /\ k = 0)
      /\ Fits(txn) => k < LogLength(txn) /\ x = Blocks(txn)[k + 1]
  BY <1>1, NextLogIssued
<1>5. /\ h \in Nat /\ write_head = AdvanceBy(First, h) /\ h <= pos[1] + Lap
      /\ recent # <<>> => recent[n].seq + 1 = next_sequence
      /\ h = pos[n + 1] + k
      /\ txn.seq = next_sequence
      /\ Fits(txn) => Loggable(txn) /\ LoggedAt(log, txn, pos[n + 1], k)
  BY <1>2, <1>3 DEF HeadBehind
<1>6. /\ n \in Nat /\ pos[1] \in Nat /\ pos[n + 1] \in Nat /\ pos[1] <= pos[n + 1]
      /\ (recent = <<>> <=> n = 0)
  <2>1. n \in Nat /\ (recent = <<>> <=> n = 0) /\ \A i \in 1 .. n + 1 : pos[i] \in Nat
    BY <1>3, RunTyped
  <2>2. 1 \in 1 .. n + 1 /\ n + 1 \in 1 .. n + 1 /\ 1 <= n + 1
    BY <2>1
  <2> QED
    BY <1>3, <2>1, <2>2 DEF RunOfCommits
<1>7. Lap \in Nat \ {0} /\ MaxTags \in Nat /\ MaxTags + 3 <= Lap /\ k + 1 <= Lap
  <2>1. Lap \in Nat \ {0} /\ MaxTags \in Nat /\ MaxTags + 3 <= Lap
    BY GeometryAssumption, CommitAssumption DEF Lap, LogLargeEnough
  <2> HIDE DEF k
  <2> QED
    BY <1>4, <2>1
<1>8. log \in [JBlock -> Entry]
  BY DEF CommitInv, CommitTyped
<1>9. write_head' = AdvanceBy(First, h + 1)
  BY <1>1, <1>5, NextPosition
<1>10. log' = [log EXCEPT ![AdvanceBy(First, h)] = x]
  BY <1>1, <1>5
<1> HIDE DEF n, k, x
<1>11. Fits(txn) => LoggedAt(log', txn, pos[n + 1], k + 1)
  <2> SUFFICES ASSUME Fits(txn), NEW q \in 1 .. (k + 1)
               PROVE  log'[AdvanceBy(First, pos[n + 1] + q - 1)] = Blocks(txn)[q]
    BY <1>5 DEF LoggedAt
  <2> DEFINE p == pos[n + 1]
  <2>1. p \in Nat /\ h = p + k
    BY <1>5, <1>6
  <2> HIDE DEF p
  <2>2. CASE q = k + 1
    <3>1. p + q - 1 = h
      BY <1>4, <2>1, <2>2
    <3>2. AdvanceBy(First, h) \in JBlock
      BY Distance
    <3>3. log'[AdvanceBy(First, h)] = x
      BY <1>8, <1>10, <3>2
    <3> QED
      BY <1>4, <2>2, <3>1, <3>3 DEF p
  <2>3. CASE q # k + 1
    <3>1. q \in 1 .. k
      BY <1>4, <2>3
    <3>2. LoggedAt(log', txn, p, k)
      <4>1. p + k <= h /\ h < p + Lap
        BY <1>4, <1>7, <2>1
      <4> QED
        BY <1>4, <1>5, <1>8, <1>10, <2>1, <4>1, LoggedAtKept DEF p
    <3> QED
      BY <3>1, <3>2 DEF LoggedAt, p
  <2> QED
    BY <2>2, <2>3
<1>12. CASE h < pos[1] + Lap
  <2>1. RunOfCommits(log', recent, pos)
    <3>1. pos[n + 1] <= h
      BY <1>4, <1>5, <1>6
    <3> QED
      BY <1>3, <1>5, <1>8, <1>10, <1>12, <3>1, RunKept DEF n
  <2>2. recent' = recent
    <3> SUFFICES ASSUME recent # <<>>
                 PROVE  ~Covers(Head(recent), write_head)
      BY <1>1
    <3>1. n \in Nat \ {0} /\ 1 \in 1 .. n /\ 2 \in 1 .. n + 1 /\ n + 1 \in 1 .. n + 1 /\ 2 <= n + 1
      BY <1>6
    <3>2. /\ pos[2] = pos[1] + LogLength(recent[1]) /\ recent[1].at = AdvanceBy(First, pos[1])
          /\ LogLength(recent[1]) \in Nat /\ pos[2] \in Nat
      <4>1. 1 + 1 = 2
        OBVIOUS
      <4>2. /\ pos[1 + 1] = pos[1] + LogLength(recent[1]) /\ LoggedAt(log, recent[1], pos[1], LogLength(recent[1]))
        BY <1>3, <3>1 DEF RunOfCommits, n
      <4>3. LogLength(recent[1]) \in Nat /\ pos[2] \in Nat
        BY <1>3, <3>1, RunTyped DEF n
      <4> QED
        BY <4>1, <4>2, <4>3 DEF LoggedAt
    <3>3. pos[2] <= pos[n + 1]
      BY <1>3, <3>1 DEF RunOfCommits, n
    <3>4. Head(recent) = recent[1]
      BY <1>3, <3>1 DEF RunOfCommits
    <3>5. (write_head - recent[1].at) % Lap = h - pos[1]
      <4>1. pos[1] <= h
        BY <1>4, <1>5, <1>6
      <4> QED
        BY <1>5, <1>6, <1>12, <3>2, <4>1, Distance
    <3>6. h - pos[1] >= LogLength(recent[1])
      BY <1>4, <1>5, <1>6, <3>2, <3>3
    <3>7. ~((write_head - recent[1].at) % Lap < LogLength(recent[1]))
      BY <1>6, <3>2, <3>5, <3>6
    <3> QED
      BY <3>4, <3>7 DEF Covers, Lap
  <2>3. HeadBehind(pos, h + 1)'
    <3>1. h + 1 \in Nat /\ h + 1 <= pos[1] + Lap /\ h + 1 = pos[n + 1] + (k + 1)
      BY <1>4, <1>5, <1>6, <1>7, <1>12
    <3> QED
      BY <1>1, <1>2, <1>4, <1>5, <1>9, <1>11, <2>2, <3>1 DEF HeadBehind, n, k
  <2>4. h + 1 \in Nat
    OBVIOUS
  <2> QED
    BY <1>3, <2>1, <2>2, <2>3, <2>4 DEF RunInLog
<1>13. CASE ~(h < pos[1] + Lap)
  <2>1. h = pos[1] + Lap
    BY <1>5, <1>6, <1>7, <1>13
  <2>2. recent # <<>>
    <3> SUFFICES ASSUME n = 0
                 PROVE  FALSE
      BY <1>6
    <3>1. pos[n + 1] = pos[1]
      OBVIOUS
    <3> QED
      BY <1>4, <1>5, <1>6, <1>7, <2>1, <3>1
  <2>3. n \in Nat \ {0} /\ 1 \in 1 .. n /\ 2 \in 1 .. n + 1 /\ n + 1 \in 1 .. n + 1 /\ 2 <= n + 1
    BY <1>6, <2>2
  <2>4. /\ pos[2] = pos[1] + LogLength(recent[1]) /\ recent[1].at = AdvanceBy(First, pos[1])
        /\ LogLength(recent[1]) \in Nat \ {0} /\ pos[2] \in Nat /\ pos[2] <= pos[n + 1]
    <3>1. 1 + 1 = 2
      OBVIOUS
    <3>2. /\ pos[1 + 1] = pos[1] + LogLength(recent[1]) /\ LoggedAt(log, recent[1], pos[1], LogLength(recent[1]))
          /\ pos[2] <= pos[n + 1]
      BY <1>3, <2>3 DEF RunOfCommits, n
    <3>3. LogLength(recent[1]) \in Nat \ {0} /\ pos[2] \in Nat
      BY <1>3, <2>3, RunTyped DEF n
    <3> QED
      BY <3>1, <3>2, <3>3 DEF LoggedAt
  <2>5. Head(recent) = recent[1]
    BY <1>3, <2>3 DEF RunOfCommits
  <2>6. (write_head - recent[1].at) % Lap = 0
    BY <1>5, <1>6, <2>1, <2>4, Distance
  <2>7. recent' = Tail(recent)
    <3>1. (write_head - recent[1].at) % Lap < LogLength(recent[1])
      BY <2>4, <2>6
    <3> QED
      BY <1>1, <2>2, <2>5, <3>1 DEF Covers, Lap
  <2> DEFINE tl == Tail(recent)
  <2>0. PICK tp : tp = TailOf(pos, n)
    OBVIOUS
  <2>8. /\ RunOfCommits(log, tl, tp) /\ Len(tl) = n - 1 /\ tp \in [1 .. Len(tl) + 1 -> Nat]
        /\ tl # <<>> => tl[n - 1] = recent[n]
    BY <1>3, <2>0, <2>2, RunTail DEF n
  <2>9. tp[1] = pos[2] /\ tp[n] = pos[n + 1]
    <3>1. 1 \in 1 .. n /\ n \in 1 .. n /\ 1 + 1 = 2
      BY <2>3
    <3> QED
      BY <2>0, <3>1 DEF TailOf
  <2> HIDE DEF tl
  <2>10. Len(tl) + 1 = n
    BY <2>3, <2>8
  <2>11. RunOfCommits(log', tl, tp)
    <3>1. tp[Len(tl) + 1] <= h /\ h < tp[1] + Lap
      BY <1>4, <1>5, <1>6, <1>7, <2>1, <2>4, <2>9, <2>10
    <3> QED
      BY <1>8, <1>10, <2>8, <3>1, RunKept
  <2>12. HeadBehind(tp, h + 1)'
    <3>1. h + 1 \in Nat /\ h + 1 <= tp[1] + Lap /\ h + 1 = tp[Len(tl) + 1] + (k + 1)
      <4>1. h + 1 <= pos[2] + Lap
        BY <1>6, <1>7, <2>1, <2>4
      <4>2. h + 1 = pos[n + 1] + (k + 1)
        <5> DEFINE y == pos[n + 1]
        <5>1. h = y + k /\ y \in Nat /\ k \in Nat
          BY <1>4, <1>5, <1>6
        <5> HIDE DEF y
        <5>2. h + 1 = y + (k + 1)
          BY <5>1
        <5> QED
          BY <5>2 DEF y
      <4> QED
        BY <1>5, <2>9, <2>10, <4>1, <4>2
    <3>2. tl # <<>> => tl[Len(tl)].seq + 1 = next_sequence
      BY <1>5, <2>2, <2>8
    <3>3. recent' = tl
      BY <2>7 DEF tl
    <3>4. Fits(txn) => Loggable(txn) /\ LoggedAt(log', txn, tp[Len(tl) + 1], k + 1)
      BY <1>5, <1>11, <2>9, <2>10
    <3> QED
      BY <1>1, <1>2, <1>4, <1>5, <1>9, <3>1, <3>2, <3>3, <3>4 DEF HeadBehind, k
  <2>13. h + 1 \in Nat
    OBVIOUS
  <2> QED
    BY <2>7, <2>8, <2>11, <2>12, <2>13 DEF RunInLog, tl
<1> QED
  BY <1>12, <1>13

\* Writes in place leave the log alone; the commit has written all of it.
LEMMA StoreWriteRun ==
  ASSUME CommitInv, RunInLog, StoreWrite
  PROVE  RunInLog'
<1>1. /\ todo # <<>> /\ Head(todo).area = "store" /\ todo' = Tail(todo)
      /\ UNCHANGED <<log, recent, phase, txn, write_head, next_sequence>>
  BY DEF StoreWrite
<1>2. phase = "rw" /\ Fits(txn) /\ Issued >= LogLength(txn) /\ Issued \in Nat /\ LogLength(txn) \in Nat
  BY <1>1, NextWrite, NextWriteKind, NextWriteFits
<1>3. Issued' = Issued + 1
  BY <1>1, StepTaken
<1>4. LogIssued = LogLength(txn) /\ LogIssued' = LogLength(txn)
  BY <1>1, <1>2, <1>3 DEF LogIssued
<1>5. PICK pos \in [1 .. Len(recent) + 1 -> Nat], h \in Nat :
        RunOfCommits(log, recent, pos) /\ HeadBehind(pos, h)
  BY <1>2 DEF RunInLog
<1>6. HeadBehind(pos, h)'
  BY <1>1, <1>4, <1>5 DEF HeadBehind
<1> QED
  BY <1>1, <1>5, <1>6 DEF RunInLog

LEMMA EndCommitRun ==
  ASSUME CommitInv, CommitInv', RunInLog, EndCommit
  PROVE  RunInLog'
<1>1. /\ txn.busy /\ todo = <<>> /\ txn' = Idle /\ ~txn'.busy
      /\ UNCHANGED <<vars, write_head, todo>>
      /\ Fits(txn) => next_sequence' = next_sequence + 1 /\ recent' = Append(recent, txn)
      /\ ~Fits(txn) => recent' = <<>>
  BY DEF EndCommit, Idle
<1>2. CASE ~Fits(txn)
  BY <1>1, <1>2, FreshRun
<1>3. CASE Fits(txn)
  <2> DEFINE n == Len(recent)
             l == LogLength(txn)
  <2>1. phase = "rw" /\ phase' = "rw"
    BY <1>1 DEF CommitInv, StepsInOrder, vars
  <2>2. PICK pos \in [1 .. Len(recent) + 1 -> Nat], h \in Nat :
          RunOfCommits(log, recent, pos) /\ HeadBehind(pos, h)
    BY <2>1 DEF RunInLog
  <2>3. LogIssued = l
    <3>1. /\ l \in Nat /\ Len(txn.writes) \in Nat /\ Len(CommitSteps(txn)) = l + Len(txn.writes)
      BY <1>3, StepsOfCommit DEF CommitInv, CommitTyped, InFlight
    <3>2. Len(todo) = 0
      BY <1>1
    <3>3. Issued >= l /\ Issued \in Nat
      BY <3>1, <3>2 DEF Issued
    <3> HIDE DEF l
    <3>4. LogIssued = IF Issued > l THEN l ELSE Issued
      BY <1>3 DEF LogIssued, l
    <3> QED
      BY <3>1, <3>3, <3>4
  <2>4. /\ write_head = AdvanceBy(First, h) /\ h <= pos[1] + Lap
        /\ recent # <<>> => recent[n].seq + 1 = next_sequence
        /\ h = pos[n + 1] + l /\ txn.seq = next_sequence
        /\ Loggable(txn) /\ LoggedAt(log, txn, pos[n + 1], l)
    BY <1>1, <1>3, <2>2, <2>3 DEF HeadBehind
  <2>5. PICK ep : ep = Extended(pos, n, l)
    OBVIOUS
  <2> DEFINE ap == Append(recent, txn)
  <2>6. /\ RunOfCommits(log, ap, ep) /\ ep \in [1 .. Len(ap) + 1 -> Nat]
        /\ Len(ap) = n + 1 /\ ap[n + 1] = txn /\ ap # <<>>
    <3>1. recent # <<>> => txn.seq = recent[n].seq + 1
      BY <2>4
    <3> QED
      BY <2>2, <2>4, <2>5, <3>1, RunAppend
  <2>7. n \in Nat
    BY <2>2, RunTyped
  <2>8. ep[1] = pos[1] /\ ep[n + 2] = pos[n + 1] + l
    <3> HIDE DEF n, l
    <3>1. 1 \in 1 .. n + 2 /\ 1 <= n + 1 /\ n + 2 \in 1 .. n + 2 /\ ~(n + 2 <= n + 1)
      BY <2>7
    <3> QED
      BY <2>5, <3>1 DEF Extended
  <2>9. HeadBehind(ep, h)'
    <3> HIDE DEF ap, n, l
    <3>1. Len(ap) + 1 = n + 2 /\ ap[Len(ap)] = txn
      BY <2>6, <2>7
    <3>2. recent' = ap /\ next_sequence' = next_sequence + 1
      BY <1>1, <1>3 DEF ap
    <3>3. h = ep[Len(ap) + 1] + 0
      BY <2>4, <2>8, <3>1
    <3>4. ap[Len(ap)].seq + 1 = next_sequence + 1
      BY <2>4, <3>1
    <3> QED
      BY <1>1, <2>4, <2>8, <3>2, <3>3, <3>4 DEF HeadBehind
  <2> QED
    BY <1>1, <1>3, <2>6, <2>9 DEF RunInLog, vars
<1> QED
  BY <1>2, <1>3

LEMMA MountingRun ==
  ASSUME CommitInv, RunInLog, Mounting
  PROVE  RunInLog'
<1>1. /\ UNCHANGED <<log, recent>> /\ phase' \in Phase
  BY DEF Mounting, OpenReadWrite, OpenReadOnly, Close, Replay, ScanDescriptor, ApplyWrite, EndTransaction,
     ScanCommit, ScanRevoke, EndOfLog, WriteJournalSuperblock, Flush, device, Phase
<1> QED
  BY <1>1, RunFrame DEF Phase

LEMMA RunStep ==
  ASSUME LogLargeEnough, NothingToEscape, CommitInv, CommitInv', RunInLog, [CommitNext]_allvars
  PROVE  RunInLog'
<1>1. CASE Lifecycle
  <2>1. CASE Mounting
    BY <2>1, MountingRun
  <2>2. CASE SetDirtyFlag \/ Unmount \/ FlushValidFlag
    <3>1. UNCHANGED <<log, recent>> /\ phase' # "rw"
      BY <2>2 DEF SetDirtyFlag, Unmount, FlushValidFlag, device
    <3> QED
      BY <3>1, RunFrame
  <2>3. CASE FlushDirtyFlag \/ StartHost
    <3>1. recent' = <<>> /\ txn' = txn /\ phase # "rw"
      BY <2>3 DEF FlushDirtyFlag, StartHost, StartWriter
    <3>2. ~txn'.busy
      BY <3>1 DEF CommitInv, StepsInOrder
    <3> QED
      BY <3>1, <3>2, FreshRun
  <2> QED
    BY <1>1, <2>1, <2>2, <2>3 DEF Lifecycle
<1>2. CASE Committing
  <2>1. CASE FailedCommit
    BY <2>1, FreshRun DEF FailedCommit, Idle
  <2>2. CASE UserFlush
    BY <2>2, RunFrame DEF UserFlush, device
  <2> QED
    BY <1>2, <2>1, <2>2, BeginRun, LogWriteRun, StoreWriteRun, EndCommitRun DEF Committing
<1>3. CASE Killed \/ LosePower
  BY <1>3, FreshRun DEF Killed, LosePower, WriterGone, Idle
<1>4. CASE ForeignCrash
  <2>1. recent' = <<>> /\ txn' = txn /\ phase # "rw"
    BY <1>4 DEF ForeignCrash
  <2>2. ~txn'.busy
    BY <2>1 DEF CommitInv, StepsInOrder
  <2> QED
    BY <2>1, <2>2, FreshRun
<1>5. CASE UNCHANGED allvars
  <2>1. UNCHANGED <<log, recent, phase, write_head, next_sequence, txn, todo>>
    BY <1>5 DEF allvars, wvars, vars
  <2> QED
    BY <2>1, RunFrame
<1> QED
  BY <1>1, <1>2, <1>3, <1>4, <1>5 DEF CommitNext

LEMMA RunInit == CommitInit => RunInLog
<1> SUFFICES ASSUME CommitInit
             PROVE  RunInLog
  OBVIOUS
<1>1. recent = <<>> /\ phase # "rw" /\ 0 \in Nat
  BY DEF CommitInit, Init
<1>2. RunOfCommits(log, <<>>, [i \in 1 .. 1 |-> 0]) /\ [i \in 1 .. 1 |-> 0] \in [1 .. Len(<<>>) + 1 -> Nat]
  BY RunEmpty
<1> QED
  BY <1>1, <1>2 DEF RunInLog

\* Behind the head the log holds the recent commits and what the commit under
\* way has written, block by block and in order, for every length of the log
\* (write_to_journal, advance_jblock).
THEOREM RunInvariant ==
  ASSUME LogLargeEnough, NothingToEscape
  PROVE  CommitSpec => [](CommitInv /\ RunInLog)
<1>1. CommitInit => CommitInv /\ RunInLog
  BY CommitInitHolds, RunInit
<1>2. CommitInv /\ RunInLog /\ [CommitNext]_allvars => (CommitInv /\ RunInLog)'
  BY CommitStep, RunStep
<1> QED
  BY <1>1, <1>2, PTL DEF CommitSpec

\* What commit() wrote and what replay() would read agree for every recent
\* commit, and each starts where the one before it ends.
THEOREM LogReadsBackTheorem ==
  ASSUME LogLargeEnough, NothingToEscape
  PROVE  CommitSpec => []LogReadsBack
<1>1. CommitInv /\ RunInLog => LogReadsBack
  <2> SUFFICES ASSUME CommitInv, RunInLog
               PROVE  LogReadsBack
    OBVIOUS
  <2>1. PICK pos \in [1 .. Len(recent) + 1 -> Nat] : RunOfCommits(log, recent, pos)
    BY DEF RunInLog
  <2> DEFINE n == Len(recent)
  <2>2. n \in Nat /\ DOMAIN recent = 1 .. n
    <3>1. recent \in Seq(InFlight)
      BY <2>1 DEF RunOfCommits
    <3> HIDE DEF InFlight
    <3> QED
      BY <3>1
  <2>3. /\ \A i \in 1 .. n : /\ Loggable(recent[i]) /\ LoggedAt(log, recent[i], pos[i], LogLength(recent[i]))
                             /\ pos[i + 1] = pos[i] + LogLength(recent[i])
        /\ \A i \in 1 .. (n - 1) : recent[i + 1].seq = recent[i].seq + 1
    BY <2>1 DEF RunOfCommits
  <2>4. \A i \in 1 .. n + 1 : pos[i] \in Nat
    BY <2>1, RunTyped
  <2>5. log \in [JBlock -> Entry]
    BY DEF CommitInv, CommitTyped
  <2> HIDE DEF n
  <2>6. ASSUME NEW i \in 1 .. n
        PROVE  ReadsBack(recent[i])
    <3>1. i \in 1 .. n + 1
      BY <2>2
    <3> QED
      BY <2>3, <2>4, <2>5, <3>1, LoggedReadsBack
  <2>7. ASSUME NEW i \in 1 .. n, i + 1 \in 1 .. n
        PROVE  /\ recent[i + 1].seq = recent[i].seq + 1
               /\ recent[i + 1].at = AdvanceBy(recent[i].at, LogLength(recent[i]))
    <3> DEFINE l == LogLength(recent[i])
               p == pos[i]
    <3>1. i \in 1 .. (n - 1) /\ i \in 1 .. n + 1
      BY <2>2, <2>7
    <3>2. recent[i + 1].seq = recent[i].seq + 1
      BY <2>3, <3>1
    <3>3. /\ recent[i].at = AdvanceBy(First, p)
          /\ recent[i + 1].at = AdvanceBy(First, pos[i + 1]) /\ pos[i + 1] = p + l
      BY <2>3, <2>7 DEF LoggedAt
    <3>4. p \in Nat /\ l \in Nat /\ First \in JBlock
      BY <2>1, <2>4, <3>1, RunTyped, GeometryAssumption DEF JBlock, n
    <3> HIDE DEF l, p
    <3>5. AdvanceBy(AdvanceBy(First, p), l) = AdvanceBy(First, p + l)
      BY <3>4, AdvanceFurther
    <3>6. recent[i + 1].at = AdvanceBy(recent[i].at, l)
      BY <3>3, <3>5
    <3> QED
      BY <3>2, <3>6 DEF l
  <2> QED
    BY <2>2, <2>6, <2>7 DEF LogReadsBack
<1> QED
  BY <1>1, RunInvariant, PTL

\* Write-ahead: a pinned block goes to its place only when the log holds the
\* whole transaction in a form replay() accepts (commit()).
THEOREM WriteAheadTheorem ==
  ASSUME LogLargeEnough, NothingToEscape
  PROVE  CommitSpec => WriteAhead
<1>1. CommitInv /\ RunInLog /\ [CommitNext]_allvars
        => [(phase = "rw" /\ phase' = "rw" /\ fs' # fs) => ReadsBack(txn)]_allvars
  <2> SUFFICES ASSUME CommitInv, RunInLog, CommitNext, phase = "rw", phase' = "rw", fs' # fs
               PROVE  ReadsBack(txn)
    OBVIOUS
  <2>1. StoreWrite \/ FailedCommit
    <3>1. CASE Lifecycle
      BY <3>1 DEF Lifecycle, Mounting, OpenReadWrite, OpenReadOnly, Close, Replay, ScanDescriptor,
         ApplyWrite, EndTransaction, ScanCommit, ScanRevoke, EndOfLog, WriteJournalSuperblock, Flush,
         SetDirtyFlag, FlushDirtyFlag, StartHost, Unmount, FlushValidFlag, device
    <3>2. CASE Committing
      BY <3>2 DEF Committing, begin_commit, LogWrite, EndCommit, UserFlush, vars, device
    <3>3. CASE Killed \/ LosePower \/ ForeignCrash
      <4>1. phase' # "rw"
        BY <3>3 DEF Killed, ProcessCrash, TornWrite, TornCommit, Restart, LosePower, ForeignCrash
      <4> QED
        BY <4>1
    <3> QED
      BY <3>1, <3>2, <3>3 DEF CommitNext
  <2>2. todo # <<>> /\ Head(todo).area = "store"
    BY <2>1 DEF StoreWrite, FailedCommit
  <2>3. txn.busy /\ Fits(txn) /\ Issued >= LogLength(txn) /\ Issued \in Nat /\ LogLength(txn) \in Nat
    BY <2>2, NextWrite, NextWriteKind, NextWriteFits
  <2>4. LogIssued = LogLength(txn)
    BY <2>3 DEF LogIssued
  <2>5. PICK pos \in [1 .. Len(recent) + 1 -> Nat], h \in Nat :
          RunOfCommits(log, recent, pos) /\ HeadBehind(pos, h)
    BY DEF RunInLog
  <2> DEFINE p == pos[Len(recent) + 1]
  <2>6. Loggable(txn) /\ LoggedAt(log, txn, p, LogLength(txn))
    BY <2>3, <2>4, <2>5 DEF HeadBehind
  <2>7. p \in Nat /\ log \in [JBlock -> Entry]
    BY <2>5, RunTyped DEF CommitInv, CommitTyped
  <2> HIDE DEF p
  <2> QED
    BY <2>6, <2>7, LoggedReadsBack
<1> QED
  BY <1>1, RunInvariant, PTL DEF CommitSpec, WriteAhead
=============================================================================
