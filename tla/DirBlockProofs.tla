--------------------------- MODULE DirBlockProofs ---------------------------
(***************************************************************************)
(* Proofs about DirBlock for any block size, any names that fit into it    *)
(* and any number of blocks.  The walk over a block, Chain, is a recursive *)
(* function: that it exists, and what it visits in a block filled with     *)
(* records, is shown by induction from the end of the block.  The          *)
(* invariant is that every block is such a one, no name is there twice,    *)
(* and "." and ".." come first; a removal across a free record breaks all  *)
(* of it but the last.                                                     *)
(***************************************************************************)
EXTENDS DirBlock, WellFoundedInduction, TLAPS

-----------------------------------------------------------------------------
(* Least and greatest elements, and induction. *)

\* The order of the natural numbers.
Less == OpToRel(<, Nat)

\* A set of numbers has a least one.
LEMMA LeastNumber ==
  ASSUME NEW T \in SUBSET Nat, T # {}
  PROVE  Min(T) \in T /\ \A y \in T : Min(T) <= y
<1>1. Less = {e \in Nat \X Nat : e[1] < e[2]}
  BY DEF Less, OpToRel
<1>2. PICK x \in T : \A y \in T : ~(<<y, x>> \in Less)
  <2>1. IsWellFoundedOn(Less, Nat)
    BY NatLessThanWellFounded DEF Less
  <2> HIDE DEF Less
  <2> QED
    BY <2>1, WFMin
<1>3. \A y \in T : ~(y < x)
  BY <1>1, <1>2
<1>4. \A y \in T : x <= y
  BY <1>3
<1> QED
  BY <1>4 DEF Min

\* A set of offsets has a greatest one.
LEMMA GreatestOffset ==
  ASSUME NEW T \in SUBSET Offset, T # {}
  PROVE  Max(T) \in T /\ \A y \in T : y <= Max(T)
<1> DEFINE M == {BlockUnits - y : y \in T}
<1>1. BlockUnits \in Nat
  BY NameAssumption
<1>2. M \in SUBSET Nat /\ M # {}
  <2>1. \A y \in T : BlockUnits - y \in Nat
    BY <1>1 DEF Offset
  <2> QED
    BY <2>1
<1>3. PICK m \in M : \A y \in M : m <= y
  BY <1>2, LeastNumber
<1>4. PICK x \in T : m = BlockUnits - x
  BY <1>3
<1>5. \A y \in T : y <= x
  <2> TAKE y \in T
  <2>1. BlockUnits - y \in M
    OBVIOUS
  <2> HIDE DEF M
  <2> QED
    BY <1>1, <1>3, <1>4, <2>1 DEF Offset
<1> QED
  BY <1>4, <1>5 DEF Max

\* Induction from the end of a block.
LEMMA FromTheEnd ==
  ASSUME NEW S, BlockUnits \in S, \A p \in Offset : p + 1 \in S => p \in S
  PROVE  0 .. BlockUnits \subseteq S
<1> DEFINE T == {n \in 0 .. BlockUnits : BlockUnits - n \notin S}
<1>1. BlockUnits \in Nat
  BY NameAssumption
<1> SUFFICES ASSUME T # {} PROVE FALSE
  <2>1. \A p \in 0 .. BlockUnits : BlockUnits - p \in 0 .. BlockUnits /\ BlockUnits - (BlockUnits - p) = p
    BY <1>1
  <2> QED
    BY <2>1
<1>2. PICK n \in T : \A m \in T : n <= m
  <2>1. T \in SUBSET Nat
    BY <1>1
  <2> QED
    BY <2>1, LeastNumber
<1>3. n # 0 /\ n \in 0 .. BlockUnits /\ BlockUnits - n \notin S
  BY <1>1
<1>4. n - 1 \in 0 .. BlockUnits /\ BlockUnits - n \in Offset /\ (BlockUnits - n) + 1 = BlockUnits - (n - 1)
  BY <1>1, <1>3 DEF Offset
<1>5. n - 1 \notin T
  BY <1>1, <1>2, <1>3
<1> QED
  BY <1>3, <1>4, <1>5

-----------------------------------------------------------------------------
(* The walk over a block. *)

\* The part of a walk from p on, if f gives the parts from further on.
WalkFrom(b, f, p) ==
  IF b[p] = Other \/ b[p].rec < 2 THEN <<>>
  ELSE <<p>> \o IF p + b[p].rec < BlockUnits THEN f[p + b[p].rec] ELSE <<>>

\* The walks from all offsets.
Walks(b) == CHOOSE f : f = [p \in Offset |-> WalkFrom(b, f, p)]

\* Every record leads further on, so there is a walk from everywhere.
LEMMA WalksExist ==
  ASSUME NEW b \in Block
  PROVE  Walks(b) = [p \in Offset |-> WalkFrom(b, Walks(b), p)] /\ Chain(b) = Walks(b)[0]
<1> DEFINE Right(f, p) == f[p] = WalkFrom(b, f, p)
           Good == {n \in 0 .. BlockUnits :
                      \E f : f = [x \in Offset |-> f[x]] /\ \A p \in Offset : p >= n => Right(f, p)}
<1>1. BlockUnits \in Nat
  BY NameAssumption
<1>2. BlockUnits \in Good
  <2> DEFINE z == [x \in Offset |-> 0]
  <2>1. z = [x \in Offset |-> z[x]]
    OBVIOUS
  <2>2. \A p \in Offset : ~(p >= BlockUnits)
    BY <1>1 DEF Offset
  <2>3. \E f : f = [x \in Offset |-> f[x]] /\ \A p \in Offset : p >= BlockUnits => Right(f, p)
    <3> HIDE DEF z
    <3> QED
      BY <2>1, <2>2
  <2> QED
    BY <1>1, <2>3
<1>3. ASSUME NEW n \in Offset, n + 1 \in Good PROVE n \in Good
  <2>1. PICK f : f = [x \in Offset |-> f[x]] /\ \A p \in Offset : p >= n + 1 => Right(f, p)
    BY <1>3
  <2> DEFINE g == [x \in Offset |-> IF x = n THEN WalkFrom(b, f, n) ELSE f[x]]
  <2>2. g = [x \in Offset |-> g[x]]
    OBVIOUS
  <2>3. ASSUME NEW p \in Offset, p >= n PROVE WalkFrom(b, g, p) = WalkFrom(b, f, p)
    <3>1. b[p] # Other /\ ~(b[p].rec < 2) /\ p + b[p].rec < BlockUnits =>
            p + b[p].rec \in Offset /\ p + b[p].rec # n
      BY <1>1, <1>3, <2>3 DEF Block, Header, Offset
    <3>2. b[p] # Other /\ ~(b[p].rec < 2) /\ p + b[p].rec < BlockUnits => g[p + b[p].rec] = f[p + b[p].rec]
      BY <3>1
    <3> HIDE DEF g
    <3> QED
      BY <3>2 DEF WalkFrom
  <2>4. ASSUME NEW p \in Offset, p >= n PROVE Right(g, p)
    <3>1. CASE p = n
      <4>1. g[n] = WalkFrom(b, f, n)
        OBVIOUS
      <4>2. WalkFrom(b, g, n) = WalkFrom(b, f, n)
        BY <2>3, <2>4, <3>1
      <4> HIDE DEF g
      <4> QED
        BY <3>1, <4>1, <4>2
    <3>2. CASE p # n
      <4>1. p >= n + 1
        BY <1>3, <2>4, <3>2 DEF Offset
      <4>2. g[p] = f[p]
        BY <3>2
      <4> QED
        BY <2>1, <2>3, <2>4, <4>1, <4>2
    <3> QED
      BY <3>1, <3>2
  <2>5. n \in 0 .. BlockUnits
    BY <1>1 DEF Offset
  <2> HIDE DEF g
  <2> QED
    BY <2>2, <2>4, <2>5
<1>4. 0 \in Good
  <2> HIDE DEF Good
  <2> QED
    BY <1>1, <1>2, <1>3, FromTheEnd
<1>5. PICK f : f = [x \in Offset |-> f[x]] /\ \A p \in Offset : p >= 0 => Right(f, p)
  BY <1>4
<1>6. \A p \in Offset : Right(f, p)
  BY <1>1, <1>5 DEF Offset
<1>7. f = [p \in Offset |-> WalkFrom(b, f, p)]
  BY <1>5, <1>6, Zenon
<1>8. Chain(b) = Walks(b)[0]
  BY DEF Chain, Walks, WalkFrom
<1> QED
  BY <1>7, <1>8 DEF Walks

-----------------------------------------------------------------------------
(* Blocks whose records lie one behind the other. *)

\* S are the offsets of records that fill the block, each as long as it must be.
Tiled(b, S) ==
  /\ S \in SUBSET Offset /\ 0 \in S
  /\ \A p \in S : /\ b[p] \in Header /\ min_rec_len(b[p].name) <= b[p].rec
                  /\ p + b[p].rec <= BlockUnits
                  /\ p + b[p].rec < BlockUnits => p + b[p].rec \in S
  /\ \A p, q \in S : p < q => p + b[p].rec <= q

\* The lengths of records.
LEMMA RecordLengths ==
  /\ BlockUnits \in Nat /\ BlockUnits > 5
  /\ \A n \in Name \cup Dots : min_rec_len(n) \in Nat /\ min_rec_len(n) >= 3
  /\ min_rec_len(Dot) = 3 /\ min_rec_len(DotDot) = 3
BY NameAssumption DEF min_rec_len, Dots, Dot, DotDot

\* A sequence with one more in front.
LEMMA InFront ==
  ASSUME NEW p, NEW t, NEW T, t \in Seq(T), t # <<>>
  PROVE  LET s == <<p>> \o t IN
         /\ s \in Seq(T \cup {p}) /\ s # <<>> /\ s[1] = p /\ Len(s) >= 2 /\ s[2] = t[1]
         /\ Last(s) = Last(t) /\ Range(s) = Range(t) \cup {p}
<1> DEFINE s == <<p>> \o t
<1>1. /\ s \in Seq(T \cup {p}) /\ Len(s) = Len(t) + 1 /\ Len(t) \in Nat \ {0}
      /\ s[1] = p /\ \A i \in 1 .. Len(t) : s[i + 1] = t[i]
  OBVIOUS
<1> HIDE DEF s
<1>2. s # <<>> /\ Len(s) >= 2 /\ s[2] = t[1]
  BY <1>1
<1>3. Last(s) = Last(t)
  BY <1>1 DEF Last
<1>4. Range(s) = Range(t) \cup {p}
  <2>1. DOMAIN s = 1 .. Len(s) /\ DOMAIN t = 1 .. Len(t)
    BY <1>1
  <2>2. ASSUME NEW x \in Range(s) PROVE x \in Range(t) \cup {p}
    <3>1. PICK i \in 1 .. Len(s) : x = s[i]
      BY <2>1, <2>2 DEF Range
    <3>2. CASE i = 1
      BY <1>1, <3>1, <3>2
    <3>3. CASE i # 1
      <4>1. i - 1 \in 1 .. Len(t) /\ s[(i - 1) + 1] = t[i - 1] /\ (i - 1) + 1 = i
        BY <1>1, <3>1, <3>3
      <4> QED
        BY <2>1, <3>1, <4>1 DEF Range
    <3> QED
      BY <3>2, <3>3
  <2>3. ASSUME NEW x \in Range(t) PROVE x \in Range(s)
    <3>1. PICK i \in 1 .. Len(t) : x = t[i]
      BY <2>1, <2>3 DEF Range
    <3>2. i + 1 \in 1 .. Len(s) /\ s[i + 1] = x
      BY <1>1, <3>1
    <3> QED
      BY <2>1, <3>2 DEF Range
  <2>4. p \in Range(s)
    BY <1>1, <2>1 DEF Range
  <2> QED
    BY <2>2, <2>3, <2>4
<1> QED
  BY <1>1, <1>2, <1>3, <1>4 DEF s

\* The walk over such a block visits just these offsets, in order, and ends with it.
LEMMA WalkOfTiled ==
  ASSUME NEW b \in Block, NEW S, Tiled(b, S)
  PROVE  /\ Chain(b) \in Seq(S) /\ Chain(b) # <<>> /\ Range(Chain(b)) = S
         /\ b[0].rec < BlockUnits => Chain(b)[2] = b[0].rec
         /\ Parses(b)
<1> DEFINE w == Walks(b)
           Good == {p \in 0 .. BlockUnits : p \in S =>
                      /\ w[p] \in Seq(S) /\ w[p] # <<>> /\ w[p][1] = p
                      /\ Range(w[p]) = {q \in S : p <= q}
                      /\ Last(w[p]) + b[Last(w[p])].rec = BlockUnits
                      /\ p + b[p].rec < BlockUnits => w[p][2] = p + b[p].rec}
<1>1. BlockUnits \in Nat /\ S \subseteq Offset /\ 0 \in S /\ Offset \subseteq Nat
  BY RecordLengths DEF Tiled, Offset
<1>2. w = [p \in Offset |-> WalkFrom(b, w, p)] /\ Chain(b) = w[0]
  BY WalksExist
<1> HIDE DEF w
<1>3. ASSUME NEW p \in S
      PROVE  /\ b[p].rec \in Nat /\ b[p].rec >= 2
             /\ p + b[p].rec = BlockUnits => w[p] = <<p>>
             /\ p + b[p].rec # BlockUnits => /\ p + b[p].rec \in S /\ p + b[p].rec < BlockUnits
                                             /\ w[p] = <<p>> \o w[p + b[p].rec]
  <2>1. /\ b[p] \in Header /\ b[p] # Other /\ b[p].rec \in 2 .. BlockUnits
        /\ p + b[p].rec <= BlockUnits /\ (p + b[p].rec < BlockUnits => p + b[p].rec \in S)
    BY OtherAssumption DEF Tiled, Header
  <2>2. w[p] = WalkFrom(b, w, p)
    BY <1>1, <1>2
  <2>3. w[p] = <<p>> \o IF p + b[p].rec < BlockUnits THEN w[p + b[p].rec] ELSE <<>>
    BY <1>1, <2>1, <2>2 DEF WalkFrom
  <2>4. <<p>> \o <<>> = <<p>>
    OBVIOUS
  <2>5. CASE p + b[p].rec < BlockUnits
    BY <1>1, <2>1, <2>3, <2>5
  <2>6. CASE ~(p + b[p].rec < BlockUnits)
    <3>1. w[p] = <<p>>
      BY <2>3, <2>4, <2>6
    <3>2. p + b[p].rec = BlockUnits
      BY <1>1, <2>1, <2>6
    <3> QED
      BY <2>1, <3>1, <3>2
  <2> QED
    BY <2>5, <2>6
<1>4. BlockUnits \in Good
  BY <1>1 DEF Offset
<1>5. ASSUME NEW p \in Offset, \A q \in Offset : p < q => q \in Good
      PROVE  p \in Good
  <2>1. p \in 0 .. BlockUnits
    BY <1>1 DEF Offset
  <2> SUFFICES ASSUME p \in S
               PROVE  /\ w[p] \in Seq(S) /\ w[p] # <<>> /\ w[p][1] = p
                      /\ Range(w[p]) = {q \in S : p <= q}
                      /\ Last(w[p]) + b[Last(w[p])].rec = BlockUnits
                      /\ p + b[p].rec < BlockUnits => w[p][2] = p + b[p].rec
    BY <2>1
  <2>2. \A q \in S : p < q => p + b[p].rec <= q
    BY DEF Tiled
  <2>3. CASE p + b[p].rec = BlockUnits
    <3>1. w[p] = <<p>>
      BY <1>3, <2>3
    <3>2. {q \in S : p <= q} = {p}
      BY <1>1, <2>2, <2>3 DEF Offset
    <3>3. Range(<<p>>) = {p} /\ Last(<<p>>) = p
      BY DEF Range, Last
    <3> QED
      BY <1>1, <2>3, <3>1, <3>2, <3>3
  <2>4. CASE p + b[p].rec # BlockUnits
    <3> DEFINE r == p + b[p].rec
    <3>1. r \in S /\ r < BlockUnits /\ w[p] = <<p>> \o w[r] /\ p < r
      BY <1>1, <1>3, <2>4
    <3> HIDE DEF r
    <3>2. /\ w[r] \in Seq(S) /\ w[r] # <<>> /\ w[r][1] = r
          /\ Range(w[r]) = {q \in S : r <= q}
          /\ Last(w[r]) + b[Last(w[r])].rec = BlockUnits
      BY <1>1, <1>5, <3>1
    <3>3. /\ w[p] \in Seq(S \cup {p}) /\ w[p] # <<>> /\ w[p][1] = p /\ w[p][2] = r
          /\ Last(w[p]) = Last(w[r]) /\ Range(w[p]) = Range(w[r]) \cup {p}
      BY <3>1, <3>2, InFront
    <3>4. {q \in S : r <= q} \cup {p} = {q \in S : p <= q}
      <4>1. \A q \in S : p < q => r <= q
        BY <2>2 DEF r
      <4>2. \A q \in S : p <= q <=> q = p \/ r <= q
        BY <1>1, <3>1, <4>1
      <4> QED
        BY <4>2
    <3>5. S \cup {p} = S
      OBVIOUS
    <3> QED
      BY <3>2, <3>3, <3>4, <3>5 DEF r
  <2> QED
    BY <2>3, <2>4
<1> DEFINE All == {p \in 0 .. BlockUnits : \A q \in Offset : p <= q => q \in Good}
<1>6. 0 .. BlockUnits \subseteq All
  <2> HIDE DEF Good
  <2>1. BlockUnits \in All
    BY <1>1 DEF Offset
  <2>2. ASSUME NEW p \in Offset, p + 1 \in All PROVE p \in All
    <3>1. \A q \in Offset : p < q => q \in Good
      BY <1>1, <2>2
    <3>2. p \in Good
      BY <1>5, <3>1
    <3>3. \A q \in Offset : p <= q => q \in Good
      BY <1>1, <3>1, <3>2
    <3> QED
      BY <1>1, <3>3 DEF Offset
  <2> QED
    BY <2>1, <2>2, FromTheEnd
<1>7. 0 \in Good
  <2> HIDE DEF Good
  <2> QED
    BY <1>1, <1>6
<1>11. /\ w[0] \in Seq(S) /\ w[0] # <<>>
       /\ Range(w[0]) = {q \in S : 0 <= q}
       /\ Last(w[0]) + b[Last(w[0])].rec = BlockUnits
       /\ 0 + b[0].rec < BlockUnits => w[0][2] = 0 + b[0].rec
  BY <1>1, <1>7
<1> HIDE DEF Good
<1>12. 0 + b[0].rec = b[0].rec /\ {q \in S : 0 <= q} = S
  <2>1. \A q \in S : 0 <= q
    BY <1>1
  <2>2. b[0].rec \in Nat
    BY <1>1, <1>3
  <2> QED
    BY <2>1, <2>2
<1>8. /\ Chain(b) \in Seq(S) /\ Chain(b) # <<>>
      /\ Last(Chain(b)) + b[Last(Chain(b))].rec = BlockUnits
      /\ b[0].rec < BlockUnits => Chain(b)[2] = b[0].rec
  BY <1>2, <1>11, <1>12
<1>9. Range(Chain(b)) = S
  BY <1>2, <1>11, <1>12
<1>10. \A p \in S : min_rec_len(b[p].name) <= b[p].rec
  BY DEF Tiled
<1> QED
  BY <1>8, <1>9, <1>10 DEF Parses

\* A block whose records lie one behind the other and fill it.
Well(b) == b \in Block /\ Tiled(b, Range(Chain(b)))

\* Whatever its offsets are taken to be.
LEMMA TiledIsWell ==
  ASSUME NEW b \in Block, NEW S, Tiled(b, S)
  PROVE  Well(b) /\ Range(Chain(b)) = S
BY WalkOfTiled DEF Well

\* What a block is made of.
LEMMA WellFields ==
  ASSUME NEW b, Well(b), NEW p \in Range(Chain(b))
  PROVE  /\ b \in Block /\ p \in Offset /\ p \in Nat /\ 0 <= p /\ p < BlockUnits
         /\ b[p] \in Header /\ b[p].rec \in Nat /\ b[p].rec >= 3
         /\ b[p].name \in Name \cup Dots /\ b[p].ino \in Inode \cup {Self, Parent, Free}
         /\ min_rec_len(b[p].name) \in Nat /\ 3 <= min_rec_len(b[p].name)
         /\ min_rec_len(b[p].name) <= b[p].rec /\ p + b[p].rec <= BlockUnits
         /\ p + b[p].rec < BlockUnits => p + b[p].rec \in Range(Chain(b))
         /\ \A q \in Range(Chain(b)) : p < q => p + b[p].rec <= q
<1>1. /\ b \in Block /\ p \in Offset /\ b[p] \in Header /\ min_rec_len(b[p].name) <= b[p].rec
      /\ p + b[p].rec <= BlockUnits /\ (p + b[p].rec < BlockUnits => p + b[p].rec \in Range(Chain(b)))
      /\ \A q \in Range(Chain(b)) : p < q => p + b[p].rec <= q
  BY DEF Well, Tiled
<1>2. /\ b[p].name \in Name \cup Dots /\ b[p].ino \in Inode \cup {Self, Parent, Free}
      /\ b[p].rec \in 2 .. BlockUnits
  BY <1>1 DEF Header
<1>3. min_rec_len(b[p].name) \in Nat /\ 3 <= min_rec_len(b[p].name) /\ BlockUnits \in Nat
  BY <1>2, RecordLengths
<1>4. p \in Nat /\ 0 <= p /\ p < BlockUnits /\ b[p].rec \in Nat /\ b[p].rec >= 3
  BY <1>1, <1>2, <1>3 DEF Offset
<1> QED
  BY <1>1, <1>2, <1>3, <1>4

\* write_dirent: a record, and no other that is not under it.
LEMMA WriteDirent ==
  ASSUME NEW b \in Block, NEW pos \in Offset, NEW i \in Inode \cup {Self, Parent, Free},
         NEW n \in Name \cup Dots, NEW rec \in 2 .. BlockUnits
  PROVE  LET new == write_dirent(b, pos, i, n, rec) IN
    /\ new \in Block /\ new[pos] = [ino |-> i, name |-> n, rec |-> rec]
    /\ \A u \in Offset : u < pos - 1 \/ pos + min_rec_len(n) <= u => new[u] = b[u]
<1> DEFINE new == write_dirent(b, pos, i, n, rec)
<1>1. min_rec_len(n) \in Nat /\ min_rec_len(n) >= 3 /\ BlockUnits \in Nat
  BY RecordLengths
<1>2. [ino |-> i, name |-> n, rec |-> rec] \in Header
  BY DEF Header
<1>3. new = [u \in Offset |-> IF u = pos THEN [ino |-> i, name |-> n, rec |-> rec]
                              ELSE IF u \in (pos - 1) .. (pos + min_rec_len(n) - 1) THEN Other ELSE b[u]]
  BY DEF write_dirent
<1> HIDE DEF new
<1>4. new \in Block
  BY <1>2, <1>3 DEF Block
<1>5. ASSUME NEW u \in Offset, u < pos - 1 \/ pos + min_rec_len(n) <= u
      PROVE  new[u] = b[u]
  <2>1. u # pos /\ u \notin (pos - 1) .. (pos + min_rec_len(n) - 1)
    BY <1>1, <1>5 DEF Offset
  <2> QED
    BY <1>3, <2>1
<1> QED
  BY <1>3, <1>4, <1>5 DEF new

\* A new block of one record.
LEMMA NewBlock ==
  ASSUME NEW i \in Inode \cup {Self, Parent, Free}, NEW n \in Name \cup Dots, min_rec_len(n) <= BlockUnits
  PROVE  LET new == write_dirent(EmptyBlock, 0, i, n, BlockUnits) IN
         Well(new) /\ Range(Chain(new)) = {0} /\ new[0] = [ino |-> i, name |-> n, rec |-> BlockUnits]
<1> DEFINE new == write_dirent(EmptyBlock, 0, i, n, BlockUnits)
<1>1. BlockUnits \in Nat /\ BlockUnits > 5 /\ 0 \in Offset /\ BlockUnits \in 2 .. BlockUnits
  BY RecordLengths DEF Offset
<1>2. EmptyBlock \in Block
  BY DEF EmptyBlock, Block
<1>3. new \in Block /\ new[0] = [ino |-> i, name |-> n, rec |-> BlockUnits]
  BY <1>1, <1>2, WriteDirent
<1> HIDE DEF new
<1>4. new[0] \in Header
  BY <1>1, <1>3 DEF Header
<1>5. Tiled(new, {0})
  BY <1>1, <1>3, <1>4 DEF Tiled
<1> QED
  BY <1>3, <1>5, TiledIsWell DEF new

\* A record for the name, and the others as they were: what a name is put into,
\* or behind, loses nothing.
Inserted(b, new, pos, n, i) ==
  /\ Well(new) /\ Range(Chain(new)) = Range(Chain(b)) \cup {pos}
  /\ new[pos].name = n /\ new[pos].ino = i
  /\ pos \in Range(Chain(b)) => b[pos].ino = Free
  /\ \A q \in Range(Chain(b)) \ {pos} :
       /\ new[q].name = b[q].name /\ new[q].ino = b[q].ino
       /\ q + b[q].rec < BlockUnits => new[q].rec = b[q].rec
  /\ pos \notin Range(Chain(b)) => \A q \in Range(Chain(b)) : q < pos

\* try_insert_in_block, where the block has room.
LEMMA InsertInBlock ==
  ASSUME NEW b, Well(b), NEW n \in Name \cup Dots, NEW i \in Inode \cup {Self, Parent}, Slots(b, n) # {}
  PROVE  \E pos \in Offset : Inserted(b, try_insert_in_block(b, n, i), pos, n, i)
<1> DEFINE S == Range(Chain(b))
           p == Min(Slots(b, n))
           new == try_insert_in_block(b, n, i)
           actual == min_rec_len(b[p].name)
           len == min_rec_len(n)
<1>1. BlockUnits \in Nat /\ len \in Nat /\ len >= 3
  BY RecordLengths
<1>2. Slots(b, n) \subseteq S /\ S \subseteq Offset /\ b \in Block /\ 0 \in S /\ Offset \subseteq Nat
  BY DEF Slots, Well, Tiled, Offset
<1>3. p \in Slots(b, n)
  BY <1>2, LeastNumber
<1> HIDE DEF p
<1>4. /\ p \in S
      /\ b[p].ino = Free => b[p].rec >= len
      /\ b[p].ino # Free => p + b[p].rec >= BlockUnits /\ b[p].rec - actual >= len
  BY <1>3 DEF Slots
<1>5. /\ p \in Offset /\ b[p] \in Header /\ b[p].rec \in Nat /\ actual \in Nat /\ 3 <= actual
      /\ p + b[p].rec <= BlockUnits /\ p < BlockUnits /\ p \in Nat
      /\ actual <= b[p].rec /\ \A q \in S : p < q => p + b[p].rec <= q
  BY <1>4, WellFields
<1>6. \A q \in S : /\ b[q] \in Header /\ min_rec_len(b[q].name) <= b[q].rec /\ b[q].rec \in Nat /\ b[q].rec >= 3
                   /\ q + b[q].rec <= BlockUnits /\ (q + b[q].rec < BlockUnits => q + b[q].rec \in S)
                   /\ \A r \in S : q < r => q + b[q].rec <= r
  BY WellFields
<1>7. CASE b[p].ino = Free
  <2>1. new = write_dirent(b, p, i, n, b[p].rec) /\ b[p].rec \in 2 .. BlockUnits
    <3>1. b[p].rec \in 2 .. BlockUnits
      BY <1>1, <1>5
    <3> QED
      BY <1>7, <3>1 DEF try_insert_in_block, p
  <2>2. /\ new \in Block /\ new[p] = [ino |-> i, name |-> n, rec |-> b[p].rec]
        /\ \A u \in Offset : u < p - 1 \/ p + len <= u => new[u] = b[u]
    BY <1>2, <1>5, <2>1, WriteDirent
  <2> HIDE DEF new, len, S, actual
  <2>3. ASSUME NEW q \in S, q # p PROVE new[q] = b[q]
    <3>1. q \in Nat /\ p \in Nat /\ q \in Offset
      BY <1>2, <1>4
    <3>2. q < p => q < p - 1
      BY <1>4, <1>6, <3>1
    <3>3. p < q => p + len <= q
      BY <1>1, <1>4, <1>5, <1>7, <3>1
    <3> QED
      BY <2>2, <2>3, <3>1, <3>2, <3>3
  <2>4. new[p] \in Header
    BY <2>1, <2>2 DEF Header
  <2>5. Tiled(new, S)
    <3>1. \A q \in S : new[q].rec = b[q].rec /\ new[q] \in Header /\ min_rec_len(new[q].name) <= new[q].rec
      BY <1>4, <1>6, <1>7, <2>2, <2>3, <2>4 DEF len
    <3> QED
      BY <1>2, <1>6, <3>1 DEF Tiled
  <2>6. Well(new) /\ Range(Chain(new)) = S
    BY <2>2, <2>5, TiledIsWell
  <2>7. S \cup {p} = S
    BY <1>4
  <2>8. Inserted(b, new, p, n, i)
    BY <1>4, <1>7, <2>2, <2>3, <2>6, <2>7 DEF Inserted, S
  <2> QED
    BY <1>5, <2>8 DEF new
<1>8. CASE b[p].ino # Free
  <2> DEFINE short == [b EXCEPT ![p].rec = actual]
             pos == p + actual
             rec == b[p].rec - actual
  <2>1. new = write_dirent(short, pos, i, n, rec)
    BY <1>8 DEF try_insert_in_block, p
  <2>2. p + b[p].rec = BlockUnits /\ pos \in Offset /\ rec \in 2 .. BlockUnits /\ pos + rec = BlockUnits /\ len <= rec
        /\ p < pos - 1 /\ p \in Nat
    BY <1>1, <1>2, <1>4, <1>5, <1>8 DEF Offset
  <2>3. /\ short \in Block /\ short[p] = [b[p] EXCEPT !.rec = actual]
        /\ \A u \in Offset : u # p => short[u] = b[u]
    <3>1. actual \in 2 .. BlockUnits
      BY <1>1, <1>5
    <3>2. [b[p] EXCEPT !.rec = actual] \in Header
      BY <1>5, <3>1 DEF Header
    <3> HIDE DEF actual
    <3>3. short = [b EXCEPT ![p] = [b[p] EXCEPT !.rec = actual]]
      OBVIOUS
    <3> HIDE DEF short
    <3> QED
      BY <1>2, <1>5, <3>2, <3>3 DEF Block
  <2> HIDE DEF short, pos, rec
  <2>4. /\ new \in Block /\ new[pos] = [ino |-> i, name |-> n, rec |-> rec]
        /\ \A u \in Offset : u < pos - 1 \/ pos + len <= u => new[u] = short[u]
    BY <2>1, <2>2, <2>3, WriteDirent
  <2> HIDE DEF new, len, S
  <2>5. \A q \in S : q <= p
    BY <1>2, <1>5, <1>6, <2>2 DEF Offset
  <2>6. new[p] = [b[p] EXCEPT !.rec = actual]
    BY <1>5, <2>2, <2>3, <2>4
  <2>7. ASSUME NEW q \in S, q # p PROVE new[q] = b[q]
    <3>1. q \in Offset /\ q < pos - 1
      <4>1. q \in Offset /\ q \in Nat /\ pos \in Nat /\ p \in Nat /\ q <= p /\ p < pos - 1
        BY <1>2, <1>5, <2>2, <2>5, <2>7
      <4> QED
        BY <4>1
    <3> QED
      BY <2>3, <2>4, <2>7, <3>1
  <2>8. /\ new[p] \in Header /\ new[p].rec = actual /\ new[p].name = b[p].name /\ new[p].ino = b[p].ino
        /\ new[pos] \in Header /\ new[pos].rec = rec /\ new[pos].name = n /\ new[pos].ino = i
    <3>1. actual \in 2 .. BlockUnits
      BY <1>1, <1>5
    <3> HIDE DEF actual
    <3> QED
      BY <1>5, <2>2, <2>4, <2>6, <3>1 DEF Header
  <2>9. Tiled(new, S \cup {pos})
    <3>1. S \cup {pos} \in SUBSET Offset /\ 0 \in S \cup {pos}
      BY <1>2, <2>2
    <3>2. p + actual = pos /\ pos < BlockUnits /\ pos \in Nat /\ rec \in Nat
      BY <1>1, <2>2 DEF pos, Offset
    <3>3. ASSUME NEW q \in S \cup {pos}
          PROVE  /\ new[q] \in Header /\ min_rec_len(new[q].name) <= new[q].rec
                 /\ q + new[q].rec <= BlockUnits
                 /\ q + new[q].rec < BlockUnits => q + new[q].rec \in S \cup {pos}
                 /\ \A r \in S \cup {pos} : q < r => q + new[q].rec <= r
      <4>1. CASE q = pos
        <5>1. new[q] \in Header /\ min_rec_len(new[q].name) <= new[q].rec /\ q + new[q].rec = BlockUnits
          BY <2>2, <2>8, <4>1 DEF len
        <5>2. \A r \in S \cup {pos} : ~(q < r)
          BY <1>2, <2>2, <2>5, <3>2, <4>1
        <5> QED
          BY <1>1, <5>1, <5>2
      <4>2. CASE q = p
        <5>1. new[q] \in Header /\ min_rec_len(new[q].name) <= new[q].rec /\ q + new[q].rec = pos
          BY <1>5, <2>8, <3>2, <4>2
        <5>2. \A r \in S \cup {pos} : q < r => r = pos
          <6>1. \A r \in S : r \in Nat /\ r <= q
            BY <1>2, <2>5, <4>2
          <6>2. q \in Nat
            BY <2>2, <4>2
          <6> QED
            BY <6>1, <6>2
        <5> QED
          BY <1>1, <3>2, <5>1, <5>2
      <4>3. CASE q \in S /\ q # p
        <5>1. new[q] = b[q]
          BY <2>7, <4>3
        <5>2. q \in Nat /\ q < p /\ p < pos /\ b[q].rec \in Nat /\ q + b[q].rec <= p /\ p \in S
          <6>1. q \in Nat /\ p \in Nat /\ pos \in Nat /\ p < pos - 1 /\ p \in S
            BY <1>2, <1>4, <2>2, <3>2, <4>3
          <6>2. q <= p /\ q # p
            BY <2>5, <4>3
          <6>3. b[q].rec \in Nat /\ (q < p => q + b[q].rec <= p)
            BY <1>4, <1>6, <4>3
          <6> QED
            BY <6>1, <6>2, <6>3
        <5> QED
          BY <1>6, <3>2, <4>3, <5>1, <5>2
      <4> QED
        BY <4>1, <4>2, <4>3
    <3> QED
      BY <3>1, <3>3 DEF Tiled
  <2>10. Well(new) /\ Range(Chain(new)) = S \cup {pos}
    BY <2>4, <2>9, TiledIsWell
  <2>11. \A q \in S : q < pos
    BY <1>2, <2>2, <2>5 DEF Offset
  <2>12. \A q \in S \ {pos} : /\ new[q].name = b[q].name /\ new[q].ino = b[q].ino
                              /\ q + b[q].rec < BlockUnits => new[q].rec = b[q].rec
    BY <1>1, <2>2, <2>7, <2>8
  <2>13. pos \notin S
    BY <1>2, <2>2, <2>11 DEF Offset
  <2>14. Inserted(b, new, pos, n, i)
    BY <2>8, <2>10, <2>11, <2>12, <2>13 DEF Inserted, S
  <2> QED
    BY <2>2, <2>14 DEF new
<1> QED
  BY <1>7, <1>8

\* The block with room for p taken by the record before it, or p set free.
LEMMA RemoveInBlock ==
  ASSUME NEW b, Well(b), NEW p \in Live(b)
  PROVE  LET new == WithoutRecord(b, p) IN
    /\ new \in Block
    /\ ~BehindGap(b, p) =>
         /\ Well(new) /\ Live(new) = Live(b) \ {p}
         /\ \A q \in Live(new) : new[q].name = b[q].name /\ new[q].ino = b[q].ino
    /\ Before(b, p) # {} => \A q \in Offset : q # Max(Before(b, p)) => new[q] = b[q]
    /\ Before(b, p) # {} /\ ~BehindGap(b, p) => Range(Chain(new)) = Range(Chain(b)) \ {p}
<1> DEFINE S == Range(Chain(b))
           new == WithoutRecord(b, p)
           q == Max(Before(b, p))
<1>1. BlockUnits \in Nat /\ Free \in Inode \cup {Self, Parent, Free}
  BY RecordLengths
<1>2. Live(b) = {x \in S : b[x].ino # Free} /\ S \subseteq Offset /\ b \in Block /\ 0 \in S /\ Offset \subseteq Nat
  BY DEF Live, Well, Tiled, Offset
<1>3. \A x \in S : /\ b[x] \in Header /\ min_rec_len(b[x].name) <= b[x].rec /\ b[x].rec \in Nat /\ b[x].rec >= 3
                   /\ x + b[x].rec <= BlockUnits /\ (x + b[x].rec < BlockUnits => x + b[x].rec \in S)
                   /\ \A r \in S : x < r => x + b[x].rec <= r
  BY WellFields
<1>4. CASE Before(b, p) = {}
  <2>1. new = [b EXCEPT ![p] = [b[p] EXCEPT !.ino = Free]] /\ p \in S /\ p \in Offset
    BY <1>2, <1>4 DEF WithoutRecord
  <2>2. [b[p] EXCEPT !.ino = Free] \in Header
    BY <1>1, <1>3, <2>1 DEF Header
  <2> HIDE DEF new, S
  <2>3. new \in Block /\ new[p] = [b[p] EXCEPT !.ino = Free] /\ \A x \in Offset : x # p => new[x] = b[x]
    BY <1>2, <2>1, <2>2 DEF Block
  <2>4. \A x \in S : new[x] \in Header /\ new[x].name = b[x].name /\ new[x].rec = b[x].rec
    <3>1. [b[p] EXCEPT !.ino = Free].name = b[p].name /\ [b[p] EXCEPT !.ino = Free].rec = b[p].rec
      BY <1>3, <2>1 DEF Header
    <3> QED
      BY <1>2, <1>3, <2>2, <2>3, <3>1
  <2>5. Tiled(new, S)
    BY <1>2, <1>3, <2>4 DEF Tiled
  <2>6. Well(new) /\ Range(Chain(new)) = S
    BY <2>3, <2>5, TiledIsWell
  <2>7. new[p].ino = Free
    BY <1>3, <2>1, <2>3 DEF Header
  <2>8. Live(new) = Live(b) \ {p}
    BY <1>2, <2>3, <2>6, <2>7 DEF Live
  <2>9. \A x \in Live(new) : new[x].name = b[x].name /\ new[x].ino = b[x].ino
    BY <1>2, <2>3, <2>8
  <2> QED
    BY <1>4, <2>3, <2>6, <2>8, <2>9 DEF new
<1>5. CASE Before(b, p) # {}
  <2>1. /\ Before(b, p) \subseteq S /\ Before(b, p) \subseteq Offset
        /\ \A x \in Before(b, p) : x \in Live(b) /\ x < p
    BY <1>2 DEF Before
  <2>2. q \in Before(b, p) /\ \A x \in Before(b, p) : x <= q
    BY <1>5, <2>1, GreatestOffset
  <2> HIDE DEF q
  <2> DEFINE rec == b[q].rec + b[p].rec
  <2>3. new = [b EXCEPT ![q] = [b[q] EXCEPT !.rec = rec]]
    BY <1>5 DEF WithoutRecord, q
  <2>4. /\ q \in S /\ p \in S /\ q \in Live(b) /\ q < p /\ q \in Nat /\ p \in Nat /\ q \in Offset /\ p \in Offset
        /\ q + b[q].rec <= p /\ b[q].rec \in Nat /\ b[p].rec \in Nat /\ b[q].rec >= 3 /\ b[p].rec >= 3
        /\ p + b[p].rec <= BlockUnits /\ b[q] \in Header
    BY <1>2, <1>3, <2>1, <2>2
  <2>5. rec \in 2 .. BlockUnits /\ [b[q] EXCEPT !.rec = rec] \in Header
    <3>1. rec \in 2 .. BlockUnits
      BY <1>1, <2>4
    <3> HIDE DEF rec
    <3> QED
      BY <2>4, <3>1 DEF Header
  <2> HIDE DEF rec, new, S
  <2>6. /\ new \in Block /\ new[q] = [b[q] EXCEPT !.rec = rec] /\ \A x \in Offset : x # q => new[x] = b[x]
    BY <1>2, <2>3, <2>4, <2>5 DEF Block
  <2>7. /\ new[q].name = b[q].name /\ new[q].ino = b[q].ino /\ new[q].rec = rec
    BY <2>4, <2>6 DEF Header
  <2>8. ASSUME ~BehindGap(b, p)
        PROVE  /\ Well(new) /\ Live(new) = Live(b) \ {p} /\ Range(Chain(new)) = S \ {p}
               /\ \A x \in Live(new) : new[x].name = b[x].name /\ new[x].ino = b[x].ino
    <3>1. \A x \in S : ~(q < x /\ x < p)
      BY <1>5, <2>8 DEF BehindGap, q, S
    <3>2. q + b[q].rec = p
      <4>1. q + b[q].rec < BlockUnits
        BY <1>1, <2>4
      <4>2. q + b[q].rec \in S /\ q < q + b[q].rec
        BY <1>3, <2>4, <4>1
      <4> QED
        BY <2>4, <3>1, <4>2
    <3>3. q + rec = p + b[p].rec
      BY <2>4, <3>2 DEF rec
    <3>4. Tiled(new, S \ {p})
      <4>1. S \ {p} \in SUBSET Offset /\ 0 \in S \ {p}
        BY <1>2, <2>4
      <4>2. ASSUME NEW x \in S \ {p}
            PROVE  /\ new[x] \in Header /\ min_rec_len(new[x].name) <= new[x].rec
                   /\ x + new[x].rec <= BlockUnits
                   /\ x + new[x].rec < BlockUnits => x + new[x].rec \in S \ {p}
                   /\ \A r \in S \ {p} : x < r => x + new[x].rec <= r
        <5>1. CASE x = q
          <6>1. x + new[x].rec = p + b[p].rec
            BY <2>7, <3>3, <5>1
          <6>2. /\ new[x] \in Header /\ min_rec_len(new[x].name) <= new[x].rec
            <7>1. min_rec_len(b[q].name) <= b[q].rec /\ min_rec_len(b[q].name) \in Nat
              BY <1>3, <2>4, RecordLengths DEF Header
            <7>2. min_rec_len(b[q].name) <= rec
              BY <2>4, <7>1 DEF rec
            <7> QED
              BY <2>5, <2>6, <2>7, <5>1, <7>2
          <6>3. \A r \in S \ {p} : q < r => p + b[p].rec <= r
            BY <1>2, <1>3, <2>4, <3>1
          <6>4. p + b[p].rec < BlockUnits => p + b[p].rec \in S \ {p}
            BY <1>3, <2>4
          <6> QED
            BY <1>3, <2>4, <5>1, <6>1, <6>2, <6>3, <6>4
        <5>2. CASE x # q
          <6>1. new[x] = b[x] /\ x \in S /\ x \in Nat /\ b[x].rec \in Nat /\ b[x].rec >= 3
            BY <1>2, <1>3, <2>6, <5>2
          <6>2. x + b[x].rec # p
            <7>1. x < q => x + b[x].rec <= q
              BY <1>3, <2>4, <6>1
            <7>2. x > q => x > p
              BY <2>4, <3>1, <6>1, <4>2
            <7> QED
              BY <2>4, <5>2, <6>1, <7>1, <7>2
          <6> QED
            BY <1>3, <6>1, <6>2
        <5> QED
          BY <5>1, <5>2
      <4> QED
        BY <4>1, <4>2 DEF Tiled
    <3>5. Well(new) /\ Range(Chain(new)) = S \ {p}
      BY <2>6, <3>4, TiledIsWell
    <3>6. \A x \in S \ {p} : new[x].name = b[x].name /\ new[x].ino = b[x].ino
      BY <1>2, <2>6, <2>7
    <3>7. Live(new) = Live(b) \ {p}
      BY <1>2, <3>5, <3>6 DEF Live
    <3> QED
      BY <1>2, <3>5, <3>6, <3>7
  <2> QED
    BY <1>5, <2>6, <2>8 DEF new, S, q
<1> QED
  BY <1>4, <1>5

-----------------------------------------------------------------------------
(* What a block lists. *)

\* The entries of a block.
Listed(b) == {<<b[p].name, b[p].ino>> : p \in Live(b)}

\* No name is in it twice.
Once(b) == \A p, q \in Live(b) : b[p].name = b[q].name => p = q

\* An insertion adds an entry.
LEMMA InsertedEntry ==
  ASSUME NEW b, Well(b), NEW new, NEW pos, NEW n, NEW i \in Inode \cup {Self, Parent}, Inserted(b, new, pos, n, i),
         Once(b), \A p \in Live(b) : b[p].name # n
  PROVE  Listed(new) = Listed(b) \cup {<<n, i>>} /\ Once(new)
<1>1. i # Free
  BY NameAssumption
<1>2. Live(new) = Live(b) \cup {pos} /\ pos \notin Live(b)
  BY <1>1 DEF Live, Inserted
<1>3. /\ new[pos].name = n /\ new[pos].ino = i
      /\ \A q \in Live(b) : new[q].name = b[q].name /\ new[q].ino = b[q].ino
  BY <1>2 DEF Inserted, Live
<1>4. Once(new)
  BY <1>2, <1>3 DEF Once
<1> QED
  BY <1>2, <1>3, <1>4 DEF Listed

\* A removal takes one away.
LEMMA RemovedEntry ==
  ASSUME NEW b, Once(b), NEW p \in Live(b), NEW new, Live(new) = Live(b) \ {p},
         \A q \in Live(new) : new[q].name = b[q].name /\ new[q].ino = b[q].ino
  PROVE  Listed(new) = {e \in Listed(b) : e[1] # b[p].name} /\ Once(new)
<1>1. Once(new)
  BY DEF Once
<1>2. ASSUME NEW e \in Listed(new) PROVE e \in Listed(b) /\ e[1] # b[p].name
  BY <1>2 DEF Listed, Once
<1>3. ASSUME NEW e \in Listed(b), e[1] # b[p].name PROVE e \in Listed(new)
  BY <1>3 DEF Listed
<1> QED
  BY <1>1, <1>2, <1>3

-----------------------------------------------------------------------------
(* The blocks of a directory. *)

\* The entries of all blocks.
Entries(bs) == UNION {Listed(bs[k]) : k \in DOMAIN bs}

\* No name is in two blocks.
Apart(bs) ==
  \A k, l \in DOMAIN bs : k # l => \A p \in Live(bs[k]), q \in Live(bs[l]) : bs[k][p].name # bs[l][q].name

\* Every block is filled with records, and no name is in the directory twice.
Sound(bs) == (\A k \in DOMAIN bs : Well(bs[k]) /\ Once(bs[k])) /\ Apart(bs)

\* A block whose first two records are "." and "..", with no free one in it.
DotsFirst(b) ==
  /\ Well(b) /\ Live(b) = Range(Chain(b))
  /\ b[0].name = Dot /\ b[0].ino = Self /\ b[0].rec < BlockUnits
  /\ b[b[0].rec].name = DotDot /\ b[b[0].rec].ino = Parent

DirInv ==
  /\ blocks \in Seq(Block) /\ Len(blocks) >= 1 /\ damaged \in BOOLEAN
  /\ DotsFirst(blocks[1])
  /\ ~damaged => Sound(blocks)

\* An entry is what a live record of a block stands for.
LEMMA EntriesAre ==
  ASSUME NEW bs, NEW e
  PROVE  e \in Entries(bs) <=> \E k \in DOMAIN bs : e \in Listed(bs[k])
BY DEF Entries

\* An insertion leaves "." and ".." first.
LEMMA DotsStayInserting ==
  ASSUME NEW b, DotsFirst(b), NEW new, NEW pos, NEW n, NEW i \in Inode \cup {Self, Parent},
         Inserted(b, new, pos, n, i)
  PROVE  DotsFirst(new)
<1> DEFINE S == Range(Chain(b))
           r == b[0].rec
<1>1. i # Free
  BY NameAssumption
<1>2. 0 \in S /\ Well(b)
  BY DEF DotsFirst, Well, Tiled
<1>3. r \in S /\ r >= 3 /\ r \in Nat
  <2>1. 0 + b[0].rec = b[0].rec /\ b[0].rec \in Nat
    BY <1>2, WellFields
  <2> QED
    BY <1>2, <2>1, WellFields DEF DotsFirst
<1>4. pos \notin S /\ \A q \in S : q # pos
  BY DEF DotsFirst, Inserted, Live
<1>5. \A q \in S : new[q].name = b[q].name /\ new[q].ino = b[q].ino
  BY <1>4 DEF Inserted
<1>6. new[0].rec = r
  BY <1>2, <1>3, <1>4 DEF DotsFirst, Inserted
<1>7. Live(new) = Range(Chain(new))
  BY <1>1, <1>5 DEF DotsFirst, Inserted, Live
<1> QED
  BY <1>2, <1>3, <1>5, <1>6, <1>7 DEF DotsFirst, Inserted

\* So does the removal of another name, and it meets no gap.
LEMMA DotsStayRemoving ==
  ASSUME NEW b, DotsFirst(b), NEW p \in Live(b), b[p].name \in Name
  PROVE  ~BehindGap(b, p) /\ DotsFirst(WithoutRecord(b, p))
<1> DEFINE S == Range(Chain(b))
           r == b[0].rec
           new == WithoutRecord(b, p)
           q == Max(Before(b, p))
<1>1. 0 \in S /\ Well(b) /\ Live(b) = S /\ S \subseteq Offset
  BY DEF DotsFirst, Well, Tiled
<1>2. r \in S /\ r >= 3 /\ r \in Nat /\ \A x \in S : x \in Nat /\ (0 < x => r <= x)
  <2>1. 0 + b[0].rec = b[0].rec /\ b[0].rec \in Nat
    BY <1>1, WellFields
  <2> QED
    BY <1>1, <2>1, WellFields DEF DotsFirst
<1>3. p # 0 /\ p # r
  BY NameAssumption DEF DotsFirst, Dots
<1>4. p \in S /\ p \in Nat /\ r < p
  BY <1>1, <1>2, <1>3
<1>5. 0 \in Before(b, p) /\ r \in Before(b, p) /\ Before(b, p) \subseteq S
  BY <1>1, <1>2, <1>4 DEF Before
<1>6. q \in Before(b, p) /\ \A x \in Before(b, p) : x <= q
  BY <1>1, <1>5, GreatestOffset
<1> HIDE DEF q
<1>7. ~BehindGap(b, p)
  <2>1. \A x \in S : x < p => x \in Before(b, p)
    BY <1>1 DEF Before
  <2>2. \A x \in S : ~(q < x /\ x < p)
    BY <1>2, <1>5, <1>6, <2>1
  <2> QED
    BY <2>2 DEF BehindGap, q
<1>8. /\ Well(new) /\ Live(new) = Live(b) \ {p} /\ Range(Chain(new)) = S \ {p}
      /\ \A x \in Live(new) : new[x].name = b[x].name /\ new[x].ino = b[x].ino
      /\ \A x \in Offset : x # q => new[x] = b[x]
  BY <1>1, <1>5, <1>7, RemoveInBlock DEF q
<1>9. q # 0 /\ 0 \in Offset
  BY <1>1, <1>2, <1>5, <1>6
<1> HIDE DEF new
<1>10. new[0] = b[0] /\ 0 \in Live(new) /\ r \in Live(new)
  BY <1>1, <1>2, <1>3, <1>8, <1>9
<1> QED
  BY <1>1, <1>7, <1>8, <1>10 DEF DotsFirst, new

\* dir_insert_entry adds an entry: in a block with room, or in one more block.
LEMMA InsertEntry ==
  ASSUME NEW bs \in Seq(Block), Sound(bs), NEW n \in Name \cup Dots, NEW i \in Inode \cup {Self, Parent},
         min_rec_len(n) <= BlockUnits, \A k \in DOMAIN bs : \A p \in Live(bs[k]) : bs[k][p].name # n
  PROVE  LET new == dir_insert_entry(bs, n, i) IN
    /\ new \in Seq(Block) /\ Len(new) >= Len(bs) /\ Len(new) >= 1
    /\ Sound(new) /\ Entries(new) = Entries(bs) \cup {<<n, i>>}
    /\ Len(bs) >= 1 /\ DotsFirst(bs[1]) => DotsFirst(new[1])
<1> DEFINE room == {k \in DOMAIN bs : Slots(bs[k], n) # {}}
           new == dir_insert_entry(bs, n, i)
<1>1. DOMAIN bs = 1 .. Len(bs) /\ Len(bs) \in Nat
  OBVIOUS
<1>2. CASE room # {}
  <2> DEFINE k == Min(room)
             b == bs[k]
             c == try_insert_in_block(b, n, i)
  <2>1. k \in room
    <3>1. room \subseteq Nat
      BY <1>1
    <3> HIDE DEF room
    <3> QED
      BY <1>2, <3>1, LeastNumber
  <2>2. k \in DOMAIN bs /\ Slots(b, n) # {} /\ Well(b) /\ Once(b) /\ \A p \in Live(b) : b[p].name # n
    BY <2>1 DEF Sound
  <2>3. new = [bs EXCEPT ![k] = c]
    BY <1>2 DEF dir_insert_entry
  <2> HIDE DEF k, c, room
  <2>4. PICK pos \in Offset : Inserted(b, c, pos, n, i)
    BY <2>2, InsertInBlock DEF c
  <2>5. Listed(c) = Listed(b) \cup {<<n, i>>} /\ Once(c) /\ Well(c) /\ c \in Block
    <3>1. Well(c) /\ c \in Block
      BY <2>4 DEF Inserted, Well
    <3> HIDE DEF b
    <3>2. Listed(c) = Listed(b) \cup {<<n, i>>} /\ Once(c)
      BY <2>2, <2>4, InsertedEntry
    <3> QED
      BY <3>1, <3>2
  <2> HIDE DEF new, b
  <2>6. new \in Seq(Block) /\ Len(new) = Len(bs) /\ DOMAIN new = DOMAIN bs
        /\ new[k] = c /\ \A l \in DOMAIN bs : l # k => new[l] = bs[l]
    BY <2>2, <2>3, <2>5
  <2>7. \A p \in Live(c) : c[p].name = n \/ \E q \in Live(b) : b[q].name = c[p].name
    <3> TAKE p \in Live(c)
    <3>1. <<c[p].name, c[p].ino>> \in Listed(b) \cup {<<n, i>>}
      BY <2>5 DEF Listed
    <3> QED
      BY <3>1 DEF Listed
  <2>8. Apart(new)
    <3> SUFFICES ASSUME NEW l \in DOMAIN new, NEW m \in DOMAIN new, l # m,
                        NEW p \in Live(new[l]), NEW q \in Live(new[m])
                 PROVE  new[l][p].name # new[m][q].name
      BY DEF Apart
    <3>1. \A l1 \in DOMAIN bs, m1 \in DOMAIN bs : l1 # m1 =>
            \A p1 \in Live(bs[l1]), q1 \in Live(bs[m1]) : bs[l1][p1].name # bs[m1][q1].name
      BY DEF Sound, Apart
    <3>2. CASE l = k
      BY <2>2, <2>6, <2>7, <3>1, <3>2 DEF b
    <3>3. CASE m = k
      BY <2>2, <2>6, <2>7, <3>1, <3>3 DEF b
    <3>4. CASE l # k /\ m # k
      BY <2>6, <3>1, <3>4
    <3> QED
      BY <3>2, <3>3, <3>4
  <2>9. Sound(new)
    BY <2>5, <2>6, <2>8 DEF Sound
  <2>10. Entries(new) = Entries(bs) \cup {<<n, i>>}
    <3>1. \A e : e \in Entries(new) <=> e \in Entries(bs) \/ e = <<n, i>>
      BY <2>2, <2>5, <2>6, EntriesAre DEF b
    <3> QED
      BY <3>1
  <2>11. Len(bs) >= 1 /\ DotsFirst(bs[1]) => DotsFirst(new[1])
    <3>1. CASE k = 1
      BY <2>4, <2>6, <3>1, DotsStayInserting DEF b
    <3>2. CASE k # 1
      BY <1>1, <2>6, <3>2
    <3> QED
      BY <3>1, <3>2
  <2>12. Len(bs) >= 1
    BY <1>1, <2>2
  <2> QED
    BY <2>6, <2>9, <2>10, <2>11, <2>12, <1>1 DEF new
<1>3. CASE room = {}
  <2> DEFINE c == write_dirent(EmptyBlock, 0, i, n, BlockUnits)
             k == Len(bs) + 1
  <2>1. new = Append(bs, c)
    BY <1>3 DEF dir_insert_entry
  <2>2. Well(c) /\ Range(Chain(c)) = {0} /\ c[0] = [ino |-> i, name |-> n, rec |-> BlockUnits] /\ c \in Block
    BY NewBlock DEF Well
  <2> HIDE DEF c, new, room
  <2>3. new \in Seq(Block) /\ Len(new) = k /\ DOMAIN new = DOMAIN bs \cup {k} /\ new[k] = c
        /\ \A l \in DOMAIN bs : l # k /\ new[l] = bs[l]
    BY <1>1, <2>1, <2>2
  <2>4. Live(c) = {0} /\ c[0].name = n /\ c[0].ino = i
    BY <2>2, NameAssumption DEF Live
  <2>5. Listed(c) = {<<n, i>>} /\ Once(c)
    BY <2>4 DEF Listed, Once
  <2> HIDE DEF k
  <2>6. Apart(new)
    <3> SUFFICES ASSUME NEW l \in DOMAIN new, NEW m \in DOMAIN new, l # m,
                        NEW p \in Live(new[l]), NEW q \in Live(new[m])
                 PROVE  new[l][p].name # new[m][q].name
      BY DEF Apart
    <3>1. \A l1 \in DOMAIN bs, m1 \in DOMAIN bs : l1 # m1 =>
            \A p1 \in Live(bs[l1]), q1 \in Live(bs[m1]) : bs[l1][p1].name # bs[m1][q1].name
      BY DEF Sound, Apart
    <3>2. CASE l = k
      BY <2>3, <2>4, <3>2
    <3>3. CASE m = k
      BY <2>3, <2>4, <3>3
    <3>4. CASE l # k /\ m # k
      BY <2>3, <3>1, <3>4
    <3> QED
      BY <3>2, <3>3, <3>4
  <2>7. Sound(new)
    BY <2>2, <2>3, <2>5, <2>6 DEF Sound
  <2>8. Entries(new) = Entries(bs) \cup {<<n, i>>}
    <3>1. \A e : e \in Entries(new) <=> e \in Entries(bs) \/ e = <<n, i>>
      BY <2>3, <2>5, EntriesAre
    <3> QED
      BY <3>1
  <2>9. Len(bs) >= 1 => new[1] = bs[1]
    BY <1>1, <2>3
  <2> QED
    BY <1>1, <2>3, <2>7, <2>8, <2>9 DEF new, k
<1> QED
  BY <1>2, <1>3

-----------------------------------------------------------------------------
(* A new directory. *)

\* create_handle builds one block with "." and "..".
LEMMA NewDirectoryIs ==
  /\ NewDirectory \in Seq(Block) /\ Len(NewDirectory) = 1
  /\ DotsFirst(NewDirectory[1]) /\ Sound(NewDirectory)
  /\ Entries(NewDirectory) = {<<Dot, Self>>, <<DotDot, Parent>>}
<1> DEFINE one == write_dirent(EmptyBlock, 0, Self, Dot, BlockUnits)
           two == try_insert_in_block(one, DotDot, Parent)
<1>1. /\ BlockUnits \in Nat /\ BlockUnits > 5 /\ min_rec_len(Dot) = 3 /\ min_rec_len(DotDot) = 3
      /\ Self \in Inode \cup {Self, Parent} /\ Parent \in Inode \cup {Self, Parent}
      /\ Self \in Inode \cup {Self, Parent, Free}
      /\ Dot \in Name \cup Dots /\ DotDot \in Name \cup Dots /\ Dot # DotDot /\ Self # Free /\ Parent # Free
  BY RecordLengths, NameAssumption DEF Dots, Dot, DotDot
<1>2. Well(one) /\ Range(Chain(one)) = {0} /\ one[0] = [ino |-> Self, name |-> Dot, rec |-> BlockUnits]
  <2>1. min_rec_len(Dot) <= BlockUnits
    BY <1>1
  <2> QED
    BY <1>1, <2>1, NewBlock
<1>3. dir_insert_entry(<<>>, Dot, Self) = <<one>>
  BY DEF dir_insert_entry
<1> HIDE DEF one
<1>4. one \in Block /\ one[0].ino = Self /\ one[0].name = Dot /\ one[0].rec = BlockUnits
  BY <1>2 DEF Well
<1>5. Slots(one, DotDot) # {}
  <2>1. 0 \in Slots(one, DotDot)
    BY <1>1, <1>2, <1>4 DEF Slots
  <2> QED
    BY <2>1
<1>6. NewDirectory = <<two>>
  <2> DEFINE bs == <<one>>
             room == {k \in DOMAIN bs : Slots(bs[k], DotDot) # {}}
  <2>1. room = {1}
    BY <1>5
  <2>2. Min(room) = 1
    <3>1. Min(room) \in room
      BY <2>1, LeastNumber
    <3> QED
      BY <2>1, <3>1
  <2>3. NewDirectory = dir_insert_entry(bs, DotDot, Parent)
    BY <1>3 DEF NewDirectory
  <2>4. dir_insert_entry(bs, DotDot, Parent) = [bs EXCEPT ![Min(room)] = try_insert_in_block(@, DotDot, Parent)]
    BY <2>1 DEF dir_insert_entry
  <2>5. bs[1] = one
    OBVIOUS
  <2> HIDE DEF room
  <2> QED
    BY <2>2, <2>3, <2>4, <2>5
<1>7. PICK pos \in Offset : Inserted(one, two, pos, DotDot, Parent)
  BY <1>1, <1>2, <1>5, InsertInBlock
<1> HIDE DEF two
<1>8. /\ Well(two) /\ two \in Block /\ Range(Chain(two)) = {0, pos} /\ pos # 0
      /\ two[pos].name = DotDot /\ two[pos].ino = Parent /\ two[0].name = Dot /\ two[0].ino = Self
  BY <1>1, <1>2, <1>4, <1>7 DEF Inserted, Well
<1>9. two[0].rec = pos
  <2>1. pos \in Nat /\ 0 < pos
    BY <1>8 DEF Offset
  <2>2. two[0].rec \in Nat /\ 0 + two[0].rec <= pos /\ two[0].rec >= 3
        /\ (0 + two[0].rec < BlockUnits => 0 + two[0].rec \in {0, pos}) /\ pos < BlockUnits
    <3>1. 0 \in Range(Chain(two)) /\ pos \in Range(Chain(two))
      BY <1>8
    <3> QED
      BY <1>8, <2>1, <3>1, WellFields
  <2> QED
    BY <1>1, <2>1, <2>2
<1>10. Live(two) = {0, pos}
  BY <1>1, <1>8 DEF Live
<1>11. DotsFirst(two)
  <2>1. pos < BlockUnits
    BY <1>1 DEF Offset
  <2> QED
    BY <1>8, <1>9, <1>10, <2>1 DEF DotsFirst
<1>12. Listed(two) = {<<Dot, Self>>, <<DotDot, Parent>>} /\ Once(two)
  BY <1>1, <1>8, <1>10 DEF Listed, Once
<1>13. /\ <<two>> \in Seq(Block) /\ Len(<<two>>) = 1 /\ <<two>>[1] = two /\ DOMAIN <<two>> = {1}
  BY <1>8
<1>14. Sound(<<two>>)
  BY <1>8, <1>12, <1>13 DEF Sound, Apart
<1>15. Entries(<<two>>) = {<<Dot, Self>>, <<DotDot, Parent>>}
  <2>1. \A e : e \in Entries(<<two>>) <=> e \in Listed(two)
    BY <1>13, EntriesAre
  <2> QED
    BY <1>12, <2>1
<1> QED
  BY <1>6, <1>11, <1>13, <1>14, <1>15

\* A block more.
LEMMA OneMore ==
  ASSUME NEW T, NEW s \in Seq(T), NEW x \in T
  PROVE  /\ Append(s, x) \in Seq(T) /\ Len(Append(s, x)) = Len(s) + 1
         /\ Append(s, x)[Len(s) + 1] = x /\ \A i \in 1 .. Len(s) : Append(s, x)[i] = s[i]
OBVIOUS

\* lost+found has a further block, of one free record.
LEMMA LostAndFoundIs ==
  /\ LostAndFound \in Seq(Block) /\ Len(LostAndFound) = 2
  /\ DotsFirst(LostAndFound[1]) /\ Sound(LostAndFound)
  /\ Entries(LostAndFound) = {<<Dot, Self>>, <<DotDot, Parent>>}
<1> DEFINE r == [ino |-> Free, name |-> Dot, rec |-> BlockUnits]
           c == [EmptyBlock EXCEPT ![0] = r]
           nd == NewDirectory
           lf == LostAndFound
<1>1. BlockUnits \in Nat /\ BlockUnits > 5 /\ min_rec_len(Dot) = 3 /\ 0 \in Offset /\ Dot \in Name \cup Dots
      /\ BlockUnits \in 2 .. BlockUnits
  BY RecordLengths DEF Offset, Dots
<1>2. r \in Header /\ r.name = Dot /\ r.rec = BlockUnits /\ r.ino = Free
  BY <1>1 DEF Header
<1> HIDE DEF r
<1>3. c \in Block /\ c[0] = r
  BY <1>1, <1>2 DEF EmptyBlock, Block
<1>4. lf = Append(nd, c)
  BY DEF LostAndFound, r
<1> HIDE DEF c, lf, nd
<1>5. Tiled(c, {0})
  BY <1>1, <1>2, <1>3 DEF Tiled
<1>6. Well(c) /\ Range(Chain(c)) = {0}
  BY <1>3, <1>5, TiledIsWell
<1>7. Live(c) = {}
  BY <1>2, <1>3, <1>6 DEF Live
<1>8. Listed(c) = {} /\ Once(c)
  BY <1>7 DEF Listed, Once
<1>9. /\ nd \in Seq(Block) /\ Len(nd) = 1 /\ DotsFirst(nd[1]) /\ Sound(nd)
      /\ Entries(nd) = {<<Dot, Self>>, <<DotDot, Parent>>}
  BY NewDirectoryIs DEF nd
<1>10. /\ lf \in Seq(Block) /\ Len(lf) = 2 /\ lf[1] = nd[1] /\ lf[2] = c
       /\ DOMAIN lf = {1, 2} /\ DOMAIN nd = {1}
  <2>1. lf \in Seq(Block) /\ Len(lf) = 2 /\ lf[1] = nd[1] /\ lf[2] = c
    <3>1. /\ lf \in Seq(Block) /\ Len(lf) = Len(nd) + 1 /\ lf[Len(nd) + 1] = c
          /\ \A i \in 1 .. Len(nd) : lf[i] = nd[i]
      <4>1. nd \in Seq(Block) /\ c \in Block
        BY <1>3, <1>9
      <4> QED
        BY <1>4, <4>1, OneMore, Zenon
    <3> QED
      BY <1>9, <3>1
  <2>2. DOMAIN lf = 1 .. 2 /\ DOMAIN nd = 1 .. 1
    BY <1>9, <2>1
  <2> QED
    BY <2>1, <2>2
<1>11. Sound(lf)
  BY <1>6, <1>7, <1>8, <1>9, <1>10 DEF Sound, Apart
<1>12. Entries(lf) = {<<Dot, Self>>, <<DotDot, Parent>>}
  <2>1. \A e : e \in Entries(lf) <=> e \in Entries(nd)
    BY <1>8, <1>10, EntriesAre
  <2> QED
    BY <1>9, <2>1
<1> QED
  BY <1>9, <1>10, <1>11, <1>12 DEF lf

LEMMA InitEstablishes ==
  Init => DirInv /\ ~damaged /\ Entries(blocks) = {<<Dot, Self>>, <<DotDot, Parent>>}
<1> SUFFICES ASSUME Init
             PROVE  DirInv /\ ~damaged /\ Entries(blocks) = {<<Dot, Self>>, <<DotDot, Parent>>}
  OBVIOUS
<1>1. damaged = FALSE /\ (blocks = NewDirectory \/ blocks = LostAndFound)
  BY DEF Init
<1>2. /\ blocks \in Seq(Block) /\ (Len(blocks) = 1 \/ Len(blocks) = 2) /\ DotsFirst(blocks[1]) /\ Sound(blocks)
      /\ Entries(blocks) = {<<Dot, Self>>, <<DotDot, Parent>>}
  BY <1>1, NewDirectoryIs, LostAndFoundIs
<1>3. Len(blocks) >= 1
  BY <1>2
<1>4. ~damaged /\ damaged \in BOOLEAN
  BY <1>1, Zenon
<1> QED
  BY <1>2, <1>3, <1>4 DEF DirInv

-----------------------------------------------------------------------------
(* A step. *)

\* Adding an entry.
LEMMA AddStep ==
  ASSUME DirInv, NEW n \in Name, NEW i \in Inode, dir_add_entry(n, i)
  PROVE  /\ DirInv' /\ ~damaged' /\ Entries(blocks') = Entries(blocks) \cup {<<n, i>>}
         /\ \A e \in Entries(blocks) : e[1] # n
<1>1. /\ ~damaged /\ Holding(n) = {} /\ blocks' = dir_insert_entry(blocks, n, i) /\ damaged' = damaged
  BY DEF dir_add_entry
<1>2. blocks \in Seq(Block) /\ Len(blocks) >= 1 /\ DotsFirst(blocks[1]) /\ Sound(blocks)
  BY <1>1 DEF DirInv
<1>3. \A k \in DOMAIN blocks : \A p \in Live(blocks[k]) : blocks[k][p].name # n
  BY <1>1 DEF Holding, Found
<1>4. n \in Name \cup Dots /\ i \in Inode \cup {Self, Parent} /\ min_rec_len(n) <= BlockUnits
  BY NamesFit
<1>5. /\ blocks' \in Seq(Block) /\ Len(blocks') >= 1 /\ Sound(blocks')
      /\ Entries(blocks') = Entries(blocks) \cup {<<n, i>>} /\ DotsFirst(blocks'[1])
  BY <1>1, <1>2, <1>3, <1>4, InsertEntry
<1>6. \A e \in Entries(blocks) : e[1] # n
  BY <1>3, EntriesAre DEF Listed
<1> QED
  BY <1>1, <1>5, <1>6 DEF DirInv

\* Removing one.
LEMMA RemoveStep ==
  ASSUME DirInv, NEW n \in Name, dir_remove_entry(n)
  PROVE  /\ DirInv'
         /\ ~damaged' => /\ Entries(blocks') = {e \in Entries(blocks) : e[1] # n}
                         /\ \E e \in Entries(blocks) : e[1] = n
<1> DEFINE k == Min(Holding(n))
           b == blocks[k]
           p == Min(Found(b, n))
           c == WithoutRecord(b, p)
<1>1. /\ ~damaged /\ Holding(n) # {} /\ blocks' = [blocks EXCEPT ![k] = c] /\ damaged' = BehindGap(b, p)
  BY DEF dir_remove_entry
<1>2. blocks \in Seq(Block) /\ Len(blocks) >= 1 /\ DotsFirst(blocks[1]) /\ Sound(blocks)
  BY <1>1 DEF DirInv
<1>3. DOMAIN blocks = 1 .. Len(blocks) /\ Len(blocks) \in Nat
  BY <1>2
<1>4. k \in DOMAIN blocks /\ Found(b, n) # {}
  <2>1. Holding(n) \subseteq Nat /\ \A l \in Holding(n) : l \in DOMAIN blocks /\ Found(blocks[l], n) # {}
    BY <1>3 DEF Holding
  <2>2. k \in Holding(n)
    BY <1>1, <2>1, LeastNumber
  <2> QED
    BY <2>1, <2>2
<1> HIDE DEF k
<1>5. Well(b) /\ Once(b)
  BY <1>2, <1>4 DEF Sound
<1>6. p \in Live(b) /\ b[p].name = n
  <2>1. Found(b, n) \subseteq Nat /\ \A q \in Found(b, n) : q \in Live(b) /\ b[q].name = n
    BY <1>5, WellFields DEF Found, Live
  <2>2. p \in Found(b, n)
    BY <1>4, <2>1, LeastNumber
  <2> QED
    BY <2>1, <2>2
<1> HIDE DEF p
<1>7. c \in Block
  BY <1>5, <1>6, RemoveInBlock
<1>8. /\ blocks' \in Seq(Block) /\ Len(blocks') = Len(blocks) /\ DOMAIN blocks' = DOMAIN blocks
      /\ blocks'[k] = c /\ \A l \in DOMAIN blocks : l # k => blocks'[l] = blocks[l]
  <2> HIDE DEF c
  <2> QED
    BY <1>1, <1>2, <1>4, <1>7
<1>9. DotsFirst(blocks'[1])
  <2>1. CASE k = 1
    BY <1>2, <1>6, <1>8, <2>1, DotsStayRemoving
  <2>2. CASE k # 1
    BY <1>2, <1>3, <1>8, <2>2
  <2> QED
    BY <2>1, <2>2
<1>10. ASSUME ~damaged'
       PROVE  /\ Sound(blocks') /\ Entries(blocks') = {e \in Entries(blocks) : e[1] # n}
              /\ \E e \in Entries(blocks) : e[1] = n
  <2>1. ~BehindGap(b, p)
    BY <1>1, <1>10
  <2>2. /\ Well(c) /\ Live(c) = Live(b) \ {p}
        /\ \A q \in Live(c) : c[q].name = b[q].name /\ c[q].ino = b[q].ino
    BY <1>5, <1>6, <2>1, RemoveInBlock
  <2> HIDE DEF c, b
  <2>3. Listed(c) = {e \in Listed(b) : e[1] # n} /\ Once(c)
    BY <1>5, <1>6, <2>2, RemovedEntry
  <2>4. \A l, m \in DOMAIN blocks : l # m =>
          \A q \in Live(blocks[l]), r \in Live(blocks[m]) : blocks[l][q].name # blocks[m][r].name
    BY <1>2 DEF Sound, Apart
  <2>5. \A l \in DOMAIN blocks : \A q \in Live(blocks'[l]) :
          q \in Live(blocks[l]) /\ blocks'[l][q].name = blocks[l][q].name
    BY <1>8, <2>2 DEF b
  <2>6. Apart(blocks')
    BY <1>8, <2>4, <2>5 DEF Apart
  <2>7. Sound(blocks')
    BY <1>2, <1>8, <2>2, <2>3, <2>6 DEF Sound
  <2>8. \A l \in DOMAIN blocks : l # k => \A e \in Listed(blocks[l]) : e[1] # n
    BY <1>4, <1>6, <2>4 DEF Listed, b
  <2>9. \A e : e \in Entries(blocks') <=> e \in Entries(blocks) /\ e[1] # n
    <3>1. ASSUME NEW e, e \in Entries(blocks') PROVE e \in Entries(blocks) /\ e[1] # n
      BY <1>4, <1>8, <2>3, <2>8, <3>1, EntriesAre DEF b
    <3>2. ASSUME NEW e, e \in Entries(blocks), e[1] # n PROVE e \in Entries(blocks')
      BY <1>4, <1>8, <2>3, <3>2, EntriesAre DEF b
    <3> QED
      BY <3>1, <3>2
  <2>10. <<n, b[p].ino>> \in Entries(blocks)
    BY <1>4, <1>6, EntriesAre DEF Listed, b
  <2> QED
    BY <2>7, <2>9, <2>10
<1>11. damaged' \in BOOLEAN
  BY <1>1 DEF BehindGap
<1> QED
  BY <1>2, <1>8, <1>9, <1>10, <1>11 DEF DirInv

-----------------------------------------------------------------------------
(* The theorems. *)

\* At all times the blocks have the lengths of blocks, the first starts with "."
\* and "..", and until a removal reaches across a free record every block is
\* filled with records and no name is in the directory twice: what
\* dir_insert_entry and dir_remove_entry must keep.
THEOREM DirInvariant == Spec => []DirInv
<1>1. Init => DirInv
  BY InitEstablishes
<1>2. DirInv /\ [Next]_vars => DirInv'
  <2> SUFFICES ASSUME DirInv, [Next]_vars PROVE DirInv'
    OBVIOUS
  <2>1. CASE UNCHANGED vars
    BY <2>1 DEF vars, DirInv
  <2>2. ASSUME NEW n \in Name, dir_remove_entry(n) PROVE DirInv'
    BY <2>2, RemoveStep
  <2>3. ASSUME NEW n \in Name, NEW i \in Inode, dir_add_entry(n, i) PROVE DirInv'
    BY <2>3, AddStep
  <2> QED
    BY <2>1, <2>2, <2>3 DEF Next
<1> QED
  BY <1>1, <1>2, PTL DEF Spec

\* No record that dir_write.rs writes is longer than the block or shorter than a
\* header, in no number of additions and removals.
THEOREM TypeOKTheorem == Spec => []TypeOK
<1>1. DirInv => TypeOK
  BY DEF DirInv, TypeOK
<1> QED
  BY <1>1, DirInvariant, PTL

\* parse_dirent, stricter than the walks of dir_write.rs, accepts every block of
\* a directory in which no removal reached across a free record.
THEOREM ListableTheorem == Spec => []Listable
<1>1. DirInv => Listable
  <2> SUFFICES ASSUME DirInv, ~damaged, NEW k \in DOMAIN blocks PROVE Parses(blocks[k])
    BY DEF Listable
  <2> QED
    BY WalkOfTiled DEF DirInv, Sound, Well
<1> QED
  BY <1>1, DirInvariant, PTL

\* "." and ".." stay the first two records, also in a damaged directory.
THEOREM DotsComeFirstTheorem == Spec => []DotsComeFirst
<1>1. DirInv => DotsComeFirst
  <2> SUFFICES ASSUME DirInv PROVE DotsComeFirst
    OBVIOUS
  <2> DEFINE b == blocks[1]
  <2>1. DotsFirst(b)
    BY DEF DirInv
  <2>2. Parses(b) /\ Chain(b)[2] = b[0].rec
    BY <2>1, WalkOfTiled DEF DotsFirst, Well
  <2> QED
    BY <2>1, <2>2 DEF DotsComeFirst, DotsFirst
<1> QED
  BY <1>1, DirInvariant, PTL

\* What the abstract directory holds.
LEMMA ReadDirEntries == read_dir = Entries(blocks) /\ read_dir' = Entries(blocks')
BY DEF read_dir, Entries, Listed

\* The functions of dir_write.rs implement the abstract directory: a step adds
\* the entry it was asked for, or removes the name and no other, unless it
\* removes a record across a free one.
THEOREM ImplementsDirectoryTheorem == Spec => ImplementsDirectory
<1> DEFINE users(bs) == {e \in Entries(bs) : e[1] \notin Dots}
<1>1. Init => Abstract!Init
  <2> SUFFICES ASSUME Init PROVE Abstract!Init
    OBVIOUS
  <2>1. \A e \in Entries(blocks) : e[1] \in Dots
    BY InitEstablishes DEF Dots
  <2> QED
    BY <2>1, ReadDirEntries DEF Abstract!Init
<1>2. DirInv /\ [Next]_vars => [damaged' \/ Abstract!Next]_vars
  <2> SUFFICES ASSUME DirInv, Next, ~damaged' PROVE Abstract!Next
    OBVIOUS
  <2>1. ASSUME NEW n \in Name, NEW i \in Inode, dir_add_entry(n, i)
        PROVE  Abstract!Add(n, i)
    <3>1. /\ Entries(blocks') = Entries(blocks) \cup {<<n, i>>}
          /\ \A e \in Entries(blocks) : e[1] # n
      BY <2>1, AddStep
    <3>2. n \notin Dots
      BY NameAssumption
    <3>3. users(blocks') = users(blocks) \cup {<<n, i>>}
      BY <3>1, <3>2
    <3> QED
      BY <3>1, <3>3, ReadDirEntries DEF Abstract!Add, Abstract!Uses
  <2>2. ASSUME NEW n \in Name, dir_remove_entry(n)
        PROVE  Abstract!Remove(n)
    <3>1. /\ Entries(blocks') = {e \in Entries(blocks) : e[1] # n}
          /\ \E e \in Entries(blocks) : e[1] = n
      BY <2>2, RemoveStep
    <3>2. n \notin Dots
      BY NameAssumption
    <3>3. users(blocks') = {e \in users(blocks) : e[1] # n}
      BY <3>1
    <3>4. \E e \in users(blocks) : e[1] = n
      BY <3>1, <3>2
    <3> QED
      BY <3>3, <3>4, ReadDirEntries DEF Abstract!Remove, Abstract!Uses
  <2> QED
    BY <2>1, <2>2 DEF Next, Abstract!Next
<1> QED
  BY <1>1, <1>2, DirInvariant, PTL DEF Spec, ImplementsDirectory
=============================================================================
