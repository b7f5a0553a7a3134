-------------------------- MODULE FileBlocksProofs --------------------------
(***************************************************************************)
(* Proofs about FileBlocks for any volume, any limits on nodes and extents *)
(* and any files that another system left.  FileInv says what every tree   *)
(* is that extent_append and extent_truncate are given: extents in the     *)
(* order of the file, an index that divides them among the leaves, one     *)
(* owner for every block.  The lemmas follow the code: the search, the     *)
(* appending to a root, to a leaf, to a leaf that is split, the cut, the   *)
(* loop of a write, the handlers.                                          *)
(***************************************************************************)
EXTENDS FileBlocks, FiniteSetTheorems, TLAPS

-----------------------------------------------------------------------------
(* Numbers and folds. *)

\* The order of the natural numbers.
Less == OpToRel(<, Nat)

\* A set of numbers has a least one.
LEMMA LeastNumber ==
  ASSUME NEW T \in SUBSET Nat, T # {}
  PROVE  Min(T) \in T /\ \A y \in T : Min(T) <= y
<1>1. Less = {e \in Nat \X Nat : e[1] < e[2]}
  BY DEF Less, OpToRel
<1>2. PICK x \in T : \A y \in T : ~(<<y, x>> \in Less)
  <2>1. IsWellFoundedOn(Less, Nat)
    BY NatLessThanWellFounded DEF Less
  <2> HIDE DEF Less
  <2> QED
    BY <2>1, WFMin
<1>3. \A y \in T : ~(y < x)
  BY <1>1, <1>2
<1>4. \A y \in T : x <= y
  BY <1>3
<1> QED
  BY <1>4 DEF Min

\* A set of numbers up to n has a greatest one.
LEMMA GreatestNumber ==
  ASSUME NEW n \in Nat, NEW T \in SUBSET (0 .. n), T # {}
  PROVE  Max(T) \in T /\ \A y \in T : y <= Max(T)
<1> DEFINE M == {n - y : y \in T}
<1>1. M \in SUBSET Nat /\ M # {}
  <2>1. \A y \in T : n - y \in Nat
    OBVIOUS
  <2> QED
    BY <2>1
<1>2. PICK m \in M : \A y \in M : m <= y
  BY <1>1, LeastNumber
<1>3. PICK x \in T : m = n - x
  BY <1>2
<1>4. \A y \in T : y <= x
  <2> TAKE y \in T
  <2>1. n - y \in M
    OBVIOUS
  <2> HIDE DEF M
  <2> QED
    BY <1>2, <1>3, <2>1
<1> QED
  BY <1>3, <1>4 DEF Max

\* Induction up to n.
LEMMA UpTo ==
  ASSUME NEW n \in Nat, NEW S, 0 \in S, \A k \in 1 .. n : k - 1 \in S => k \in S
  PROVE  0 .. n \subseteq S
<1> DEFINE T == {k \in 0 .. n : k \notin S}
<1> SUFFICES ASSUME T # {} PROVE FALSE
  OBVIOUS
<1>1. T \in SUBSET Nat
  OBVIOUS
<1>2. PICK k \in T : \A m \in T : k <= m
  BY <1>1, LeastNumber
<1>3. k # 0 /\ k \in 1 .. n /\ k \notin S
  OBVIOUS
<1>4. k - 1 \in 0 .. n /\ k - 1 \notin T
  BY <1>2, <1>3
<1> QED
  BY <1>3, <1>4

\* A fold over the first n numbers: the function FoldLeft is defined by exists.
Folds(f, n, base, G) ==
  \A s \in SUBSET (1 .. n) : f[s] = IF s = {} THEN base ELSE G[<<f[s \ {Max(s)}], Max(s)>>]

\* The recursive function a fold is made of exists.
LEMMA FoldsExist ==
  ASSUME NEW n \in Nat, NEW V, NEW base \in V, NEW G \in [V \X (1 .. n) -> V]
  PROVE  \E f \in [SUBSET (1 .. n) -> V] : Folds(f, n, base, G)
<1> DEFINE S == {k \in 0 .. n : \E f \in [SUBSET (1 .. k) -> V] : Folds(f, k, base, G)}
<1>1. 0 \in S
  <2> DEFINE f == [s \in SUBSET (1 .. 0) |-> base]
  <2>1. \A s \in SUBSET (1 .. 0) : s = {}
    OBVIOUS
  <2>2. f \in [SUBSET (1 .. 0) -> V] /\ Folds(f, 0, base, G)
    BY <2>1 DEF Folds
  <2> QED
    BY <2>2
<1>2. ASSUME NEW k \in 1 .. n, k - 1 \in S
      PROVE  k \in S
  <2>1. PICK f \in [SUBSET (1 .. (k - 1)) -> V] : Folds(f, k - 1, base, G)
    BY <1>2
  <2> DEFINE g == [s \in SUBSET (1 .. k) |-> IF k \in s THEN G[<<f[s \ {k}], k>>] ELSE f[s]]
  <2>2. \A s \in SUBSET (1 .. k) : (k \notin s => s \in SUBSET (1 .. (k - 1))) /\ s \ {k} \in SUBSET (1 .. (k - 1))
    OBVIOUS
  <2>3. g \in [SUBSET (1 .. k) -> V]
    <3>1. \A s \in SUBSET (1 .. k) : g[s] \in V
      BY <2>2
    <3> QED
      BY <3>1
  <2>4. ASSUME NEW s \in SUBSET (1 .. k)
        PROVE  g[s] = IF s = {} THEN base ELSE G[<<g[s \ {Max(s)}], Max(s)>>]
    <3>1. CASE s = {}
      <4>1. {} \in SUBSET (1 .. (k - 1)) /\ k \notin s
        BY <3>1
      <4>2. f[{}] = base
        BY <2>1, <4>1 DEF Folds
      <4> QED
        BY <3>1, <4>1, <4>2
    <3>2. CASE s # {}
      <4> DEFINE m == Max(s)
      <4>1. m \in s /\ \A y \in s : y <= m
        <5>1. s \in SUBSET (0 .. k) /\ k \in Nat
          OBVIOUS
        <5> QED
          BY <3>2, <5>1, GreatestNumber
      <4> HIDE DEF m
      <4>2. s \ {m} \in SUBSET (1 .. k)
        OBVIOUS
      <4>3. CASE k \in s
        <5>1. m = k
          BY <4>1, <4>3
        <5>2. g[s \ {k}] = f[s \ {k}]
          BY <4>2, <5>1
        <5> QED
          BY <3>2, <4>3, <5>1, <5>2 DEF m
      <4>4. CASE k \notin s
        <5>1. g[s] = f[s] /\ g[s \ {m}] = f[s \ {m}]
          BY <4>2, <4>4
        <5>2. f[s] = G[<<f[s \ {m}], m>>]
          BY <2>1, <2>2, <3>2, <4>4 DEF Folds, m
        <5> QED
          BY <3>2, <5>1, <5>2 DEF m
      <4> QED
        BY <4>3, <4>4
    <3> QED
      BY <3>1, <3>2
  <2> HIDE DEF g
  <2>5. Folds(g, k, base, G)
    BY <2>4 DEF Folds
  <2> QED
    BY <2>3, <2>5
<1>3. n \in S
  <2> HIDE DEF S
  <2> QED
    BY <1>1, <1>2, UpTo
<1> QED
  BY <1>3

\* The values of a fold on the prefixes 1 .. k.
LEMMA FoldPrefixes ==
  ASSUME NEW n \in Nat, NEW k \in 1 .. n
  PROVE  1 .. k \in SUBSET (1 .. n) /\ 1 .. k # {} /\ Max(1 .. k) = k /\ (1 .. k) \ {k} = 1 .. (k - 1)
         /\ 1 .. (k - 1) \in SUBSET (1 .. n) /\ 1 .. 0 = {}
<1>1. Max(1 .. k) \in 1 .. k /\ \A y \in 1 .. k : y <= Max(1 .. k)
  <2>1. 1 .. k \in SUBSET (0 .. k) /\ 1 .. k # {} /\ k \in Nat
    OBVIOUS
  <2> QED
    BY <2>1, GreatestNumber
<1>2. Max(1 .. k) = k
  BY <1>1
<1> QED
  BY <1>2

\* A loop over n entries that collects w[k] for the k in K: the value it has
\* after those in s.
Turn(f, s, K, w) ==
  IF s = {} THEN <<>>
  ELSE IF Max(s) \in K THEN Append(f[s \ {Max(s)}], w[Max(s)]) ELSE f[s \ {Max(s)}]

IsLoop(f, n, K, w) == f = [s \in SUBSET (1 .. n) |-> Turn(f, s, K, w)]

\* A loop that appends some of what it sees can be written as a fold.
LEMMA LoopExists ==
  ASSUME NEW n \in Nat, NEW T, NEW K \in SUBSET (1 .. n), NEW w, \A k \in K : w[k] \in T
  PROVE  \E f : IsLoop(f, n, K, w)
<1> DEFINE G == [x \in Seq(T) \X (1 .. n) |-> IF x[2] \in K THEN Append(x[1], w[x[2]]) ELSE x[1]]
<1>1. G \in [Seq(T) \X (1 .. n) -> Seq(T)]
  <2>1. ASSUME NEW x \in Seq(T) \X (1 .. n)
        PROVE  (IF x[2] \in K THEN Append(x[1], w[x[2]]) ELSE x[1]) \in Seq(T)
    <3>1. x[1] \in Seq(T) /\ x[2] \in 1 .. n
      OBVIOUS
    <3> QED
      BY <3>1
  <2> QED
    BY <2>1
<1>2. PICK f \in [SUBSET (1 .. n) -> Seq(T)] : Folds(f, n, <<>>, G)
  <2> HIDE DEF G
  <2>1. <<>> \in Seq(T)
    OBVIOUS
  <2> QED
    BY <1>1, <2>1, FoldsExist
<1>3. ASSUME NEW s \in SUBSET (1 .. n)
      PROVE  f[s] = Turn(f, s, K, w)
  <2>1. CASE s = {}
    BY <1>2, <2>1 DEF Folds, Turn
  <2>2. CASE s # {}
    <3>1. s \in SUBSET (0 .. n)
      OBVIOUS
    <3>2. Max(s) \in 1 .. n /\ f[s \ {Max(s)}] \in Seq(T)
      BY <1>2, <2>2, <3>1, GreatestNumber
    <3>3. f[s] = G[<<f[s \ {Max(s)}], Max(s)>>]
      BY <1>2, <2>2 DEF Folds
    <3> QED
      BY <2>2, <3>2, <3>3 DEF Turn
  <2> QED
    BY <2>1, <2>2
<1> QED
  BY <1>3 DEF IsLoop

\* c is what it has collected after k entries.
Collected(c, k, T, K, w) ==
  /\ c \in Seq(T) /\ Len(c) <= k
  /\ \A i \in 1 .. k : i \in K <=> i <= Len(c)
  /\ \A i \in 1 .. Len(c) : c[i] = w[i]

\* When the entries kept are the first ones, it collects just these.
LEMMA LoopKeeps ==
  ASSUME NEW n \in Nat, NEW T, NEW K \in SUBSET (1 .. n), NEW w, \A k \in K : w[k] \in T,
         \A k \in K : \A i \in 1 .. n : i < k => i \in K,
         NEW f, IsLoop(f, n, K, w)
  PROVE  Collected(f[1 .. n], n, T, K, w)
<1> DEFINE S == {k \in 0 .. n : Collected(f[1 .. k], k, T, K, w)}
<1>1. f[{}] = <<>>
  BY DEF Turn, IsLoop
<1>2. ASSUME NEW k \in 1 .. n
      PROVE  f[1 .. k] = IF k \in K THEN Append(f[1 .. (k - 1)], w[k]) ELSE f[1 .. (k - 1)]
  <2>1. 1 .. k \in SUBSET (1 .. n) /\ 1 .. k # {} /\ Max(1 .. k) = k /\ (1 .. k) \ {k} = 1 .. (k - 1)
    BY FoldPrefixes
  <2>2. f[1 .. k] = Turn(f, 1 .. k, K, w)
    BY <2>1 DEF IsLoop
  <2> QED
    BY <2>1, <2>2 DEF Turn
<1>3. 0 \in S
  <2>1. 1 .. 0 = {} /\ Collected(<<>>, 0, T, K, w)
    BY DEF Collected
  <2> QED
    BY <1>1, <2>1
<1>4. ASSUME NEW k \in 1 .. n, k - 1 \in S
      PROVE  k \in S
  <2> DEFINE c == f[1 .. (k - 1)]
  <2>1. /\ c \in Seq(T) /\ Len(c) \in Nat /\ Len(c) <= k - 1
        /\ \A i \in 1 .. (k - 1) : i \in K <=> i <= Len(c)
        /\ \A i \in 1 .. Len(c) : c[i] = w[i]
    BY <1>4 DEF Collected
  <2> HIDE DEF c
  <2>2. CASE k \in K
    <3>1. Len(c) = k - 1
      <4>1. \A i \in 1 .. (k - 1) : i \in K
        BY <2>2
      <4>2. CASE k = 1
        BY <2>1, <4>2
      <4>3. CASE k # 1
        <5>1. k - 1 \in 1 .. (k - 1)
          BY <4>3
        <5> QED
          BY <2>1, <4>1, <5>1
      <4> QED
        BY <4>2, <4>3
    <3> DEFINE d == Append(c, w[k])
    <3>2. d \in Seq(T) /\ Len(d) = k /\ d[k] = w[k] /\ \A i \in 1 .. (k - 1) : d[i] = c[i]
      BY <2>1, <2>2, <3>1
    <3>3. f[1 .. k] = d
      BY <1>2, <2>2 DEF c
    <3> HIDE DEF d
    <3>4. Collected(d, k, T, K, w)
      BY <2>1, <2>2, <3>1, <3>2 DEF Collected
    <3> QED
      BY <3>3, <3>4
  <2>3. CASE k \notin K
    <3>1. f[1 .. k] = c
      BY <1>2, <2>3 DEF c
    <3>2. Collected(c, k, T, K, w)
      BY <2>1, <2>3 DEF Collected
    <3> QED
      BY <3>1, <3>2
  <2> QED
    BY <2>2, <2>3
<1>5. n \in S
  <2>1. \A k \in 1 .. n : k - 1 \in S => k \in S
    BY <1>4
  <2> HIDE DEF S
  <2>2. 0 .. n \subseteq S
    BY <1>3, <2>1, UpTo
  <2> QED
    BY <2>2
<1> QED
  BY <1>5

-----------------------------------------------------------------------------
(* What is always so of a tree. *)

\* Extents in the order of the file.
Sorted(es) ==
  /\ es \in Seq(Extent)
  /\ \A i, j \in DOMAIN es : i < j => EndOf(es[i]) <= es[j].lblk

\* A tree of depth 0.
Flat(t) == t.root.depth = 0 /\ Sorted(t.root.entries) /\ Len(t.root.entries) <= RootMax /\ t.leaf = <<>>

\* The index of a tree of depth 1: distinct leaves, each with the extents between
\* its own entry and the next; only the first leaf may be empty, and it covers
\* the file from its beginning.
Indexed(idx, leaves) ==
  /\ \A i, j \in DOMAIN idx : i # j => idx[i].child # idx[j].child
  /\ \A i, j \in DOMAIN idx : i < j => idx[i].lblk <= idx[j].lblk
  /\ \A i \in DOMAIN idx : \A k \in DOMAIN leaves[idx[i].child] :
       LET e == leaves[idx[i].child][k] IN
         /\ idx[i].lblk <= e.lblk
         /\ \A j \in DOMAIN idx : i < j => EndOf(e) <= idx[j].lblk
  /\ \A i \in DOMAIN idx :
       IF i = 1 THEN idx[i].lblk = 0
       ELSE leaves[idx[i].child] # <<>> /\ leaves[idx[i].child][1].lblk = idx[i].lblk

Deep(t) ==
  /\ t.root.depth = 1
  /\ t.root.entries \in Seq(Index) /\ Len(t.root.entries) <= RootMax
  /\ t.leaf = [c \in Children(t.root) |-> t.leaf[c]]
  /\ \A c \in Children(t.root) : Sorted(t.leaf[c]) /\ Len(t.leaf[c]) <= LeafMax
  /\ Indexed(t.root.entries, t.leaf)

\* Its extents, the blocks they map, and all blocks it owns.
Exts(t) == collect_leaves(t.root, t.leaf)
MappedBy(t) == UNION {BlocksOf(e) : e \in Exts(t)}
OwnedBy(t) == MappedBy(t) \cup Children(t.root)

\* Every block has one owner.
OwnedOnce(t) ==
  /\ OwnedBy(t) \subseteq t.used \ Foreign
  /\ MappedBy(t) \cap Children(t.root) = {}
  /\ \A e, f \in Exts(t) : e # f => BlocksOf(e) \cap BlocksOf(f) = {}

\* i_blocks counts what the root maps.
Honest(t) == t.root.depth = 0 => t.iblocks = Cardinality(MappedBy(t))

Fields(t) ==
  /\ t = [root |-> t.root, leaf |-> t.leaf, used |-> t.used, iblocks |-> t.iblocks, why |-> t.why]
  /\ t.root = [depth |-> t.root.depth, entries |-> t.root.entries]
  /\ t.used \in SUBSET Blocks /\ Foreign \subseteq t.used /\ t.iblocks \in Nat /\ t.why \in Outcome

Good(t) == Fields(t) /\ (Flat(t) \/ Deep(t)) /\ OwnedOnce(t) /\ Honest(t)

\* Blocks in use that nothing refers to.
Leaked(t) == t.used \ (Foreign \cup OwnedBy(t))

FileInv ==
  /\ Good(Tree)
  /\ size \in 0 .. MaxUnits /\ outcome \in Outcome /\ suspect \in SUBSET Position
  /\ resize # NoResize => resize.to \in NewSizes
-----------------------------------------------------------------------------
(* The loops over the entries of a node. *)

\* count_iblocks adds up lengths.
LEMMA CountIblocks ==
  ASSUME NEW r, r.depth = 0, r.entries \in Seq(Extent)
  PROVE  LET es == r.entries IN
         \E sum \in [0 .. Len(es) -> Nat] :
           /\ sum[0] = 0 /\ \A k \in 1 .. Len(es) : sum[k] = sum[k - 1] + es[k].len
           /\ count_iblocks(r) = sum[Len(es)]
<1> DEFINE es == r.entries
           n == Len(es)
           G == [x \in Nat \X (1 .. n) |-> x[1] + es[x[2]].len]
           iter == CHOOSE iter : iter = [s \in SUBSET DOMAIN es |->
                                          IF s = {} THEN 0 ELSE iter[s \ {Max(s)}] + es[Max(s)].len]
<1>1. n \in Nat /\ DOMAIN es = 1 .. n /\ \A k \in 1 .. n : es[k] \in Extent
  OBVIOUS
<1>2. \A k \in 1 .. n : es[k].len \in Nat
  BY <1>1, TreeAssumption DEF Extent
<1>3. count_iblocks(r) = iter[DOMAIN es]
  BY DEF count_iblocks, FoldLeft, MapThenFoldSet
<1> HIDE DEF n, es
<1>4. G \in [Nat \X (1 .. n) -> Nat]
  BY <1>1, <1>2
<1>5. PICK f \in [SUBSET (1 .. n) -> Nat] : Folds(f, n, 0, G)
  <2> HIDE DEF G
  <2>1. 0 \in Nat
    OBVIOUS
  <2> QED
    BY <1>1, <1>4, <2>1, FoldsExist
<1>6. \A s \in SUBSET (1 .. n) : s # {} => Max(s) \in s
  <2>1. \A s \in SUBSET (1 .. n) : s \in SUBSET (0 .. n)
    OBVIOUS
  <2> QED
    BY <1>1, <2>1, GreatestNumber
<1>7. f = [s \in SUBSET DOMAIN es |-> IF s = {} THEN 0 ELSE f[s \ {Max(s)}] + es[Max(s)].len]
  <2>1. ASSUME NEW s \in SUBSET (1 .. n)
        PROVE  f[s] = IF s = {} THEN 0 ELSE f[s \ {Max(s)}] + es[Max(s)].len
    <3>1. CASE s = {}
      BY <1>5, <3>1 DEF Folds
    <3>2. CASE s # {}
      <4>1. Max(s) \in 1 .. n /\ f[s \ {Max(s)}] \in Nat
        BY <1>5, <1>6, <3>2
      <4>2. f[s] = G[<<f[s \ {Max(s)}], Max(s)>>]
        BY <1>5, <3>2 DEF Folds
      <4> QED
        BY <3>2, <4>1, <4>2
    <3> QED
      BY <3>1, <3>2
  <2> QED
    BY <1>1, <2>1
<1>8. iter = [s \in SUBSET DOMAIN es |-> IF s = {} THEN 0 ELSE iter[s \ {Max(s)}] + es[Max(s)].len]
  <2>1. \E g : g = [s \in SUBSET DOMAIN es |-> IF s = {} THEN 0 ELSE g[s \ {Max(s)}] + es[Max(s)].len]
    BY <1>7
  <2> QED
    BY <2>1
<1> HIDE DEF iter, G
<1>9. iter[{}] = 0
  BY <1>8
<1>10. ASSUME NEW k \in 1 .. n PROVE iter[1 .. k] = iter[1 .. (k - 1)] + es[k].len
  <2>1. 1 .. k \in SUBSET DOMAIN es /\ 1 .. k # {} /\ Max(1 .. k) = k /\ (1 .. k) \ {k} = 1 .. (k - 1)
    BY <1>1, FoldPrefixes
  <2>2. iter[1 .. k] = IF 1 .. k = {} THEN 0 ELSE iter[(1 .. k) \ {Max(1 .. k)}] + es[Max(1 .. k)].len
    BY <1>8, <2>1
  <2> QED
    BY <2>1, <2>2
<1> DEFINE sum == [k \in 0 .. n |-> iter[1 .. k]]
<1>11. sum[0] = 0 /\ \A k \in 1 .. n : sum[k] = sum[k - 1] + es[k].len
  <2>1. 1 .. 0 = {} /\ 0 \in 0 .. n
    BY <1>1
  <2>2. \A k \in 1 .. n : k \in 0 .. n /\ k - 1 \in 0 .. n
    BY <1>1
  <2> QED
    BY <1>9, <1>10, <2>1, <2>2
<1>12. sum \in [0 .. n -> Nat]
  <2> DEFINE S == {k \in 0 .. n : sum[k] \in Nat}
  <2>1. 0 \in S
    BY <1>1, <1>11
  <2>2. ASSUME NEW k \in 1 .. n, k - 1 \in S PROVE k \in S
    <3>1. k \in 0 .. n /\ sum[k - 1] \in Nat /\ es[k].len \in Nat
      BY <1>1, <1>2, <2>2
    <3> HIDE DEF sum
    <3> QED
      BY <1>11, <3>1
  <2> HIDE DEF S
  <2>3. 0 .. n \subseteq S
    BY <1>1, <2>1, <2>2, UpTo
  <2> QED
    BY <2>3 DEF S
<1>13. count_iblocks(r) = sum[n]
  BY <1>1, <1>3
<1> HIDE DEF sum
<1> QED
  BY <1>11, <1>12, <1>13 DEF n, es

\* What truncate_node keeps of an extent is one.
LEMMA CutAtIs ==
  ASSUME NEW e \in Extent, NEW keep \in Nat, e.lblk < keep
  PROVE  /\ CutAt(e, keep) \in Extent /\ CutAt(e, keep).lblk = e.lblk /\ CutAt(e, keep).start = e.start
         /\ CutAt(e, keep).uninit = e.uninit /\ CutAt(e, keep).len <= e.len
         /\ EndOf(CutAt(e, keep)) <= keep /\ EndOf(CutAt(e, keep)) <= EndOf(e)
         /\ CutAt(e, keep).len = IF EndOf(e) > keep THEN keep - e.lblk ELSE e.len
<1>1. e = [lblk |-> e.lblk, len |-> e.len, start |-> e.start, uninit |-> e.uninit]
      /\ e.lblk \in Nat /\ e.len \in 1 .. MaxExtentLen /\ e.start \in Blocks /\ e.uninit \in BOOLEAN
  BY DEF Extent
<1>2. MaxExtentLen \in Nat
  BY TreeAssumption
<1>3. CASE EndOf(e) > keep
  <2>1. keep - e.lblk \in 1 .. MaxExtentLen /\ keep - e.lblk <= e.len
    BY <1>1, <1>2, <1>3 DEF EndOf
  <2>2. CutAt(e, keep) = [lblk |-> e.lblk, len |-> keep - e.lblk, start |-> e.start, uninit |-> e.uninit]
    BY <1>1, <1>3 DEF CutAt
  <2>3. CutAt(e, keep) \in Extent
    BY <1>1, <2>1, <2>2 DEF Extent
  <2>4. EndOf(CutAt(e, keep)) = keep /\ keep <= EndOf(e)
    BY <1>1, <1>3, <2>2 DEF EndOf
  <2>5. /\ CutAt(e, keep).lblk = e.lblk /\ CutAt(e, keep).start = e.start
        /\ CutAt(e, keep).uninit = e.uninit /\ CutAt(e, keep).len = keep - e.lblk
    BY <2>2
  <2> QED
    BY <1>3, <2>1, <2>3, <2>4, <2>5
<1>4. CASE ~(EndOf(e) > keep)
  <2>1. CutAt(e, keep) = e
    BY <1>4 DEF CutAt
  <2>2. EndOf(e) <= keep /\ EndOf(e) \in Nat
    BY <1>1, <1>4 DEF EndOf
  <2> QED
    BY <1>1, <1>4, <2>1, <2>2
<1> QED
  BY <1>3, <1>4

\* c is what the loop of truncate_node makes of the extents of a leaf.
KeptOf(es, keep, c) ==
  /\ c \in Seq(Extent) /\ Len(c) <= Len(es)
  /\ \A i \in 1 .. Len(es) : es[i].lblk < keep <=> i <= Len(c)
  /\ \A i \in 1 .. Len(c) : c[i] = CutAt(es[i], keep)

\* It keeps a beginning of them, each cut.
LEMMA TruncateLeaf ==
  ASSUME NEW es, Sorted(es), NEW keep \in Nat
  PROVE  KeptOf(es, keep, truncate_leaf(es, keep))
<1> DEFINE n == Len(es)
           K == {k \in 1 .. n : es[k].lblk < keep}
           w == [k \in 1 .. n |-> CutAt(es[k], keep)]
           iter == CHOOSE iter : iter = [s \in SUBSET DOMAIN es |->
                      IF s = {} THEN <<>>
                      ELSE IF es[Max(s)].lblk < keep
                           THEN Append(iter[s \ {Max(s)}], CutAt(es[Max(s)], keep))
                           ELSE iter[s \ {Max(s)}]]
<1>1. n \in Nat /\ DOMAIN es = 1 .. n /\ es \in Seq(Extent) /\ \A k \in 1 .. n : es[k] \in Extent
  BY DEF Sorted
<1>2. truncate_leaf(es, keep) = iter[DOMAIN es]
  BY DEF truncate_leaf, FoldLeft, MapThenFoldSet
<1>3. \A k \in 1 .. n : es[k].lblk \in Nat /\ es[k].len \in Nat /\ EndOf(es[k]) = es[k].lblk + es[k].len
  BY <1>1, TreeAssumption DEF Extent, EndOf
<1>4. \A k \in K : w[k] \in Extent
  BY <1>1, CutAtIs
<1>5. \A k \in K : \A i \in 1 .. n : i < k => i \in K
  <2> TAKE k \in K
  <2> TAKE i \in 1 .. n
  <2> HAVE i < k
  <2>1. EndOf(es[i]) <= es[k].lblk /\ es[k].lblk < keep
    BY <1>1 DEF Sorted
  <2>2. es[i].lblk < keep
    BY <1>3, <2>1
  <2> QED
    BY <2>2
<1>6. ASSUME NEW g, NEW s \in SUBSET (1 .. n)
      PROVE  Turn(g, s, K, w) = IF s = {} THEN <<>>
                                ELSE IF es[Max(s)].lblk < keep
                                     THEN Append(g[s \ {Max(s)}], CutAt(es[Max(s)], keep))
                                     ELSE g[s \ {Max(s)}]
  <2>1. CASE s = {}
    BY <2>1 DEF Turn
  <2>2. CASE s # {}
    <3>1. s \in SUBSET (0 .. n)
      OBVIOUS
    <3>2. Max(s) \in 1 .. n
      BY <1>1, <2>2, <3>1, GreatestNumber
    <3>3. (Max(s) \in K <=> es[Max(s)].lblk < keep) /\ w[Max(s)] = CutAt(es[Max(s)], keep)
      BY <3>2
    <3> HIDE DEF K, w
    <3> QED
      BY <2>2, <3>3 DEF Turn
  <2> QED
    BY <2>1, <2>2
<1>7. IsLoop(iter, n, K, w)
  <2> HIDE DEF K, w
  <2>1. PICK g : IsLoop(g, n, K, w)
    <3>1. K \in SUBSET (1 .. n)
      BY DEF K
    <3> QED
      BY <1>1, <1>4, <3>1, LoopExists
  <2>2. g = [s \in SUBSET DOMAIN es |->
                IF s = {} THEN <<>>
                ELSE IF es[Max(s)].lblk < keep THEN Append(g[s \ {Max(s)}], CutAt(es[Max(s)], keep))
                     ELSE g[s \ {Max(s)}]]
    BY <1>1, <1>6, <2>1 DEF IsLoop
  <2>3. iter = [s \in SUBSET DOMAIN es |->
                IF s = {} THEN <<>>
                ELSE IF es[Max(s)].lblk < keep THEN Append(iter[s \ {Max(s)}], CutAt(es[Max(s)], keep))
                     ELSE iter[s \ {Max(s)}]]
    BY <2>2
  <2> HIDE DEF iter
  <2> QED
    BY <1>1, <1>6, <2>3 DEF IsLoop
<1> HIDE DEF iter
<1> DEFINE c == iter[1 .. n]
<1>8. /\ c \in Seq(Extent) /\ Len(c) <= n
      /\ \A i \in 1 .. n : i \in K <=> i <= Len(c)
      /\ \A i \in 1 .. Len(c) : c[i] = w[i]
  <2>1. K \in SUBSET (1 .. n)
    OBVIOUS
  <2>2. Collected(iter[1 .. n], n, Extent, K, w)
    <3> HIDE DEF K, w
    <3> QED
      BY <1>1, <1>4, <1>5, <1>7, <2>1, LoopKeeps
  <2> HIDE DEF K, w
  <2> QED
    BY <2>2 DEF Collected
<1> HIDE DEF c
<1>9. \A i \in 1 .. Len(c) : c[i] = CutAt(es[i], keep)
  <2>1. \A i \in 1 .. Len(c) : i \in 1 .. n
    BY <1>1, <1>8
  <2> QED
    BY <1>8, <2>1
<1>10. truncate_leaf(es, keep) = c
  BY <1>1, <1>2 DEF c
<1> QED
  BY <1>1, <1>8, <1>9, <1>10 DEF KeptOf

\* c is what it makes of the entries of an index.
FirstOf(idx, keep, c) ==
  /\ c \in Seq(Index) /\ Len(c) <= Len(idx)
  /\ \A i \in 1 .. Len(idx) : idx[i].lblk < keep <=> i <= Len(c)
  /\ \A i \in 1 .. Len(c) : c[i] = idx[i]

\* It keeps a beginning of them.
LEMMA KeptChildrenAre ==
  ASSUME NEW idx \in Seq(Index), \A i, j \in DOMAIN idx : i < j => idx[i].lblk <= idx[j].lblk,
         NEW keep \in Nat
  PROVE  FirstOf(idx, keep, KeptChildren(idx, keep))
<1> DEFINE n == Len(idx)
           K == {k \in 1 .. n : idx[k].lblk < keep}
           iter == CHOOSE iter : iter = [s \in SUBSET DOMAIN idx |->
                      IF s = {} THEN <<>>
                      ELSE IF idx[Max(s)].lblk < keep
                           THEN Append(iter[s \ {Max(s)}], idx[Max(s)])
                           ELSE iter[s \ {Max(s)}]]
<1>1. n \in Nat /\ DOMAIN idx = 1 .. n /\ \A k \in 1 .. n : idx[k] \in Index /\ idx[k].lblk \in Nat
  <2>1. n \in Nat /\ DOMAIN idx = 1 .. n /\ \A k \in 1 .. n : idx[k] \in Index
    OBVIOUS
  <2>2. \A x \in Index : x.lblk \in Nat
    BY DEF Index
  <2> QED
    BY <2>1, <2>2
<1>2. CASE keep = 0
  <2>1. KeptChildren(idx, keep) = <<>>
    BY <1>2 DEF KeptChildren
  <2>2. \A k \in 1 .. n : ~(idx[k].lblk < keep) /\ ~(k <= Len(<<>>))
    BY <1>1, <1>2
  <2>3. FirstOf(idx, keep, <<>>)
    BY <1>1, <2>2 DEF FirstOf
  <2> QED
    BY <2>1, <2>3
<1>3. CASE keep # 0
  <2>2. KeptChildren(idx, keep) = iter[DOMAIN idx]
    BY <1>3 DEF KeptChildren, FoldLeft, MapThenFoldSet
  <2>4. \A k \in K : idx[k] \in Index
    BY <1>1
  <2>5. \A k \in K : \A i \in 1 .. n : i < k => i \in K
    BY <1>1
  <2>6. ASSUME NEW g, NEW s \in SUBSET (1 .. n)
        PROVE  Turn(g, s, K, idx) = IF s = {} THEN <<>>
                                    ELSE IF idx[Max(s)].lblk < keep
                                         THEN Append(g[s \ {Max(s)}], idx[Max(s)])
                                         ELSE g[s \ {Max(s)}]
    <3>1. CASE s = {}
      BY <3>1 DEF Turn
    <3>2. CASE s # {}
      <4>1. s \in SUBSET (0 .. n)
        OBVIOUS
      <4>2. Max(s) \in 1 .. n
        BY <1>1, <3>2, <4>1, GreatestNumber
      <4>3. Max(s) \in K <=> idx[Max(s)].lblk < keep
        BY <4>2
      <4> HIDE DEF K
      <4> QED
        BY <3>2, <4>3 DEF Turn
    <3> QED
      BY <3>1, <3>2
  <2>7. IsLoop(iter, n, K, idx)
    <3>1. PICK g : IsLoop(g, n, K, idx)
      <4>1. K \in SUBSET (1 .. n)
        BY DEF K
      <4> HIDE DEF K
      <4> QED
        BY <1>1, <2>4, <4>1, LoopExists
    <3> HIDE DEF K
    <3>2. g = [s \in SUBSET DOMAIN idx |->
                  IF s = {} THEN <<>>
                  ELSE IF idx[Max(s)].lblk < keep THEN Append(g[s \ {Max(s)}], idx[Max(s)])
                       ELSE g[s \ {Max(s)}]]
      BY <1>1, <2>6, <3>1 DEF IsLoop
    <3>3. iter = [s \in SUBSET DOMAIN idx |->
                  IF s = {} THEN <<>>
                  ELSE IF idx[Max(s)].lblk < keep THEN Append(iter[s \ {Max(s)}], idx[Max(s)])
                       ELSE iter[s \ {Max(s)}]]
      BY <3>2
    <3> HIDE DEF iter
    <3> QED
      BY <1>1, <2>6, <3>3 DEF IsLoop
  <2> HIDE DEF iter
  <2> DEFINE c == iter[1 .. n]
  <2>8. /\ c \in Seq(Index) /\ Len(c) <= n
        /\ \A i \in 1 .. n : i \in K <=> i <= Len(c)
        /\ \A i \in 1 .. Len(c) : c[i] = idx[i]
    <3>1. K \in SUBSET (1 .. n)
      OBVIOUS
    <3> HIDE DEF K
    <3>2. Collected(iter[1 .. n], n, Index, K, idx)
      BY <1>1, <2>4, <2>5, <2>7, <3>1, LoopKeeps
    <3> QED
      BY <3>2 DEF Collected
  <2> HIDE DEF c
  <2>9. KeptChildren(idx, keep) = c
    BY <1>1, <2>2 DEF c
  <2> QED
    BY <1>1, <2>8, <2>9 DEF FirstOf
<1> QED
  BY <1>2, <1>3

-----------------------------------------------------------------------------
(* The extents of a tree. *)

\* The parts of an extent, and what they say of its end and its blocks.
LEMMA ExtentFields ==
  ASSUME NEW e \in Extent
  PROVE  /\ e.lblk \in Nat /\ e.len \in Nat /\ 1 <= e.len /\ e.len <= MaxExtentLen
         /\ e.start \in Blocks /\ e.start \in Nat /\ e.uninit \in BOOLEAN
         /\ EndOf(e) = e.lblk + e.len /\ EndOf(e) \in Nat /\ e.lblk < EndOf(e)
         /\ BlocksOf(e) = e.start .. (e.start + e.len - 1) /\ e.start \in BlocksOf(e)
<1>1. e.lblk \in Nat /\ e.len \in 1 .. MaxExtentLen /\ e.start \in Blocks /\ e.uninit \in BOOLEAN
  BY DEF Extent
<1>2. MaxExtentLen \in Nat /\ e.start \in Nat
  BY <1>1, TreeAssumption DEF Blocks
<1> QED
  BY <1>1, <1>2 DEF EndOf, BlocksOf

\* Where the extents of a tree are.
LEMMA FlatExts ==
  ASSUME NEW t, Flat(t)
  PROVE  /\ \A e : e \in Exts(t) <=> \E k \in DOMAIN t.root.entries : e = t.root.entries[k]
         /\ Children(t.root) = {} /\ Exts(t) \subseteq Extent
<1>1. Exts(t) = {t.root.entries[k] : k \in DOMAIN t.root.entries} /\ Children(t.root) = {}
  BY DEF Flat, Exts, collect_leaves, ToSet, Children
<1>2. \A k \in DOMAIN t.root.entries : t.root.entries[k] \in Extent
  BY DEF Flat, Sorted
<1> QED
  BY <1>1, <1>2

\* At depth 1 they are those of the leaves.
LEMMA DeepExts ==
  ASSUME NEW t, Deep(t)
  PROVE  /\ \A e : e \in Exts(t) <=> \E i \in DOMAIN t.root.entries :
                     \E k \in DOMAIN t.leaf[t.root.entries[i].child] : e = t.leaf[t.root.entries[i].child][k]
         /\ \A c : c \in Children(t.root) <=> \E i \in DOMAIN t.root.entries : c = t.root.entries[i].child
         /\ Exts(t) \subseteq Extent
<1> DEFINE idx == t.root.entries
<1>1. Children(t.root) = {x.child : x \in ToSet(idx)} /\ ToSet(idx) = {idx[i] : i \in DOMAIN idx}
  BY DEF Deep, Children, ToSet
<1>2. \A c : c \in Children(t.root) <=> \E i \in DOMAIN idx : c = idx[i].child
  BY <1>1
<1>3. Exts(t) = UNION {ToSet(t.leaf[c]) : c \in Children(t.root)}
  BY DEF Deep, Exts, collect_leaves
<1>4. \A c \in Children(t.root) : ToSet(t.leaf[c]) = {t.leaf[c][k] : k \in DOMAIN t.leaf[c]}
  BY DEF ToSet
<1>5. \A e : e \in Exts(t) <=> \E c \in Children(t.root) : \E k \in DOMAIN t.leaf[c] : e = t.leaf[c][k]
  BY <1>3, <1>4
<1>6. \A c \in Children(t.root) : \A k \in DOMAIN t.leaf[c] : t.leaf[c][k] \in Extent
  BY DEF Deep, Sorted
<1> QED
  BY <1>2, <1>5, <1>6

\* Two extents of a tree are one behind the other.
LEMMA ExtsApart ==
  ASSUME NEW t, Flat(t) \/ Deep(t), NEW e \in Exts(t), NEW f \in Exts(t), e # f
  PROVE  EndOf(e) <= f.lblk \/ EndOf(f) <= e.lblk
<1>1. CASE Flat(t)
  <2>1. t.root.entries \in Seq(Extent)
        /\ \A i, j \in DOMAIN t.root.entries : i < j => EndOf(t.root.entries[i]) <= t.root.entries[j].lblk
    BY <1>1 DEF Flat, Sorted
  <2>2. PICK i, j \in DOMAIN t.root.entries : e = t.root.entries[i] /\ f = t.root.entries[j] /\ i # j
    BY <1>1, FlatExts
  <2>3. i < j \/ j < i
    <3>1. i \in Nat /\ j \in Nat
      BY <2>1
    <3> QED
      BY <2>2, <3>1
  <2> QED
    BY <2>1, <2>2, <2>3
<1>2. CASE Deep(t)
  <2> DEFINE idx == t.root.entries
  <2>1. idx \in Seq(Index) /\ Indexed(idx, t.leaf)
    BY <1>2 DEF Deep
  <2>2. PICK i \in DOMAIN idx : \E k \in DOMAIN t.leaf[idx[i].child] : e = t.leaf[idx[i].child][k]
    BY <1>2, DeepExts
  <2>3. PICK k \in DOMAIN t.leaf[idx[i].child] : e = t.leaf[idx[i].child][k]
    BY <2>2
  <2>4. PICK j \in DOMAIN idx : \E m \in DOMAIN t.leaf[idx[j].child] : f = t.leaf[idx[j].child][m]
    BY <1>2, DeepExts
  <2>5. PICK m \in DOMAIN t.leaf[idx[j].child] : f = t.leaf[idx[j].child][m]
    BY <2>4
  <2>6. i \in Nat /\ j \in Nat
    BY <2>1
  <2>7. CASE i = j
    <3>1. idx[i].child \in Children(t.root)
      BY <1>2, DeepExts
    <3>2. Sorted(t.leaf[idx[i].child])
      BY <1>2, <3>1 DEF Deep
    <3> DEFINE es == t.leaf[idx[i].child]
    <3>3. es \in Seq(Extent) /\ \A x, y \in DOMAIN es : x < y => EndOf(es[x]) <= es[y].lblk
      BY <3>2 DEF Sorted
    <3>4. k \in DOMAIN es /\ m \in DOMAIN es /\ e = es[k] /\ f = es[m]
      BY <2>3, <2>5, <2>7
    <3> HIDE DEF es
    <3>5. k \in Nat /\ m \in Nat /\ k # m
      BY <3>3, <3>4
    <3>6. k < m \/ m < k
      BY <3>5
    <3> QED
      BY <3>3, <3>4, <3>6
  <2>8. CASE i # j
    <3>1. EndOf(e) \in Int /\ EndOf(f) \in Int /\ e.lblk \in Int /\ f.lblk \in Int
          /\ idx[i].lblk \in Int /\ idx[j].lblk \in Int
      <4>1. e \in Extent /\ f \in Extent
        BY <1>2, DeepExts
      <4>2. idx[i] \in Index /\ idx[j] \in Index
        BY <2>1
      <4> QED
        BY <4>1, <4>2, ExtentFields DEF Index
    <3>2. i < j => EndOf(e) <= idx[j].lblk /\ idx[j].lblk <= f.lblk
      BY <2>1, <2>3, <2>5 DEF Indexed
    <3>3. j < i => EndOf(f) <= idx[i].lblk /\ idx[i].lblk <= e.lblk
      BY <2>1, <2>3, <2>5 DEF Indexed
    <3> QED
      BY <2>6, <2>8, <3>1, <3>2, <3>3
  <2> QED
    BY <2>7, <2>8
<1> QED
  BY <1>1, <1>2

-----------------------------------------------------------------------------
(* The two searches. *)

\* e gives the block of lb.
Covers(e, lb) == ~e.uninit /\ e.lblk <= lb /\ lb < EndOf(e)

\* b is what the extents in E say of lb.
Finds(E, lb, b) ==
  \/ \E e \in E : Covers(e, lb) /\ b = e.start + lb - e.lblk
  \/ (\A e \in E : ~Covers(e, lb)) /\ b = NoBlock

\* They say one thing.
LEMMA FindsOne ==
  ASSUME NEW t, Flat(t) \/ Deep(t), NEW lb \in Nat, NEW b, NEW c, Finds(Exts(t), lb, b), Finds(Exts(t), lb, c)
  PROVE  b = c
<1>1. \A e, f \in Exts(t) : Covers(e, lb) /\ Covers(f, lb) => e = f
  <2> SUFFICES ASSUME NEW e \in Exts(t), NEW f \in Exts(t), Covers(e, lb), Covers(f, lb), e # f
               PROVE  FALSE
    OBVIOUS
  <2>1. e \in Extent /\ f \in Extent
    BY FlatExts, DeepExts
  <2>2. EndOf(e) <= f.lblk \/ EndOf(f) <= e.lblk
    BY ExtsApart
  <2> QED
    BY <2>1, <2>2, ExtentFields DEF Covers
<1> QED
  BY <1>1 DEF Finds

\* The first that passes a test.
LEMMA InLeafFinds ==
  ASSUME NEW es, Sorted(es), NEW lb \in Nat
  PROVE  \/ \E k \in DOMAIN es : Covers(es[k], lb) /\ InLeaf(es, lb) = es[k].start + lb - es[k].lblk
         \/ (\A k \in DOMAIN es : ~Covers(es[k], lb)) /\ InLeaf(es, lb) = NoBlock
<1> DEFINE I == {i \in 1 .. Len(es) : ~es[i].uninit /\ lb \in es[i].lblk .. (EndOf(es[i]) - 1)}
           k == IF I # {} THEN Min(I) ELSE 0
<1>1. InLeaf(es, lb) = IF k = 0 THEN NoBlock ELSE es[k].start + lb - es[k].lblk
  BY DEF InLeaf, SelectInSeq
<1>2. Len(es) \in Nat /\ DOMAIN es = 1 .. Len(es) /\ \A i \in DOMAIN es : es[i] \in Extent
  BY DEF Sorted
<1>3. I = {i \in DOMAIN es : Covers(es[i], lb)}
  <2>1. \A i \in DOMAIN es : es[i].lblk \in Nat /\ EndOf(es[i]) \in Nat
    BY <1>2, ExtentFields
  <2> QED
    BY <1>2, <2>1 DEF Covers
<1> HIDE DEF I
<1>4. CASE I # {}
  <2>1. I \in SUBSET Nat
    BY <1>2, <1>3
  <2>2. k \in I
    BY <1>4, <2>1, LeastNumber
  <2> HIDE DEF k
  <2>3. k # 0 /\ k \in DOMAIN es /\ Covers(es[k], lb)
    BY <1>2, <1>3, <2>2
  <2> QED
    BY <1>1, <2>3
<1>5. CASE I = {}
  BY <1>1, <1>3, <1>5
<1> QED
  BY <1>4, <1>5

\* The descent of a writer, from the copy of the root that is on disk.
LEMMA LookupFinds ==
  ASSUME NEW t, Flat(t) \/ Deep(t), NEW lb \in Nat
  PROVE  Finds(Exts(t), lb, lookup_block(t.root, t.leaf, lb))
<1>1. CASE Flat(t)
  <2>1. lookup_block(t.root, t.leaf, lb) = InLeaf(t.root.entries, lb) /\ Sorted(t.root.entries)
    BY <1>1 DEF Flat, lookup_block
  <2> QED
    BY <1>1, <2>1, InLeafFinds, FlatExts DEF Finds
<1>2. CASE Deep(t)
  <2> DEFINE idx == t.root.entries
             I == {i \in 1 .. Len(idx) : idx[i].lblk > lb}
             beyond == IF I # {} THEN Min(I) ELSE 0
             k == ChildFor(idx, lb)
  <2>1. k = IF beyond = 0 THEN Len(idx) ELSE beyond - 1
    BY DEF ChildFor, SelectInSeq
  <2>2. /\ idx \in Seq(Index) /\ Indexed(idx, t.leaf) /\ Len(idx) \in Nat /\ DOMAIN idx = 1 .. Len(idx)
        /\ \A i \in DOMAIN idx : idx[i].lblk \in Nat
    <3>1. idx \in Seq(Index) /\ Indexed(idx, t.leaf)
      BY <1>2 DEF Deep
    <3>2. \A i \in DOMAIN idx : idx[i] \in Index
      BY <3>1
    <3> QED
      BY <3>1, <3>2 DEF Index
  <2>3. k \in 0 .. Len(idx) /\ (\A i \in 1 .. k : idx[i].lblk <= lb)
        /\ \A i \in DOMAIN idx : k < i => lb < idx[i].lblk
    <3>1. CASE I = {}
      <4>1. k = Len(idx)
        BY <2>1, <3>1
      <4> QED
        BY <2>2, <3>1, <4>1
    <3>2. CASE I # {}
      <4>1. I \in SUBSET Nat
        OBVIOUS
      <4>2. beyond \in I /\ \A i \in I : beyond <= i
        BY <3>2, <4>1, LeastNumber
      <4> HIDE DEF beyond
      <4>3. beyond \in 1 .. Len(idx) /\ lb < idx[beyond].lblk /\ \A i \in 1 .. Len(idx) : i < beyond => ~(lb < idx[i].lblk)
        <5>1. \A i \in 1 .. Len(idx) : i \in I <=> lb < idx[i].lblk
          BY <2>2
        <5>2. I \subseteq 1 .. Len(idx)
          OBVIOUS
        <5> HIDE DEF I
        <5> QED
          BY <2>2, <4>2, <5>1, <5>2
      <4> HIDE DEF I
      <4>4. k = beyond - 1
        BY <2>1, <4>3
      <4> HIDE DEF k
      <4>5. k \in 0 .. Len(idx) /\ \A i \in 1 .. k : idx[i].lblk <= lb
        BY <2>2, <4>3, <4>4
      <4>6. ASSUME NEW i \in DOMAIN idx, k < i PROVE lb < idx[i].lblk
        <5>1. i = beyond \/ beyond < i
          BY <2>2, <4>3, <4>4, <4>6
        <5>2. beyond < i => idx[beyond].lblk <= idx[i].lblk
          BY <2>2, <4>3 DEF Indexed
        <5> QED
          BY <2>2, <4>3, <5>1, <5>2
      <4> QED
        BY <4>5, <4>6
    <3> QED
      BY <3>1, <3>2
  <2> HIDE DEF k, I, beyond
  <2>4. ASSUME NEW i \in DOMAIN idx, NEW m \in DOMAIN t.leaf[idx[i].child], Covers(t.leaf[idx[i].child][m], lb)
        PROVE  i = k
    <3> DEFINE e == t.leaf[idx[i].child][m]
    <3>1. e \in Exts(t)
      BY <1>2, DeepExts
    <3>2. e \in Extent
      BY <1>2, <3>1, DeepExts
    <3>3. idx[i].lblk <= e.lblk /\ \A j \in DOMAIN idx : i < j => EndOf(e) <= idx[j].lblk
      BY <2>2 DEF Indexed
    <3> HIDE DEF e
    <3>4. e.lblk <= lb /\ lb < EndOf(e) /\ e.lblk \in Nat /\ EndOf(e) \in Nat
      BY <2>4, <3>2, ExtentFields DEF Covers, e
    <3>5. idx[i].lblk <= lb
      BY <2>2, <3>3, <3>4
    <3>6. ~(k < i)
      BY <2>2, <2>3, <3>5
    <3>7. ~(i < k)
      <4> SUFFICES ASSUME i < k PROVE FALSE
        OBVIOUS
      <4>1. k \in 1 .. k /\ k \in DOMAIN idx
        BY <2>2, <2>3
      <4>2. idx[k].lblk <= lb /\ EndOf(e) <= idx[k].lblk
        BY <2>3, <3>3, <4>1
      <4> QED
        BY <2>2, <3>4, <4>1, <4>2
    <3> QED
      BY <2>2, <2>3, <3>6, <3>7
  <2>5. CASE k = 0
    <3>1. lookup_block(t.root, t.leaf, lb) = NoBlock
      BY <1>2, <2>5 DEF Deep, lookup_block, k
    <3>2. \A e \in Exts(t) : ~Covers(e, lb)
      <4> SUFFICES ASSUME NEW e \in Exts(t), Covers(e, lb) PROVE FALSE
        OBVIOUS
      <4>1. PICK i \in DOMAIN idx : \E m \in DOMAIN t.leaf[idx[i].child] : e = t.leaf[idx[i].child][m]
        BY <1>2, DeepExts
      <4>2. i = 0
        BY <2>4, <2>5, <4>1
      <4> QED
        BY <2>2, <4>1, <4>2
    <3> QED
      BY <3>1, <3>2 DEF Finds
  <2>6. CASE k # 0
    <3> DEFINE es == t.leaf[idx[k].child]
    <3>1. lookup_block(t.root, t.leaf, lb) = InLeaf(es, lb)
      BY <1>2, <2>6 DEF Deep, lookup_block, k
    <3>2. k \in DOMAIN idx
      BY <2>2, <2>3, <2>6
    <3>3. Sorted(es)
      BY <1>2, <3>2, DeepExts DEF Deep
    <3>4. CASE \E m \in DOMAIN es : Covers(es[m], lb) /\ InLeaf(es, lb) = es[m].start + lb - es[m].lblk
      <4>1. \A m \in DOMAIN es : es[m] \in Exts(t)
        BY <1>2, <3>2, DeepExts
      <4> QED
        BY <3>1, <3>4, <4>1 DEF Finds
    <3>5. CASE (\A m \in DOMAIN es : ~Covers(es[m], lb)) /\ InLeaf(es, lb) = NoBlock
      <4>1. \A e \in Exts(t) : ~Covers(e, lb)
        BY <1>2, <2>4, <3>5, DeepExts
      <4> QED
        BY <3>1, <3>5, <4>1 DEF Finds
    <3> QED
      BY <3>3, <3>4, <3>5, InLeafFinds
  <2> QED
    BY <2>5, <2>6
<1> QED
  BY <1>1, <1>2

\* The search of a reader in the extents it has collected.
LEMMA ResolveFinds ==
  ASSUME NEW t, Flat(t) \/ Deep(t), NEW lb \in Nat
  PROVE  Finds(Exts(t), lb, resolve_lblock(t.root, t.leaf, lb))
<1> DEFINE E == Exts(t)
           before == {e \in E : e.lblk <= lb}
           last == CHOOSE e \in before : \A f \in before : f.lblk <= e.lblk
           b == resolve_lblock(t.root, t.leaf, lb)
<1>1. b = IF before = {} THEN NoBlock
          ELSE IF last.uninit \/ lb >= EndOf(last) THEN NoBlock ELSE last.start + lb - last.lblk
  BY DEF resolve_lblock, Exts
<1>2. \A e \in E : e \in Extent /\ e.lblk \in Nat /\ EndOf(e) \in Nat /\ e.lblk < EndOf(e)
  BY FlatExts, DeepExts, ExtentFields
<1>3. \A e, f \in E : e # f => EndOf(e) <= f.lblk \/ EndOf(f) <= e.lblk
  BY ExtsApart
<1> HIDE DEF E
<1>4. CASE before = {}
  BY <1>1, <1>4 DEF Finds, Covers, E
<1>5. CASE before # {}
  <2>1. PICK x \in before : \A f \in before : f.lblk <= x.lblk
    <3> DEFINE L == {e.lblk : e \in before}
    <3>1. L \in SUBSET (0 .. lb) /\ L # {}
      BY <1>2, <1>5
    <3> HIDE DEF before
    <3>2. Max(L) \in L /\ \A y \in L : y <= Max(L)
      <4> HIDE DEF L
      <4> QED
        BY <3>1, GreatestNumber
    <3> QED
      BY <3>2
  <2>2. last \in before /\ \A f \in before : f.lblk <= last.lblk
    BY <2>1
  <2> HIDE DEF last
  <2>3. last \in E /\ last.lblk <= lb /\ \A f \in E : f.lblk <= lb => f.lblk <= last.lblk
    BY <2>2
  <2>4. b = IF last.uninit \/ lb >= EndOf(last) THEN NoBlock ELSE last.start + lb - last.lblk
    BY <1>1, <1>5
  <2> HIDE DEF before, b
  <2>5. \A e \in E : Covers(e, lb) => e = last
    BY <1>2, <1>3, <2>3 DEF Covers
  <2>6. CASE last.uninit \/ lb >= EndOf(last)
    <3>1. ~Covers(last, lb)
      BY <1>2, <2>3, <2>6 DEF Covers
    <3> QED
      BY <2>4, <2>5, <2>6, <3>1 DEF Finds, E, b
  <2>7. CASE ~(last.uninit \/ lb >= EndOf(last))
    <3>1. Covers(last, lb)
      BY <1>2, <2>3, <2>7 DEF Covers
    <3> QED
      BY <2>3, <2>4, <2>7, <3>1 DEF Finds, E, b
  <2> QED
    BY <2>6, <2>7
<1> QED
  BY <1>4, <1>5

\* What the writer finds and what the reader finds is the same block.
LEMMA SearchesAgree ==
  ASSUME NEW t, Flat(t) \/ Deep(t), NEW lb \in Nat
  PROVE  lookup_block(t.root, t.leaf, lb) = resolve_lblock(t.root, t.leaf, lb)
BY FindsOne, LookupFinds, ResolveFinds

-----------------------------------------------------------------------------
(* The allocator. *)

\* n blocks in a row that are not in use.
RunOf(phys, n) == phys .. (phys + n - 1)

\* A run that is found is free.
LEMMA FirstFreeRun ==
  ASSUME NEW bs, NEW g \in Group, NEW n \in Nat \ {0}
  PROVE  LET b == first_free_run(bs, g, n) IN
         b # NoBlock => b \in Blocks /\ RunOf(b, n) \subseteq Blocks \ bs
<1> DEFINE lo == g * GroupSize
           hi == (g + 1) * GroupSize
           runs == {x \in lo .. (hi - n) : \A i \in 0 .. (n - 1) : x + i \notin bs}
           b == first_free_run(bs, g, n)
<1>1. GroupSize \in Nat /\ GroupCount \in Nat /\ g \in Nat /\ g + 1 <= GroupCount
  BY TreeAssumption DEF Group
<1>2. lo \in Nat /\ hi \in Nat /\ hi <= GroupCount * GroupSize /\ GroupCount * GroupSize \in Nat
  <2>1. \A x, y, z \in Nat : x <= y => x * z <= y * z
    OBVIOUS
  <2>2. \A x, y \in Nat : x * y \in Nat
    OBVIOUS
  <2> QED
    BY <1>1, <2>1, <2>2
<1>3. b = IF runs = {} THEN NoBlock ELSE Min(runs)
  BY DEF first_free_run
<1> HIDE DEF lo, hi, b
<1>4. CASE runs = {}
  BY <1>3, <1>4 DEF b
<1>5. CASE runs # {}
  <2>1. runs \in SUBSET Nat
    BY <1>2
  <2>2. b \in runs
    <3> HIDE DEF runs
    <3> QED
      BY <1>3, <1>5, <2>1, LeastNumber
  <2>3. b \in Nat /\ lo <= b /\ b + n <= hi /\ \A i \in 0 .. (n - 1) : b + i \notin bs
    BY <1>2, <2>2
  <2>4. b \in Blocks
    BY <1>2, <2>3 DEF Blocks
  <2>5. ASSUME NEW x \in RunOf(b, n) PROVE x \in Blocks /\ x \notin bs
    <3>1. x - b \in 0 .. (n - 1) /\ b + (x - b) = x
      BY <2>3 DEF RunOf
    <3>2. x \notin bs
      BY <2>3, <3>1
    <3> QED
      BY <1>2, <2>3, <3>2 DEF Blocks, RunOf
  <2> QED
    BY <2>4, <2>5 DEF b
<1> QED
  BY <1>4, <1>5

\* Whichever group it is found in.
LEMMA AllocBlocks ==
  ASSUME NEW bs, NEW n \in Nat \ {0}, NEW hint \in Nat
  PROVE  LET b == alloc_blocks(bs, n, hint) IN
         b # NoBlock => b \in Blocks /\ RunOf(b, n) \subseteq Blocks \ bs
<1> DEFINE run == [i \in 1 .. GroupCount |-> first_free_run(bs, (hint + i - 1) % GroupCount, n)]
           I == {i \in 1 .. Len(run) : run[i] # NoBlock}
           k == IF I # {} THEN Min(I) ELSE 0
           b == alloc_blocks(bs, n, hint)
<1>1. b = IF k = 0 THEN NoBlock ELSE run[k]
  BY DEF alloc_blocks, SelectInSeq
<1>2. Len(run) = GroupCount /\ GroupCount \in Nat \ {0}
  BY TreeAssumption
<1> HIDE DEF b
<1>3. CASE I = {}
  BY <1>1, <1>3 DEF b
<1>4. CASE I # {}
  <2>1. I \in SUBSET Nat
    OBVIOUS
  <2>2. k \in I
    <3> HIDE DEF I
    <3> QED
      BY <1>4, <2>1, LeastNumber
  <2> HIDE DEF k
  <2>3. k \in 1 .. GroupCount /\ k \in Nat
    BY <1>2, <2>2
  <2>4. (hint + k - 1) % GroupCount \in Group
    <3>1. \A x \in Nat, m \in Nat \ {0} : x % m \in 0 .. (m - 1)
      OBVIOUS
    <3>2. hint + k - 1 \in Nat
      BY <2>3
    <3> QED
      BY <1>2, <3>1, <3>2 DEF Group
  <2>5. b = first_free_run(bs, (hint + k - 1) % GroupCount, n)
    BY <1>1, <2>3
  <2> HIDE DEF run, I
  <2> DEFINE g == (hint + k - 1) % GroupCount
  <2>6. g \in Group
    BY <2>4
  <2> HIDE DEF g
  <2>7. LET f == first_free_run(bs, g, n) IN f # NoBlock => f \in Blocks /\ RunOf(f, n) \subseteq Blocks \ bs
    BY <2>6, FirstFreeRun
  <2> QED
    BY <2>5, <2>7 DEF b, g
<1> QED
  BY <1>3, <1>4

-----------------------------------------------------------------------------
(* More extents. *)

\* F are the extents of E with the blocks of run beside them: in an extent of
\* their own, or as a part of one that was there.
Replaced(E, F, run) ==
  \/ \E y \in Extent : F = E \cup {y} /\ BlocksOf(y) = run
  \/ \E x \in E, y \in Extent : F = (E \ {x}) \cup {y} /\ BlocksOf(y) = BlocksOf(x) \cup run

\* No block is in two extents.
Disjoint(E) == \A e, f \in E : e # f => BlocksOf(e) \cap BlocksOf(f) = {}

AllBlocks(E) == UNION {BlocksOf(e) : e \in E}

\* The blocks of the extents then are the old ones and the run.
LEMMA ReplacedBlocks ==
  ASSUME NEW E, NEW F, NEW run, Replaced(E, F, run), Disjoint(E), AllBlocks(E) \cap run = {}
  PROVE  AllBlocks(F) = AllBlocks(E) \cup run /\ Disjoint(F)
<1>1. \A e \in E : BlocksOf(e) \cap run = {}
  BY DEF AllBlocks
<1>2. CASE \E y \in Extent : F = E \cup {y} /\ BlocksOf(y) = run
  <2>1. PICK y : F = E \cup {y} /\ BlocksOf(y) = run
    BY <1>2
  <2>2. \A b : b \in AllBlocks(F) <=> b \in AllBlocks(E) \/ b \in run
    BY <2>1 DEF AllBlocks
  <2> QED
    BY <1>1, <2>1, <2>2 DEF Disjoint
<1>3. CASE \E x \in E, y \in Extent : F = (E \ {x}) \cup {y} /\ BlocksOf(y) = BlocksOf(x) \cup run
  <2>1. PICK x \in E, y \in Extent : F = (E \ {x}) \cup {y} /\ BlocksOf(y) = BlocksOf(x) \cup run
    BY <1>3
  <2>2. \A b : b \in AllBlocks(F) <=> b \in AllBlocks(E) \/ b \in run
    <3>1. ASSUME NEW b, b \in AllBlocks(F) PROVE b \in AllBlocks(E) \/ b \in run
      BY <2>1, <3>1 DEF AllBlocks
    <3>2. ASSUME NEW b, b \in AllBlocks(E) PROVE b \in AllBlocks(F)
      <4>1. PICK e \in E : b \in BlocksOf(e)
        BY <3>2 DEF AllBlocks
      <4>2. CASE e = x
        <5>1. b \in BlocksOf(y) /\ y \in F
          BY <2>1, <4>1, <4>2
        <5> QED
          BY <5>1 DEF AllBlocks
      <4>3. CASE e # x
        BY <2>1, <4>1, <4>3 DEF AllBlocks
      <4> QED
        BY <4>2, <4>3
    <3>3. ASSUME NEW b \in run PROVE b \in AllBlocks(F)
      <4>1. b \in BlocksOf(y) /\ y \in F
        BY <2>1
      <4> QED
        BY <4>1 DEF AllBlocks
    <3> QED
      BY <3>1, <3>2, <3>3
  <2>3. ASSUME NEW e \in F, NEW f \in F, e # f PROVE BlocksOf(e) \cap BlocksOf(f) = {}
    <3>1. CASE e = y
      <4>1. f \in E /\ f # x
        BY <2>1, <2>3, <3>1
      <4>2. BlocksOf(f) \cap BlocksOf(x) = {} /\ BlocksOf(f) \cap run = {}
        BY <1>1, <2>1, <4>1 DEF Disjoint
      <4> QED
        BY <2>1, <3>1, <4>2
    <3>2. CASE f = y
      <4>1. e \in E /\ e # x
        BY <2>1, <2>3, <3>2
      <4>2. BlocksOf(e) \cap BlocksOf(x) = {} /\ BlocksOf(e) \cap run = {}
        BY <1>1, <2>1, <4>1 DEF Disjoint
      <4> QED
        BY <2>1, <3>2, <4>2
    <3>3. CASE e # y /\ f # y
      BY <2>1, <2>3, <3>3 DEF Disjoint
    <3> QED
      BY <3>1, <3>2, <3>3
  <2> QED
    BY <2>2, <2>3 DEF Disjoint
<1> QED
  BY <1>2, <1>3 DEF Replaced

\* c is a leaf es with the blocks of run at its end.
Extended(es, c, run) ==
  /\ Sorted(c) /\ c # <<>> /\ Len(c) <= Len(es) + 1
  /\ c[1].lblk = IF es = <<>> THEN 0 ELSE es[1].lblk
  /\ Replaced(ToSet(es), ToSet(c), run)

\* Making the last extent longer is one way.
LEMMA Coalesced ==
  ASSUME NEW es, Sorted(es), NEW n \in Nat \ {0}, NEW phys \in Nat, can_coalesce(es, phys, n)
  PROVE  Extended(es, coalesce(es, n), RunOf(phys, n)) /\ Len(coalesce(es, n)) = Len(es)
<1> DEFINE L == Len(es)
           x == es[L]
           y == [x EXCEPT !.len = @ + n]
           c == coalesce(es, n)
<1>1. es \in Seq(Extent) /\ L \in Nat /\ L # 0 /\ L \in 1 .. L /\ DOMAIN es = 1 .. L
  <2>1. es \in Seq(Extent) /\ es # <<>>
    BY DEF Sorted, can_coalesce
  <2> QED
    BY <2>1
<1>2. \A k \in 1 .. L : es[k] \in Extent
  BY <1>1
<1>3. x.start + x.len = phys /\ x.len + n <= MaxExtentLen /\ ~x.uninit
  BY <1>1 DEF can_coalesce, Last
<1>4. x \in Extent /\ x = [lblk |-> x.lblk, len |-> x.len, start |-> x.start, uninit |-> x.uninit]
  BY <1>1, <1>2 DEF Extent
<1>5. y = [lblk |-> x.lblk, len |-> x.len + n, start |-> x.start, uninit |-> x.uninit]
  BY <1>4
<1>6. c = [es EXCEPT ![L] = y]
  BY DEF coalesce
<1> HIDE DEF c, y
<1>7. MaxExtentLen \in Nat /\ x.len \in Nat /\ x.start \in Nat /\ x.lblk \in Nat /\ 1 <= x.len
  BY <1>4, ExtentFields, TreeAssumption
<1>8. y \in Extent /\ y.lblk = x.lblk
  <2>1. x.len + n \in 1 .. MaxExtentLen
    BY <1>3, <1>7
  <2>2. x.lblk \in Nat /\ x.start \in Blocks /\ x.uninit \in BOOLEAN
    BY <1>4, ExtentFields
  <2> HIDE DEF x
  <2> QED
    BY <1>5, <2>1, <2>2 DEF Extent
<1>9. BlocksOf(y) = BlocksOf(x) \cup RunOf(phys, n)
  <2>1. y.start = x.start /\ y.len = x.len + n
    BY <1>5
  <2> HIDE DEF x
  <2> QED
    BY <1>3, <1>7, <2>1 DEF BlocksOf, RunOf
<1>10. c \in Seq(Extent) /\ Len(c) = L /\ DOMAIN c = 1 .. L /\ c[L] = y /\ \A k \in 1 .. L : k # L => c[k] = es[k]
  BY <1>1, <1>2, <1>6, <1>8
<1> HIDE DEF L
<1>11. \A k \in 1 .. L : c[k].lblk = es[k].lblk
  BY <1>8, <1>10
<1>12. \A i, j \in 1 .. L : i < j => EndOf(c[i]) <= c[j].lblk
  <2>1. \A i, j \in 1 .. L : i < j => EndOf(es[i]) <= es[j].lblk
    BY <1>1 DEF Sorted
  <2>2. \A i, j \in 1 .. L : i < j => i # L
    BY <1>1
  <2> QED
    BY <1>10, <1>11, <2>1, <2>2
<1>13. Sorted(c) /\ c # <<>>
  BY <1>1, <1>10, <1>12 DEF Sorted
<1>14. ToSet(c) = (ToSet(es) \ {x}) \cup {y}
  <2>1. \A k \in 1 .. L : k # L => es[k] # x
    <3> SUFFICES ASSUME NEW k \in 1 .. L, k # L, es[k] = x PROVE FALSE
      OBVIOUS
    <3>1. EndOf(es[k]) <= x.lblk
      <4>1. k < L
        BY <1>1
      <4> QED
        BY <1>1, <4>1 DEF Sorted
    <3>2. x.lblk < EndOf(x) /\ EndOf(x) \in Nat
      BY <1>4, ExtentFields
    <3> QED
      BY <1>7, <3>1, <3>2
  <2>2. ToSet(c) = {c[k] : k \in 1 .. L} /\ ToSet(es) = {es[k] : k \in 1 .. L}
    BY <1>1, <1>10 DEF ToSet
  <2>3. \A e : e \in ToSet(c) <=> (e \in ToSet(es) /\ e # x) \/ e = y
    BY <1>1, <1>10, <2>1, <2>2
  <2> QED
    BY <2>3
<1>15. x \in ToSet(es)
  BY <1>1 DEF ToSet
<1>16. Replaced(ToSet(es), ToSet(c), RunOf(phys, n))
  BY <1>8, <1>9, <1>14, <1>15 DEF Replaced
<1>17. c[1].lblk = es[1].lblk /\ es # <<>> /\ L <= L + 1
  BY <1>1, <1>11
<1> QED
  BY <1>10, <1>13, <1>16, <1>17 DEF Extended, c, L

\* What starts behind the last extent starts behind all.
LEMMA BehindLast ==
  ASSUME NEW es, Sorted(es)
  PROVE  next_logical_block(es) \in Nat /\ \A k \in DOMAIN es : EndOf(es[k]) <= next_logical_block(es)
<1>1. es \in Seq(Extent)
  BY DEF Sorted
<1>2. CASE es = <<>>
  BY <1>2 DEF next_logical_block
<1>3. CASE es # <<>>
  <2> DEFINE L == Len(es)
  <2>1. L \in 1 .. L /\ L \in Nat /\ DOMAIN es = 1 .. L /\ \A k \in 1 .. L : es[k] \in Extent
    BY <1>1, <1>3
  <2>2. next_logical_block(es) = EndOf(es[L])
    BY <1>3 DEF next_logical_block, Last
  <2>3. EndOf(es[L]) \in Nat /\ es[L].lblk <= EndOf(es[L]) /\ es[L].lblk \in Nat
    BY <2>1, ExtentFields
  <2> HIDE DEF L
  <2>4. ASSUME NEW k \in 1 .. L PROVE EndOf(es[k]) <= EndOf(es[L])
    <3>1. CASE k = L
      BY <2>3, <3>1
    <3>2. CASE k # L
      <4>1. k < L
        BY <2>1, <3>2
      <4>2. EndOf(es[k]) <= es[L].lblk
        BY <2>1, <4>1 DEF Sorted
      <4>3. EndOf(es[k]) \in Nat
        BY <2>1, ExtentFields
      <4> QED
        BY <2>3, <4>2, <4>3
    <3> QED
      BY <3>1, <3>2
  <2> QED
    BY <2>1, <2>2, <2>3, <2>4
<1> QED
  BY <1>2, <1>3

\* A new extent behind the last is the other.
LEMMA ExtentAdded ==
  ASSUME NEW es, Sorted(es), NEW n \in 1 .. MaxExtentLen, NEW phys \in Blocks
  PROVE  LET c == WithExtent(es, next_logical_block(es), phys, n) IN
         Extended(es, c, RunOf(phys, n)) /\ Len(c) = Len(es) + 1
<1> DEFINE at == next_logical_block(es)
           y == [lblk |-> at, len |-> n, start |-> phys, uninit |-> FALSE]
           L == Len(es)
           c == WithExtent(es, at, phys, n)
<1>1. es \in Seq(Extent) /\ L \in Nat /\ DOMAIN es = 1 .. L /\ \A k \in 1 .. L : es[k] \in Extent
  BY DEF Sorted
<1>2. at \in Nat /\ \A k \in 1 .. L : EndOf(es[k]) <= at
  BY <1>1, BehindLast
<1>3. es = <<>> => at = 0
  BY DEF next_logical_block
<1> HIDE DEF at
<1>4. y \in Extent /\ y.lblk = at /\ BlocksOf(y) = RunOf(phys, n)
  BY <1>2 DEF Extent, BlocksOf, RunOf
<1>5. c = Append(es, y)
  BY DEF WithExtent
<1> HIDE DEF c, y
<1>6. c \in Seq(Extent) /\ Len(c) = L + 1 /\ c[L + 1] = y /\ \A k \in 1 .. L : c[k] = es[k]
  BY <1>1, <1>4, <1>5
<1>7. DOMAIN c = 1 .. (L + 1)
  BY <1>6
<1>8. ASSUME NEW i \in DOMAIN c, NEW j \in DOMAIN c, i < j PROVE EndOf(c[i]) <= c[j].lblk
  <2>1. i \in 1 .. L
    BY <1>1, <1>7, <1>8
  <2>2. CASE j = L + 1
    BY <1>2, <1>4, <1>6, <2>1, <2>2
  <2>3. CASE j # L + 1
    <3>1. j \in 1 .. L
      BY <1>1, <1>7, <2>3
    <3> QED
      BY <1>1, <1>6, <1>8, <2>1, <3>1 DEF Sorted
  <2> QED
    BY <2>2, <2>3
<1>9. Sorted(c) /\ c # <<>>
  BY <1>1, <1>6, <1>8 DEF Sorted
<1>10. ToSet(c) = ToSet(es) \cup {y}
  <2>1. ToSet(c) = {c[k] : k \in 1 .. (L + 1)} /\ ToSet(es) = {es[k] : k \in 1 .. L}
    BY <1>1, <1>7 DEF ToSet
  <2>2. \A k : k \in 1 .. (L + 1) <=> k \in 1 .. L \/ k = L + 1
    BY <1>1
  <2>3. \A e : e \in ToSet(c) <=> e \in ToSet(es) \/ e = y
    BY <1>6, <2>1, <2>2
  <2> QED
    BY <2>3
<1>11. Replaced(ToSet(es), ToSet(c), RunOf(phys, n))
  BY <1>4, <1>10 DEF Replaced
<1>12. c[1].lblk = IF es = <<>> THEN 0 ELSE es[1].lblk
  <2>1. CASE es = <<>>
    <3>1. L = 0 /\ L + 1 = 1
      BY <2>1
    <3> QED
      BY <1>3, <1>4, <1>6, <2>1, <3>1
  <2>2. CASE es # <<>>
    <3>1. 1 \in 1 .. L
      BY <1>1, <2>2
    <3> QED
      BY <1>6, <2>2, <3>1
  <2> QED
    BY <2>1, <2>2
<1>13. Len(c) <= L + 1
  BY <1>1, <1>6
<1> QED
  BY <1>6, <1>9, <1>11, <1>12, <1>13 DEF Extended, c, at

-----------------------------------------------------------------------------
(* Appending. *)

\* What else there is beside them does not matter.
LEMMA ReplacedBeside ==
  ASSUME NEW O, NEW A, NEW C, NEW run, Replaced(A, C, run), O \cap A = {}
  PROVE  Replaced(O \cup A, O \cup C, run)
<1>1. CASE \E y \in Extent : C = A \cup {y} /\ BlocksOf(y) = run
  <2>1. PICK y \in Extent : C = A \cup {y} /\ BlocksOf(y) = run
    BY <1>1
  <2>2. O \cup C = (O \cup A) \cup {y}
    BY <2>1
  <2> QED
    BY <2>1, <2>2 DEF Replaced
<1>2. CASE \E x \in A, y \in Extent : C = (A \ {x}) \cup {y} /\ BlocksOf(y) = BlocksOf(x) \cup run
  <2>1. PICK x \in A, y \in Extent : C = (A \ {x}) \cup {y} /\ BlocksOf(y) = BlocksOf(x) \cup run
    BY <1>2
  <2>2. O \cup C = ((O \cup A) \ {x}) \cup {y} /\ x \in O \cup A
    BY <2>1
  <2> QED
    BY <2>1, <2>2 DEF Replaced
<1> QED
  BY <1>1, <1>2 DEF Replaced

\* r is t with the blocks of run mapped as well, and B more blocks for the tree.
Grown(t, r, run, B) ==
  /\ Children(r.root) = Children(t.root) \cup B
  /\ r.used = t.used \cup B /\ B \subseteq Blocks /\ B \cap t.used = {}
  /\ Replaced(Exts(t), Exts(r), run)

\* A tree that grows by blocks that were taken for it owns them, once.
LEMMA GrownOwns ==
  ASSUME NEW t, NEW r, NEW run, NEW B, OwnedOnce(t), Foreign \subseteq t.used,
         run \subseteq Leaked(t), Grown(t, r, run, B)
  PROVE  OwnedOnce(r) /\ Leaked(r) = Leaked(t) \ run /\ MappedBy(r) = MappedBy(t) \cup run
<1>1. MappedBy(t) = AllBlocks(Exts(t)) /\ MappedBy(r) = AllBlocks(Exts(r))
  BY DEF MappedBy, AllBlocks
<1>2. Disjoint(Exts(t))
  BY DEF OwnedOnce, Disjoint
<1>3. run \subseteq t.used /\ run \cap Foreign = {} /\ run \cap MappedBy(t) = {} /\ run \cap Children(t.root) = {}
  BY DEF Leaked, OwnedBy
<1>4. MappedBy(r) = MappedBy(t) \cup run /\ Disjoint(Exts(r))
  BY <1>1, <1>2, <1>3, ReplacedBlocks DEF Grown
<1>5. MappedBy(t) \subseteq t.used \ Foreign /\ Children(t.root) \subseteq t.used \ Foreign
      /\ MappedBy(t) \cap Children(t.root) = {}
  BY DEF OwnedOnce, OwnedBy
<1>6. /\ Children(r.root) = Children(t.root) \cup B
      /\ r.used = t.used \cup B /\ B \cap t.used = {}
  BY DEF Grown
<1>7. OwnedOnce(r)
  <2>1. OwnedBy(r) \subseteq r.used \ Foreign
    BY <1>3, <1>4, <1>5, <1>6 DEF OwnedBy
  <2>2. MappedBy(r) \cap Children(r.root) = {}
    BY <1>3, <1>4, <1>5, <1>6
  <2> QED
    BY <1>4, <2>1, <2>2 DEF OwnedOnce, Disjoint
<1>8. Leaked(r) = Leaked(t) \ run
  BY <1>3, <1>4, <1>5, <1>6 DEF Leaked, OwnedBy
<1> QED
  BY <1>4, <1>7, <1>8

\* The blocks of the file are finitely many.
LEMMA FiniteBlocks == IsFiniteSet(Blocks) /\ \A s \in SUBSET Blocks : IsFiniteSet(s) /\ Cardinality(s) \in Nat
<1>1. IsFiniteSet(Blocks)
  <2>1. 0 \in Int /\ GroupCount * GroupSize - 1 \in Int
    BY TreeAssumption
  <2> QED
    BY <2>1, FS_Interval DEF Blocks
<1> QED
  BY <1>1, FS_Subset, FS_CardinalityType

\* A run has as many blocks as it is long.
LEMMA RunLengthIs ==
  ASSUME NEW phys \in Nat, NEW n \in Nat \ {0}
  PROVE  IsFiniteSet(RunOf(phys, n)) /\ Cardinality(RunOf(phys, n)) = n
<1>1. phys \in Int /\ phys + n - 1 \in Int /\ ~(phys > phys + n - 1) /\ phys + n - 1 - phys + 1 = n
  OBVIOUS
<1> QED
  BY <1>1, FS_Interval DEF RunOf

\* Counting two sets that have nothing in common.
LEMMA Apart ==
  ASSUME NEW x \in SUBSET Blocks, NEW y \in SUBSET Blocks, x \cap y = {}
  PROVE  Cardinality(x \cup y) = Cardinality(x) + Cardinality(y)
<1>1. IsFiniteSet(x) /\ IsFiniteSet(y) /\ Cardinality(x) \in Nat /\ Cardinality(y) \in Nat
  BY FiniteBlocks
<1>2. Cardinality(x \cup y) = Cardinality(x) + Cardinality(y) - Cardinality(x \cap y)
  BY <1>1, FS_Union
<1>3. Cardinality(x \cap y) = 0
  BY FS_EmptySet
<1> QED
  BY <1>1, <1>2, <1>3

\* A tree that has grown is as good as before.
LEMMA GoodGrown ==
  ASSUME NEW t, NEW r, Good(t), NEW phys \in Nat, NEW n \in Nat \ {0}, NEW B,
         RunOf(phys, n) \subseteq Leaked(t), Grown(t, r, RunOf(phys, n), B),
         Fields(r), Flat(r) \/ Deep(r), r.iblocks = t.iblocks + n,
         r.root.depth = 0 => t.root.depth = 0
  PROVE  Good(r) /\ Leaked(r) = Leaked(t) \ RunOf(phys, n)
<1> DEFINE run == RunOf(phys, n)
<1>1. OwnedOnce(t) /\ Foreign \subseteq t.used /\ t.used \in SUBSET Blocks
  BY DEF Good, Fields
<1>2. OwnedOnce(r) /\ Leaked(r) = Leaked(t) \ run /\ MappedBy(r) = MappedBy(t) \cup run
  BY <1>1, GrownOwns
<1>3. ASSUME r.root.depth = 0 PROVE r.iblocks = Cardinality(MappedBy(r))
  <2>1. t.iblocks = Cardinality(MappedBy(t))
    BY <1>3 DEF Good, Honest
  <2>2. MappedBy(t) \in SUBSET Blocks /\ run \in SUBSET Blocks /\ MappedBy(t) \cap run = {}
    BY <1>1 DEF OwnedOnce, OwnedBy, Leaked
  <2>3. Cardinality(run) = n
    BY RunLengthIs
  <2> QED
    BY <1>2, <2>1, <2>2, <2>3, Apart
<1> QED
  BY <1>2, <1>3 DEF Good, Honest

-----------------------------------------------------------------------------
(* The last leaf. *)

\* The index and the leaves of a tree of depth 1.
LEMMA DeepFields ==
  ASSUME NEW t, Deep(t)
  PROVE  LET idx == t.root.entries
             N == Len(idx)
         IN  /\ idx \in Seq(Index) /\ N \in Nat /\ N <= RootMax /\ DOMAIN idx = 1 .. N
             /\ \A i \in 1 .. N : /\ idx[i] \in Index /\ idx[i].lblk \in Nat /\ idx[i].child \in Blocks
                                  /\ idx[i].child \in Children(t.root)
                                  /\ Sorted(t.leaf[idx[i].child]) /\ Len(t.leaf[idx[i].child]) <= LeafMax
                                  /\ t.leaf[idx[i].child] \in Seq(Extent)
             /\ DOMAIN t.leaf = Children(t.root)
             /\ idx # <<>> => N \in 1 .. N /\ 1 \in 1 .. N /\ Rightmost(t.root) = idx[N].child
<1> DEFINE idx == t.root.entries
           N == Len(idx)
<1>1. idx \in Seq(Index) /\ N \in Nat /\ N <= RootMax /\ DOMAIN idx = 1 .. N
  BY DEF Deep
<1>2. ASSUME NEW i \in 1 .. N
      PROVE  /\ idx[i] \in Index /\ idx[i].lblk \in Nat /\ idx[i].child \in Blocks
             /\ idx[i].child \in Children(t.root)
  <2>1. idx[i] \in Index
    BY <1>1
  <2>2. \A x \in Index : x.lblk \in Nat /\ x.child \in Blocks
    BY DEF Index
  <2>3. idx[i].child \in Children(t.root)
    BY <1>1, DeepExts
  <2> QED
    BY <2>1, <2>2, <2>3
<1>3. \A i \in 1 .. N : Sorted(t.leaf[idx[i].child]) /\ Len(t.leaf[idx[i].child]) <= LeafMax
  BY <1>2 DEF Deep
<1>4. \A i \in 1 .. N : t.leaf[idx[i].child] \in Seq(Extent)
  BY <1>3 DEF Sorted
<1>5. DOMAIN t.leaf = Children(t.root)
  <2>1. t.leaf = [c \in Children(t.root) |-> t.leaf[c]]
    BY DEF Deep
  <2> QED
    BY <2>1
<1>6. idx # <<>> => N \in 1 .. N /\ 1 \in 1 .. N /\ Rightmost(t.root) = idx[N].child
  BY <1>1 DEF Rightmost, Last
<1> QED
  BY <1>1, <1>2, <1>3, <1>4, <1>5, <1>6

\* The extents and the leaves of a tree, leaf by leaf.
LEMMA DeepSets ==
  ASSUME NEW t, Deep(t), NEW idx, idx = t.root.entries, NEW n, n = Len(idx)
  PROVE  /\ \A e : e \in Exts(t) <=> \E i \in 1 .. n : e \in ToSet(t.leaf[idx[i].child])
         /\ \A c : c \in Children(t.root) <=> \E i \in 1 .. n : c = idx[i].child
<1>1. DOMAIN t.root.entries = 1 .. n
  <2>1. t.root.entries \in Seq(Index)
    BY DEF Deep
  <2> QED
    BY <2>1
<1>2. \A c : c \in Children(t.root) <=> \E i \in 1 .. n : c = idx[i].child
  <2>1. Children(t.root) = {x.child : x \in ToSet(idx)}
    BY DEF Deep, Children
  <2>2. \A x : x \in ToSet(idx) <=> \E i \in 1 .. n : x = idx[i]
    BY <1>1 DEF ToSet
  <2> QED
    BY <2>1, <2>2
<1>3. \A e : e \in Exts(t) <=> \E c \in Children(t.root) : e \in ToSet(t.leaf[c])
  BY DEF Deep, Exts, collect_leaves
<1> QED
  BY <1>2, <1>3

\* E and F differ in that A gave way to C.
Beside(E, F, A, C) == \E O : O \cap A = {} /\ E = O \cup A /\ F = O \cup C

\* The last leaf gets other extents from where it begins.
LEMMA LastLeaf ==
  ASSUME NEW t, Deep(t), t.root.entries # <<>>, NEW r, NEW c, NEW es, es = t.leaf[Rightmost(t.root)],
         r.root = t.root, r.leaf = [t.leaf EXCEPT ![Rightmost(t.root)] = c],
         Sorted(c), Len(c) <= LeafMax, c # <<>>, c[1].lblk = IF es = <<>> THEN 0 ELSE es[1].lblk
  PROVE  Deep(r) /\ Beside(Exts(t), Exts(r), ToSet(es), ToSet(c))
<1> DEFINE idx == t.root.entries
           N == Len(idx)
           old == Rightmost(t.root)
           O == {e \in Exts(t) : \E i \in 1 .. N : i # N /\ e \in ToSet(t.leaf[idx[i].child])}
<1>1. /\ idx \in Seq(Index) /\ N \in Nat /\ N <= RootMax /\ DOMAIN idx = 1 .. N
      /\ DOMAIN t.leaf = Children(t.root)
      /\ N \in 1 .. N /\ 1 \in 1 .. N /\ old = idx[N].child
  BY DeepFields
<1>2. \A i \in 1 .. N : /\ idx[i] \in Index /\ idx[i].lblk \in Nat /\ idx[i].child \in Blocks
                        /\ idx[i].child \in Children(t.root)
                        /\ Sorted(t.leaf[idx[i].child]) /\ Len(t.leaf[idx[i].child]) <= LeafMax
                        /\ t.leaf[idx[i].child] \in Seq(Extent)
  BY DeepFields
<1>3. Indexed(idx, t.leaf)
  BY DEF Deep
<1>4. /\ r.leaf[old] = c /\ DOMAIN r.leaf = Children(t.root)
      /\ \A b \in Children(t.root) : b # old => r.leaf[b] = t.leaf[b]
  BY <1>1, <1>2
<1>5. \A i \in 1 .. N : i # N => idx[i].child # old /\ r.leaf[idx[i].child] = t.leaf[idx[i].child]
  <2>1. \A i, j \in 1 .. N : i # j => idx[i].child # idx[j].child
    BY <1>1, <1>3 DEF Indexed
  <2> HIDE DEF O, N, idx, old
  <2>2. \A i \in 1 .. N : i # N => idx[i].child # old
    BY <1>1, <2>1
  <2> QED
    BY <1>2, <1>4, <2>2
<1> HIDE DEF O, N, idx, old
<1>6. c \in Seq(Extent) /\ DOMAIN c = 1 .. Len(c) /\ Len(c) \in Nat /\ 1 \in 1 .. Len(c)
      /\ \A k \in 1 .. Len(c) : c[k] \in Extent
  BY DEF Sorted
<1>7. IF N = 1 THEN idx[N].lblk = 0 ELSE es # <<>> /\ es[1].lblk = idx[N].lblk
  BY <1>1, <1>3 DEF Indexed, old
<1>8. \A k \in 1 .. Len(c) : idx[N].lblk <= c[k].lblk
  <2>1. c[1].lblk = IF es = <<>> THEN 0 ELSE es[1].lblk
    OBVIOUS
  <2>2. \A k \in 1 .. Len(c) : c[k].lblk \in Nat /\ EndOf(c[k]) \in Nat /\ c[k].lblk < EndOf(c[k])
    BY <1>6, ExtentFields
  <2>3. ASSUME NEW k \in 1 .. Len(c) PROVE c[1].lblk <= c[k].lblk
    <3>1. CASE k = 1
      BY <1>6, <2>2, <3>1
    <3>2. CASE k # 1
      <4>1. 1 < k
        BY <3>2
      <4>2. EndOf(c[1]) <= c[k].lblk
        BY <1>6, <4>1 DEF Sorted
      <4> QED
        BY <1>6, <2>2, <4>2
    <3> QED
      BY <3>1, <3>2
  <2>4. idx[N].lblk <= c[1].lblk
    BY <1>1, <1>2, <1>6, <1>7, <2>1, <2>2
  <2> QED
    BY <1>1, <1>2, <1>6, <2>2, <2>3, <2>4
<1>9. Indexed(idx, r.leaf)
  <2>1. \A i, j \in DOMAIN idx : i # j => idx[i].child # idx[j].child
    BY <1>3 DEF Indexed
  <2>2. \A i, j \in DOMAIN idx : i < j => idx[i].lblk <= idx[j].lblk
    BY <1>3 DEF Indexed
  <2>3. ASSUME NEW i \in DOMAIN idx, NEW k \in DOMAIN r.leaf[idx[i].child]
        PROVE  LET e == r.leaf[idx[i].child][k] IN
                 /\ idx[i].lblk <= e.lblk
                 /\ \A j \in DOMAIN idx : i < j => EndOf(e) <= idx[j].lblk
    <3>1. CASE i = N
      <4>1. r.leaf[idx[i].child] = c
        BY <1>1, <1>4, <3>1
      <4>2. \A j \in DOMAIN idx : ~(i < j)
        BY <1>1, <3>1
      <4> QED
        BY <1>6, <1>8, <2>3, <3>1, <4>1, <4>2
    <3>2. CASE i # N
      <4>1. r.leaf[idx[i].child] = t.leaf[idx[i].child]
        BY <1>1, <1>5, <3>2
      <4> QED
        BY <1>3, <2>3, <4>1 DEF Indexed
    <3> QED
      BY <3>1, <3>2
  <2>4. ASSUME NEW i \in DOMAIN idx
        PROVE  IF i = 1 THEN idx[i].lblk = 0
               ELSE r.leaf[idx[i].child] # <<>> /\ r.leaf[idx[i].child][1].lblk = idx[i].lblk
    <3>1. CASE i = N
      <4>1. r.leaf[idx[i].child] = c
        BY <1>1, <1>4, <3>1
      <4>2. c[1].lblk = IF es = <<>> THEN 0 ELSE es[1].lblk
        OBVIOUS
      <4> QED
        BY <1>7, <3>1, <4>1, <4>2
    <3>2. CASE i # N
      <4>1. r.leaf[idx[i].child] = t.leaf[idx[i].child]
        BY <1>1, <1>5, <3>2
      <4> QED
        BY <1>3, <4>1 DEF Indexed
    <3> QED
      BY <3>1, <3>2
  <2> QED
    BY <2>1, <2>2, <2>3, <2>4 DEF Indexed
<1>10. Deep(r)
  <2>1. r.root.depth = 1 /\ r.root.entries = idx /\ Children(r.root) = Children(t.root)
    BY DEF Deep, idx
  <2>2. r.leaf = [b \in Children(r.root) |-> r.leaf[b]]
    <3>1. r.leaf = [b \in DOMAIN t.leaf |-> r.leaf[b]]
      BY DEF idx, old
    <3> QED
      BY <1>1, <2>1, <3>1
  <2>3. ASSUME NEW b \in Children(r.root) PROVE Sorted(r.leaf[b]) /\ Len(r.leaf[b]) <= LeafMax
    <3>1. CASE b = old
      BY <1>4, <3>1
    <3>2. CASE b # old
      <4>1. r.leaf[b] = t.leaf[b] /\ b \in Children(t.root)
        BY <1>4, <2>1, <2>3, <3>2
      <4> QED
        BY <4>1 DEF Deep
    <3> QED
      BY <3>1, <3>2
  <2> QED
    BY <1>1, <1>9, <2>1, <2>2, <2>3 DEF Deep
<1>11. \A e : e \in Exts(t) <=> e \in O \/ e \in ToSet(es)
  <2>1. \A e : e \in Exts(t) <=> \E i \in 1 .. N : e \in ToSet(t.leaf[idx[i].child])
    BY DeepSets DEF idx, N
  <2>2. es = t.leaf[idx[N].child]
    BY <1>1 DEF old
  <2> QED
    BY <1>1, <2>1, <2>2 DEF O
<1>12. \A e : e \in Exts(r) <=> e \in O \/ e \in ToSet(c)
  <2>1. \A e : e \in Exts(r) <=> \E i \in 1 .. N : e \in ToSet(r.leaf[idx[i].child])
    BY <1>10, DeepSets DEF idx, N
  <2>2. r.leaf[idx[N].child] = c
    BY <1>1, <1>4
  <2>3. \A e : e \in O <=> \E i \in 1 .. N : i # N /\ e \in ToSet(t.leaf[idx[i].child])
    <3>1. \A e : e \in Exts(t) <=> \E i \in 1 .. N : e \in ToSet(t.leaf[idx[i].child])
      BY DeepSets DEF idx, N
    <3> QED
      BY <3>1 DEF O
  <2> QED
    BY <1>1, <1>5, <2>1, <2>2, <2>3
<1>13. O \cap ToSet(es) = {}
  <2> SUFFICES ASSUME NEW e \in O, e \in ToSet(es) PROVE FALSE
    OBVIOUS
  <2>1. PICK i \in 1 .. N : i # N /\ e \in ToSet(t.leaf[idx[i].child])
    BY DEF O
  <2>2. i < N
    BY <1>1, <2>1
  <2>3. EndOf(e) <= idx[N].lblk
    <3>1. PICK k \in DOMAIN t.leaf[idx[i].child] : e = t.leaf[idx[i].child][k]
      BY <2>1 DEF ToSet
    <3> QED
      BY <1>1, <1>3, <2>2, <3>1 DEF Indexed
  <2>4. idx[N].lblk <= e.lblk
    <3>1. PICK k \in DOMAIN es : e = es[k]
      BY DEF ToSet
    <3>2. es = t.leaf[idx[N].child]
      BY <1>1 DEF old
    <3> QED
      BY <1>1, <1>3, <3>1, <3>2 DEF Indexed
  <2>5. e \in Extent
    BY DeepExts DEF O
  <2>6. e.lblk < EndOf(e) /\ e.lblk \in Nat /\ EndOf(e) \in Nat
    BY <2>5, ExtentFields
  <2> QED
    BY <1>1, <1>2, <2>3, <2>4, <2>6
<1>14. Exts(t) = O \cup ToSet(es) /\ Exts(r) = O \cup ToSet(c)
  BY <1>11, <1>12
<1> QED
  BY <1>10, <1>13, <1>14 DEF Beside

\* What a sequence holds after an append.
LEMMA AppendSet ==
  ASSUME NEW T, NEW s \in Seq(T), NEW x \in T
  PROVE  ToSet(Append(s, x)) = ToSet(s) \cup {x}
<1> DEFINE n == Len(s)
           u == Append(s, x)
<1>1. n \in Nat /\ DOMAIN s = 1 .. n /\ DOMAIN u = 1 .. (n + 1) /\ u[n + 1] = x /\ \A i \in 1 .. n : u[i] = s[i]
  OBVIOUS
<1> HIDE DEF n, u
<1>2. \A i : i \in 1 .. (n + 1) <=> i \in 1 .. n \/ i = n + 1
  BY <1>1
<1>3. ASSUME NEW e PROVE e \in ToSet(u) <=> \E i \in 1 .. (n + 1) : e = u[i]
  BY <1>1 DEF ToSet
<1>4. ASSUME NEW e PROVE e \in ToSet(s) <=> \E i \in 1 .. n : e = s[i]
  BY <1>1 DEF ToSet
<1>5. ASSUME NEW e PROVE e \in ToSet(u) <=> e \in ToSet(s) \/ e = x
  <2>1. ASSUME e \in ToSet(u) PROVE e \in ToSet(s) \/ e = x
    BY <1>1, <1>2, <1>3, <1>4, <2>1
  <2>2. ASSUME e \in ToSet(s) \/ e = x PROVE e \in ToSet(u)
    BY <1>1, <1>2, <1>3, <1>4, <2>2
  <2> QED
    BY <2>1, <2>2
<1> QED
  BY <1>5 DEF u

\* The index in q has one more entry than that in p, for child b.
OneMore(p, q, b) ==
  /\ p.depth = 1 /\ q.depth = 1 /\ p.entries \in Seq(Index)
  /\ \E x \in Index : x.child = b /\ q.entries = Append(p.entries, x)

\* The leaves, after an entry was added to the root.
LEMMA AppendChildren ==
  ASSUME NEW p, NEW q, NEW b, OneMore(p, q, b)
  PROVE  Children(q) = Children(p) \cup {b}
<1> PICK x \in Index : x.child = b /\ q.entries = Append(p.entries, x)
  BY DEF OneMore
<1> p.depth = 1 /\ q.depth = 1 /\ p.entries \in Seq(Index)
  BY DEF OneMore
<1>1. ToSet(q.entries) = ToSet(p.entries) \cup {x}
  BY AppendSet
<1>2. \A d : d \in Children(q) <=> \E y \in ToSet(q.entries) : d = y.child
  BY DEF Children
<1>3. \A d : d \in Children(p) <=> \E y \in ToSet(p.entries) : d = y.child
  BY DEF Children
<1>4. \A d : d \in Children(q) <=> d \in Children(p) \/ d = x.child
  BY <1>1, <1>2, <1>3
<1> QED
  BY <1>4

\* No extent of es reaches beyond at.
Behind(es, at) == \A k \in DOMAIN es : EndOf(es[k]) <= at

\* r is t with a new leaf c at b, behind the last one, es.
NewLeafOf(t, r, c, b, x, es) ==
  /\ Deep(t) /\ t.root.entries # <<>> /\ Len(t.root.entries) < RootMax
  /\ b \in Blocks /\ b \notin Children(t.root) /\ x = [lblk |-> c[1].lblk, child |-> b]
  /\ r.root.depth = 1 /\ r.root.entries = Append(t.root.entries, x) /\ r.leaf = WithLeaf(t.leaf, b, c)
  /\ Sorted(c) /\ Len(c) <= LeafMax /\ c # <<>>
  /\ es = t.leaf[Rightmost(t.root)] /\ es # <<>> /\ Behind(es, c[1].lblk)

\* A leaf behind all others keeps the index in order.
LEMMA NewLeaf ==
  ASSUME NEW t, NEW r, NEW c, NEW b, NEW x, NEW es, NewLeafOf(t, r, c, b, x, es)
  PROVE  Deep(r) /\ Exts(r) = Exts(t) \cup ToSet(c) /\ Children(r.root) = Children(t.root) \cup {b}
<1> SUFFICES ASSUME Deep(t), t.root.entries # <<>>, Len(t.root.entries) < RootMax, b \in Blocks,
                    b \notin Children(t.root), x = [lblk |-> c[1].lblk, child |-> b],
                    r.root.depth = 1, r.root.entries = Append(t.root.entries, x), r.leaf = WithLeaf(t.leaf, b, c),
                    Sorted(c), Len(c) <= LeafMax, c # <<>>,
                    es = t.leaf[Rightmost(t.root)], es # <<>>, Behind(es, c[1].lblk)
             PROVE  Deep(r) /\ Exts(r) = Exts(t) \cup ToSet(c) /\ Children(r.root) = Children(t.root) \cup {b}
  BY DEF NewLeafOf
<1> DEFINE idx == t.root.entries
           N == Len(idx)
           old == Rightmost(t.root)
           idy == Append(idx, x)
<1>1. /\ idx \in Seq(Index) /\ N \in Nat /\ N < RootMax /\ DOMAIN idx = 1 .. N
      /\ DOMAIN t.leaf = Children(t.root)
      /\ N \in 1 .. N /\ 1 \in 1 .. N /\ old = idx[N].child
  BY DeepFields
<1>2. \A i \in 1 .. N : /\ idx[i] \in Index /\ idx[i].lblk \in Nat /\ idx[i].child \in Blocks
                        /\ idx[i].child \in Children(t.root)
                        /\ Sorted(t.leaf[idx[i].child]) /\ Len(t.leaf[idx[i].child]) <= LeafMax
                        /\ t.leaf[idx[i].child] \in Seq(Extent)
  BY DeepFields
<1>3. Indexed(idx, t.leaf)
  BY DEF Deep
<1>4. c \in Seq(Extent) /\ DOMAIN c = 1 .. Len(c) /\ Len(c) \in Nat /\ 1 \in 1 .. Len(c)
      /\ \A k \in 1 .. Len(c) : c[k] \in Extent
  BY DEF Sorted
<1>5. \A k \in 1 .. Len(c) : c[k].lblk \in Nat /\ EndOf(c[k]) \in Nat /\ c[k].lblk < EndOf(c[k])
  BY <1>4, ExtentFields
<1>6. x \in Index
  BY <1>4, <1>5 DEF Index
<1>7. idy \in Seq(Index) /\ Len(idy) = N + 1 /\ DOMAIN idy = 1 .. (N + 1)
      /\ idy[N + 1] = x /\ \A i \in 1 .. N : idy[i] = idx[i]
  BY <1>1, <1>6
<1>8. r.root.depth = 1 /\ r.root.entries = idy
  OBVIOUS
<1> HIDE DEF idy
<1>9. Children(r.root) = Children(t.root) \cup {b}
  <2>1. t.root.depth = 1 /\ t.root.entries \in Seq(Index) /\ x.child = b
    BY DEF Deep
  <2>2. OneMore(t.root, r.root, b)
    BY <1>6, <2>1 DEF OneMore
  <2> QED
    BY <2>2, AppendChildren
<1>10. /\ r.leaf = [d \in Children(r.root) |-> r.leaf[d]] /\ r.leaf[b] = c
       /\ \A d \in Children(t.root) : r.leaf[d] = t.leaf[d]
  BY <1>1, <1>9 DEF WithLeaf
<1>11. \A i \in 1 .. N : r.leaf[idy[i].child] = t.leaf[idx[i].child] /\ idy[i].child = idx[i].child
  BY <1>2, <1>7, <1>10
<1>12. r.leaf[idy[N + 1].child] = c /\ idy[N + 1].child = b /\ idy[N + 1].lblk = c[1].lblk
  BY <1>7, <1>10
<1>13. es \in Seq(Extent) /\ es # <<>> /\ 1 \in DOMAIN es /\ DOMAIN es = 1 .. Len(es) /\ Len(es) \in Nat
       /\ \A k \in DOMAIN es : EndOf(es[k]) <= c[1].lblk
  <2>1. es = t.leaf[idx[N].child]
    BY <1>1
  <2>2. es \in Seq(Extent)
    BY <1>1, <1>2, <2>1
  <2> HIDE DEF idx, N, old
  <2> QED
    BY <2>2 DEF Behind
<1>14. \A k \in DOMAIN es : es[k].lblk \in Nat /\ EndOf(es[k]) \in Nat /\ es[k].lblk < EndOf(es[k])
  BY <1>13, ExtentFields
<1>15. \A k \in DOMAIN es : idx[N].lblk <= es[k].lblk
  BY <1>1, <1>3 DEF Indexed
<1>16. idx[N].lblk <= c[1].lblk /\ idx[N].lblk \in Nat /\ c[1].lblk \in Nat
  <2>1. idx[N].lblk <= es[1].lblk /\ EndOf(es[1]) <= c[1].lblk /\ es[1].lblk < EndOf(es[1])
        /\ es[1].lblk \in Nat /\ EndOf(es[1]) \in Nat
    BY <1>13, <1>14, <1>15
  <2>2. idx[N].lblk \in Nat /\ c[1].lblk \in Nat
    BY <1>1, <1>2, <1>4, <1>5
  <2> HIDE DEF idx, N
  <2> QED
    BY <2>1, <2>2
<1> HIDE DEF idx, N, old
<1>17. \A i \in 1 .. N : idx[i].lblk <= c[1].lblk
  <2>1. \A i \in 1 .. N : i < N => idx[i].lblk <= idx[N].lblk
    BY <1>1, <1>3 DEF Indexed
  <2>2. ASSUME NEW i \in 1 .. N PROVE idx[i].lblk <= c[1].lblk
    <3>1. idx[i].lblk \in Nat
      BY <1>2
    <3>2. CASE i = N
      BY <1>16, <3>2
    <3>3. CASE i # N
      <4>1. i < N
        BY <1>1, <3>3
      <4>2. idx[i].lblk <= idx[N].lblk
        BY <2>1, <4>1
      <4> QED
        BY <1>16, <3>1, <4>2
    <3> QED
      BY <3>2, <3>3
  <2> QED
    BY <2>2
<1>18. Indexed(idy, r.leaf)
  <2>1. ASSUME NEW i \in DOMAIN idy, NEW j \in DOMAIN idy, i # j PROVE idy[i].child # idy[j].child
    <3>1. CASE i \in 1 .. N /\ j \in 1 .. N
      BY <1>1, <1>3, <1>7, <2>1, <3>1 DEF Indexed
    <3>2. CASE i \in 1 .. N /\ j = N + 1
      <4>1. idy[i].child \in Children(t.root)
        BY <1>2, <1>7, <3>2
      <4> QED
        BY <1>12, <3>2, <4>1
    <3>3. CASE i = N + 1 /\ j \in 1 .. N
      <4>1. idy[j].child \in Children(t.root)
        BY <1>2, <1>7, <3>3
      <4> QED
        BY <1>12, <3>3, <4>1
    <3> QED
      BY <1>1, <1>7, <2>1, <3>1, <3>2, <3>3
  <2>2. ASSUME NEW i \in DOMAIN idy, NEW j \in DOMAIN idy, i < j PROVE idy[i].lblk <= idy[j].lblk
    <3>1. i \in 1 .. N
      BY <1>1, <1>7, <2>2
    <3>2. CASE j = N + 1
      BY <1>7, <1>12, <1>17, <3>1, <3>2
    <3>3. CASE j # N + 1
      <4>1. j \in 1 .. N
        BY <1>1, <1>7, <3>3
      <4> QED
        BY <1>1, <1>3, <1>7, <2>2, <3>1, <4>1 DEF Indexed
    <3> QED
      BY <3>2, <3>3
  <2>3. ASSUME NEW i \in DOMAIN idy, NEW k \in DOMAIN r.leaf[idy[i].child]
        PROVE  LET e == r.leaf[idy[i].child][k] IN
                 /\ idy[i].lblk <= e.lblk
                 /\ \A j \in DOMAIN idy : i < j => EndOf(e) <= idy[j].lblk
    <3>1. CASE i = N + 1
      <4>1. r.leaf[idy[i].child] = c /\ idy[i].lblk = c[1].lblk /\ k \in 1 .. Len(c)
        BY <1>4, <1>12, <2>3, <3>1
      <4>2. \A j \in DOMAIN idy : ~(i < j)
        BY <1>1, <1>7, <3>1
      <4>3. c[1].lblk <= c[k].lblk
        <5>1. CASE k = 1
          BY <1>4, <1>5, <5>1
        <5>2. CASE k # 1
          <6>1. 1 < k
            BY <4>1, <5>2
          <6>2. EndOf(c[1]) <= c[k].lblk
            BY <1>4, <4>1, <6>1 DEF Sorted
          <6> QED
            BY <1>4, <1>5, <4>1, <6>2
        <5> QED
          BY <5>1, <5>2
      <4> QED
        BY <4>1, <4>2, <4>3
    <3>2. CASE i # N + 1
      <4>1. i \in 1 .. N
        BY <1>1, <1>7, <3>2
      <4>2. r.leaf[idy[i].child] = t.leaf[idx[i].child] /\ idy[i] = idx[i]
        BY <1>7, <1>11, <4>1
      <4> DEFINE e == t.leaf[idx[i].child][k]
      <4>3. idx[i].lblk <= e.lblk /\ \A j \in DOMAIN idx : i < j => EndOf(e) <= idx[j].lblk
        BY <1>1, <1>3, <2>3, <4>1, <4>2 DEF Indexed
      <4>4. e \in Extent
        BY <1>2, <2>3, <4>1, <4>2
      <4>5. EndOf(e) <= c[1].lblk
        <5>1. CASE i = N
          <6>1. es = t.leaf[idx[i].child]
            BY <1>1, <5>1 DEF old
          <6> QED
            BY <1>13, <2>3, <4>2, <6>1
        <5>2. CASE i # N
          <6>1. EndOf(e) <= idx[N].lblk
            BY <1>1, <4>1, <4>3, <5>2
          <6>2. EndOf(e) \in Nat
            BY <4>4, ExtentFields
          <6> QED
            BY <1>16, <6>1, <6>2
        <5> QED
          BY <5>1, <5>2
      <4> HIDE DEF e
      <4>6. ASSUME NEW j \in DOMAIN idy, i < j PROVE EndOf(e) <= idy[j].lblk
        <5>1. CASE j = N + 1
          BY <1>12, <4>5, <5>1
        <5>2. CASE j # N + 1
          <6>1. j \in 1 .. N /\ idy[j] = idx[j]
            BY <1>1, <1>7, <5>2
          <6> QED
            BY <1>1, <4>3, <4>6, <6>1
        <5> QED
          BY <5>1, <5>2
      <4> QED
        BY <4>2, <4>3, <4>6 DEF e
    <3> QED
      BY <3>1, <3>2
  <2>4. ASSUME NEW i \in DOMAIN idy
        PROVE  IF i = 1 THEN idy[i].lblk = 0
               ELSE r.leaf[idy[i].child] # <<>> /\ r.leaf[idy[i].child][1].lblk = idy[i].lblk
    <3>1. CASE i = N + 1
      <4>1. i # 1
        BY <1>1, <3>1
      <4> QED
        BY <1>12, <3>1, <4>1
    <3>2. CASE i # N + 1
      <4>1. i \in 1 .. N
        BY <1>1, <1>7, <3>2
      <4>2. r.leaf[idy[i].child] = t.leaf[idx[i].child] /\ idy[i] = idx[i]
        BY <1>7, <1>11, <4>1
      <4> QED
        BY <1>1, <1>3, <4>1, <4>2 DEF Indexed
    <3> QED
      BY <3>1, <3>2
  <2> QED
    BY <2>1, <2>2, <2>3, <2>4 DEF Indexed
<1>19. ASSUME NEW d \in Children(r.root) PROVE Sorted(r.leaf[d]) /\ Len(r.leaf[d]) <= LeafMax
  <2>1. CASE d = b
    BY <1>10, <2>1
  <2>2. CASE d # b
    <3>1. d \in Children(t.root) /\ r.leaf[d] = t.leaf[d]
      BY <1>9, <1>10, <1>19, <2>2
    <3> QED
      BY <3>1 DEF Deep
  <2> QED
    BY <2>1, <2>2
<1>20. Deep(r)
  <2>1. Len(idy) <= RootMax
    BY <1>1, <1>7, TreeAssumption
  <2> QED
    BY <1>7, <1>8, <1>10, <1>18, <1>19, <2>1 DEF Deep
<1>21. \A e : e \in Exts(r) <=> e \in Exts(t) \/ e \in ToSet(c)
  <2>1. \A e : e \in Exts(t) <=> \E i \in 1 .. N : e \in ToSet(t.leaf[idx[i].child])
    BY DeepSets DEF idx, N
  <2>2. \A e : e \in Exts(r) <=> \E i \in 1 .. (N + 1) : e \in ToSet(r.leaf[idy[i].child])
    BY <1>7, <1>8, <1>20, DeepSets
  <2>3. \A i : i \in 1 .. (N + 1) <=> i \in 1 .. N \/ i = N + 1
    BY <1>1
  <2> QED
    BY <1>11, <1>12, <2>1, <2>2, <2>3
<1> QED
  BY <1>9, <1>20, <1>21

-----------------------------------------------------------------------------
(* The parts of an edited tree. *)

TreeOf(ro, le, us, ib, wh) == [root |-> ro, leaf |-> le, used |-> us, iblocks |-> ib, why |-> wh]

\* r has these parts.
Like(r, d, es, le, us, ib, wh) ==
  /\ Fields(r) /\ r.root.depth = d /\ r.root.entries = es
  /\ r.leaf = le /\ r.used = us /\ r.iblocks = ib /\ r.why = wh

\* A record made of good parts has good fields.
LEMMA MakeFields ==
  ASSUME NEW d, NEW es, NEW le, NEW us \in SUBSET Blocks, Foreign \subseteq us, NEW ib \in Nat, NEW wh \in Outcome,
         NEW r, r = TreeOf([depth |-> d, entries |-> es], le, us, ib, wh)
  PROVE  Like(r, d, es, le, us, ib, wh)
BY DEF Like, Fields, TreeOf

\* And the other way round.
LEMMA HasFields ==
  ASSUME NEW t, Fields(t)
  PROVE  /\ t = TreeOf(t.root, t.leaf, t.used, t.iblocks, t.why)
         /\ t.root = [depth |-> t.root.depth, entries |-> t.root.entries]
         /\ t.used \in SUBSET Blocks /\ Foreign \subseteq t.used /\ t.iblocks \in Nat /\ t.why \in Outcome
BY DEF Fields, TreeOf

\* A root with other entries.
LEMMA RootEdit ==
  ASSUME NEW d, NEW s, NEW ro, ro = [depth |-> d, entries |-> s], NEW es
  PROVE  [ro EXCEPT !.entries = es] = [depth |-> d, entries |-> es]
OBVIOUS

\* append_to_root: the entries.
LEMMA WithEntries ==
  ASSUME NEW t, Fields(t), NEW es, NEW n \in Nat
  PROVE  Like(Counted([t EXCEPT !.root.entries = es], n), t.root.depth, es, t.leaf, t.used, t.iblocks + n, t.why)
<1> DEFINE d == t.root.depth
           ro == t.root
           le == t.leaf
           us == t.used
           ib == t.iblocks
           wh == t.why
           t1 == [t EXCEPT !.root.entries = es]
           r == Counted(t1, n)
           rn == [depth |-> d, entries |-> es]
<1>1. t = TreeOf(ro, le, us, ib, wh) /\ [ro EXCEPT !.entries = es] = rn
  <2>1. t = TreeOf(ro, le, us, ib, wh)
    BY HasFields
  <2>2. ro = [depth |-> d, entries |-> t.root.entries]
    BY HasFields
  <2> QED
    BY <2>1, <2>2, RootEdit
<1>2. us \in SUBSET Blocks /\ Foreign \subseteq us /\ ib \in Nat /\ wh \in Outcome
  BY HasFields
<1> HIDE DEF d, ro, le, us, ib, wh, rn
<1>3. t1 = TreeOf([ro EXCEPT !.entries = es], le, us, ib, wh)
  BY <1>1 DEF TreeOf
<1> HIDE DEF t1
<1>4. r = TreeOf(rn, le, us, ib + n, wh)
  BY <1>1, <1>3 DEF TreeOf, Counted
<1>5. ib + n \in Nat
  BY <1>2
<1> HIDE DEF r
<1>6. Like(r, d, es, le, us, ib + n, wh)
  BY <1>2, <1>4, <1>5, MakeFields DEF rn
<1> QED
  BY <1>6 DEF d, le, us, ib, wh, r, t1

\* append_to_leaf_block: a leaf.
LEMMA WithLeafAt ==
  ASSUME NEW t, Fields(t), NEW b, NEW es, NEW n \in Nat
  PROVE  Like(Counted([t EXCEPT !.leaf[b] = es], n),
              t.root.depth, t.root.entries, [t.leaf EXCEPT ![b] = es], t.used, t.iblocks + n, t.why)
<1> DEFINE d == t.root.depth
           s == t.root.entries
           ro == t.root
           le == t.leaf
           us == t.used
           ib == t.iblocks
           wh == t.why
           t1 == [t EXCEPT !.leaf[b] = es]
           r == Counted(t1, n)
           lf == [le EXCEPT ![b] = es]
<1>1. t = TreeOf(ro, le, us, ib, wh) /\ ro = [depth |-> d, entries |-> s]
  BY HasFields
<1>2. us \in SUBSET Blocks /\ Foreign \subseteq us /\ ib \in Nat /\ wh \in Outcome
  BY HasFields
<1> HIDE DEF d, s, ro, le, us, ib, wh
<1>3. t1 = TreeOf(ro, lf, us, ib, wh)
  BY <1>1 DEF TreeOf
<1> HIDE DEF t1, lf
<1>4. r = TreeOf(ro, lf, us, ib + n, wh)
  BY <1>3 DEF TreeOf, Counted
<1>5. ib + n \in Nat
  BY <1>2
<1> HIDE DEF r
<1>6. Like(r, d, s, lf, us, ib + n, wh)
  BY <1>1, <1>2, <1>4, <1>5, MakeFields
<1> QED
  BY <1>6 DEF d, s, le, us, ib, wh, r, t1, lf

\* extent_tree_grow: a new root and a leaf.
LEMMA WithNewRoot ==
  ASSUME NEW t, Fields(t), NEW b \in Blocks, NEW idx, NEW es, NEW n \in Nat
  PROVE  Like(Counted([t EXCEPT !.used = @ \cup {b}, !.root = [depth |-> 1, entries |-> idx],
                                !.leaf = WithLeaf(@, b, es)], n),
              1, idx, WithLeaf(t.leaf, b, es), t.used \cup {b}, t.iblocks + n, t.why)
<1> DEFINE ro == t.root
           le == t.leaf
           us == t.used
           ib == t.iblocks
           wh == t.why
           rn == [depth |-> 1, entries |-> idx]
           lf == WithLeaf(le, b, es)
           un == us \cup {b}
           t1 == [t EXCEPT !.used = un]
           t2 == [t1 EXCEPT !.root = rn]
           t3 == [t2 EXCEPT !.leaf = lf]
           t4 == [t EXCEPT !.used = @ \cup {b}, !.root = rn, !.leaf = WithLeaf(@, b, es)]
           r == Counted(t4, n)
<1>1. t = TreeOf(ro, le, us, ib, wh)
  BY HasFields
<1>2. us \in SUBSET Blocks /\ Foreign \subseteq us /\ ib \in Nat /\ wh \in Outcome
  BY HasFields
<1>3. t4 = [[[t EXCEPT !.used = @ \cup {b}] EXCEPT !.root = rn] EXCEPT !.leaf = WithLeaf(@, b, es)]
  OBVIOUS
<1>4. [t EXCEPT !.used = @ \cup {b}] = t1
  OBVIOUS
<1> HIDE DEF ro, le, us, ib, wh, rn, un
<1>5. t1 = TreeOf(ro, le, un, ib, wh)
  BY <1>1 DEF TreeOf
<1> HIDE DEF t1
<1>6. t2 = TreeOf(rn, le, un, ib, wh)
  BY <1>5 DEF TreeOf
<1> HIDE DEF t2
<1>7. [t2 EXCEPT !.leaf = WithLeaf(@, b, es)] = [t2 EXCEPT !.leaf = WithLeaf(t2.leaf, b, es)]
  OBVIOUS
<1>8. t2.leaf = le
  BY <1>6 DEF TreeOf
<1>9. t4 = t3
  BY <1>3, <1>4, <1>7, <1>8 DEF t2, t1
<1> HIDE DEF t4, lf
<1>10. t3 = TreeOf(rn, lf, un, ib, wh)
  BY <1>6 DEF TreeOf
<1> HIDE DEF t3
<1>11. r = TreeOf(rn, lf, un, ib + n, wh)
  BY <1>9, <1>10 DEF TreeOf, Counted
<1>12. ib + n \in Nat /\ un \in SUBSET Blocks /\ Foreign \subseteq un
  BY <1>2 DEF un
<1> HIDE DEF r
<1>13. Like(r, 1, idx, lf, un, ib + n, wh)
  BY <1>2, <1>11, <1>12, MakeFields DEF rn
<1> QED
  BY <1>13 DEF le, us, ib, wh, r, t4, lf, un, rn

\* extent_leaf_split: what is left in a leaf.
LEMMA WithHalf ==
  ASSUME NEW t, Fields(t), NEW b \in Blocks, NEW old, NEW es
  PROVE  Like([t EXCEPT !.used = @ \cup {b}, !.leaf[old] = es],
              t.root.depth, t.root.entries, [t.leaf EXCEPT ![old] = es], t.used \cup {b}, t.iblocks, t.why)
<1> DEFINE d == t.root.depth
           s == t.root.entries
           ro == t.root
           le == t.leaf
           us == t.used
           ib == t.iblocks
           wh == t.why
           lf == [le EXCEPT ![old] = es]
           un == us \cup {b}
           t1 == [t EXCEPT !.used = un]
           t2 == [t1 EXCEPT !.leaf[old] = es]
           r == [t EXCEPT !.used = @ \cup {b}, !.leaf[old] = es]
<1>1. t = TreeOf(ro, le, us, ib, wh) /\ ro = [depth |-> d, entries |-> s]
  BY HasFields
<1>2. us \in SUBSET Blocks /\ Foreign \subseteq us /\ ib \in Nat /\ wh \in Outcome
  BY HasFields
<1>3. r = [[t EXCEPT !.used = @ \cup {b}] EXCEPT !.leaf[old] = es]
  OBVIOUS
<1>4. [t EXCEPT !.used = @ \cup {b}] = t1
  OBVIOUS
<1> HIDE DEF d, s, ro, le, us, ib, wh, un
<1>5. t1 = TreeOf(ro, le, un, ib, wh)
  BY <1>1 DEF TreeOf
<1>6. r = t2
  BY <1>3, <1>4
<1> HIDE DEF t1, lf, r
<1>7. t2 = TreeOf(ro, lf, un, ib, wh)
  BY <1>5 DEF TreeOf, lf
<1>8. un \in SUBSET Blocks /\ Foreign \subseteq un
  BY <1>2 DEF un
<1> HIDE DEF t2
<1>9. Like(r, d, s, lf, un, ib, wh)
  BY <1>1, <1>2, <1>6, <1>7, <1>8, MakeFields
<1> QED
  BY <1>9 DEF d, s, le, us, ib, wh, r, lf, un

\* extent_leaf_split: another entry and its leaf.
LEMMA WithEntry ==
  ASSUME NEW t, Fields(t), NEW b \in Blocks, NEW x, NEW es, NEW n \in Nat
  PROVE  Like(Counted([t EXCEPT !.root.entries = Append(@, x), !.leaf = WithLeaf(@, b, es)], n),
              t.root.depth, Append(t.root.entries, x), WithLeaf(t.leaf, b, es), t.used, t.iblocks + n, t.why)
<1> DEFINE d == t.root.depth
           s == t.root.entries
           ro == t.root
           le == t.leaf
           us == t.used
           ib == t.iblocks
           wh == t.why
           sn == Append(s, x)
           rn == [depth |-> d, entries |-> sn]
           lf == WithLeaf(le, b, es)
           t1 == [t EXCEPT !.root.entries = sn]
           t2 == [t1 EXCEPT !.leaf = lf]
           t3 == [t EXCEPT !.root.entries = Append(@, x), !.leaf = WithLeaf(@, b, es)]
           r == Counted(t3, n)
<1>1. t = TreeOf(ro, le, us, ib, wh) /\ ro = [depth |-> d, entries |-> s]
  BY HasFields
<1>2. us \in SUBSET Blocks /\ Foreign \subseteq us /\ ib \in Nat /\ wh \in Outcome
  BY HasFields
<1>3. t3 = [[t EXCEPT !.root.entries = Append(@, x)] EXCEPT !.leaf = WithLeaf(@, b, es)]
  OBVIOUS
<1>4. [t EXCEPT !.root.entries = Append(@, x)] = t1
  OBVIOUS
<1> HIDE DEF d, s, ro, le, us, ib, wh, sn
<1>5. t1 = TreeOf([ro EXCEPT !.entries = sn], le, us, ib, wh)
  BY <1>1 DEF TreeOf
<1>6. [ro EXCEPT !.entries = sn] = rn
  BY <1>1
<1>7. [t1 EXCEPT !.leaf = WithLeaf(@, b, es)] = [t1 EXCEPT !.leaf = WithLeaf(t1.leaf, b, es)]
  OBVIOUS
<1> HIDE DEF t1, rn
<1>8. t1.leaf = le
  BY <1>5 DEF TreeOf
<1>9. t3 = t2
  BY <1>3, <1>4, <1>7, <1>8
<1> HIDE DEF t3, lf
<1>10. t2 = TreeOf(rn, lf, us, ib, wh)
  BY <1>5, <1>6 DEF TreeOf
<1> HIDE DEF t2
<1>11. r = TreeOf(rn, lf, us, ib + n, wh)
  BY <1>9, <1>10 DEF TreeOf, Counted
<1>12. ib + n \in Nat
  BY <1>2
<1> HIDE DEF r
<1>13. Like(r, d, sn, lf, us, ib + n, wh)
  BY <1>2, <1>11, <1>12, MakeFields DEF rn
<1> QED
  BY <1>13 DEF d, s, le, us, ib, wh, r, t3, lf, sn

-----------------------------------------------------------------------------
(* Appending to a tree. *)

\* What an append of the blocks of run makes of t.
Appended(t, r, run) == Good(r) /\ (r.why = "ok" => Leaked(r) = Leaked(t) \ run)

\* An operation that fails leaves the tree.
LEMMA FailedGood ==
  ASSUME NEW t, Good(t), NEW why \in Outcome
  PROVE  Good(FailedWith(t, why)) /\ FailedWith(t, why).why = why
         /\ Leaked(FailedWith(t, why)) = Leaked(t)
<1> DEFINE r == FailedWith(t, why)
<1>1. Fields(t)
  BY DEF Good
<1>2. r = TreeOf(t.root, t.leaf, t.used, t.iblocks, why)
  BY <1>1 DEF Fields, FailedWith, TreeOf
<1> HIDE DEF r
<1>3. r.root = t.root /\ r.leaf = t.leaf /\ r.used = t.used /\ r.iblocks = t.iblocks /\ r.why = why
  BY <1>2 DEF TreeOf
<1>4. Fields(r)
  BY <1>1, <1>2, <1>3 DEF Fields, TreeOf
<1>5. Exts(r) = Exts(t)
  BY <1>3 DEF Exts
<1>6. MappedBy(r) = MappedBy(t) /\ OwnedBy(r) = OwnedBy(t)
  BY <1>3, <1>5 DEF MappedBy, OwnedBy
<1>7. Flat(r) \/ Deep(r)
  BY <1>3 DEF Good, Flat, Deep
<1>8. OwnedOnce(r) /\ Honest(r) /\ Leaked(r) = Leaked(t)
  BY <1>3, <1>5, <1>6 DEF Good, OwnedOnce, Honest, Leaked
<1> QED
  BY <1>3, <1>4, <1>7, <1>8 DEF Good, r

\* The root takes the extents c.
LEMMA RootTakes ==
  ASSUME NEW t, Good(t), t.root.depth = 0, NEW phys \in Nat, NEW n \in Nat \ {0},
         RunOf(phys, n) \subseteq Leaked(t), NEW c, Extended(t.root.entries, c, RunOf(phys, n)), Len(c) <= RootMax,
         NEW r, Like(r, t.root.depth, c, t.leaf, t.used, t.iblocks + n, t.why)
  PROVE  Appended(t, r, RunOf(phys, n))
<1>1. t.leaf = <<>>
  BY DEF Good, Flat, Deep
<1>2. Fields(r) /\ r.root.depth = 0 /\ r.root.entries = c
      /\ r.leaf = t.leaf /\ r.used = t.used /\ r.iblocks = t.iblocks + n
  BY DEF Like
<1>3. Flat(r)
  BY <1>1, <1>2 DEF Flat, Extended
<1>4. Exts(r) = ToSet(c) /\ Exts(t) = ToSet(t.root.entries) /\ Children(t.root) = {} /\ Children(r.root) = {}
  BY <1>2 DEF Exts, collect_leaves, Children
<1>5. Grown(t, r, RunOf(phys, n), {})
  BY <1>2, <1>4 DEF Grown, Extended
<1>6. Flat(r) \/ Deep(r)
  BY <1>3
<1>7. Fields(r) /\ r.iblocks = t.iblocks + n /\ (r.root.depth = 0 => t.root.depth = 0)
  BY <1>2
<1>8. Good(r) /\ Leaked(r) = Leaked(t) \ RunOf(phys, n)
  BY <1>5, <1>6, <1>7, GoodGrown
<1> QED
  BY <1>8 DEF Appended

\* The last leaf takes the extents c.
LEMMA LeafTakes ==
  ASSUME NEW t, Good(t), Deep(t), t.root.entries # <<>>, NEW phys \in Nat, NEW n \in Nat \ {0},
         RunOf(phys, n) \subseteq Leaked(t), NEW c, Len(c) <= LeafMax,
         NEW es, es = t.leaf[Rightmost(t.root)], Extended(es, c, RunOf(phys, n)),
         NEW le, le = [t.leaf EXCEPT ![Rightmost(t.root)] = c],
         NEW r, Like(r, t.root.depth, t.root.entries, le, t.used, t.iblocks + n, t.why)
  PROVE  Appended(t, r, RunOf(phys, n))
<1> DEFINE run == RunOf(phys, n)
<1>1. t.root.depth = 1 /\ t.root = [depth |-> t.root.depth, entries |-> t.root.entries]
  BY HasFields DEF Good, Deep
<1>2. Fields(r) /\ r.root = t.root /\ r.leaf = le /\ r.used = t.used /\ r.iblocks = t.iblocks + n
  <2>1. Fields(r) /\ r.root.depth = t.root.depth /\ r.root.entries = t.root.entries
        /\ r.leaf = le /\ r.used = t.used /\ r.iblocks = t.iblocks + n
    BY DEF Like
  <2>2. r.root = [depth |-> r.root.depth, entries |-> r.root.entries]
    BY <2>1, HasFields
  <2> QED
    BY <1>1, <2>1, <2>2
<1>3. Sorted(c) /\ c # <<>> /\ c[1].lblk = (IF es = <<>> THEN 0 ELSE es[1].lblk) /\ Replaced(ToSet(es), ToSet(c), run)
  BY DEF Extended
<1>4. Deep(r) /\ Beside(Exts(t), Exts(r), ToSet(es), ToSet(c))
  BY <1>2, <1>3, LastLeaf
<1>5. Replaced(Exts(t), Exts(r), run)
  <2>1. PICK O : O \cap ToSet(es) = {} /\ Exts(t) = O \cup ToSet(es) /\ Exts(r) = O \cup ToSet(c)
    BY <1>4 DEF Beside
  <2> DEFINE A == ToSet(es)
             C == ToSet(c)
  <2>2. Replaced(A, C, run) /\ O \cap A = {}
    BY <1>3, <2>1
  <2> HIDE DEF A, C, run
  <2>3. Replaced(O \cup A, O \cup C, run)
    BY <2>2, ReplacedBeside
  <2> QED
    BY <2>1, <2>3 DEF A, C
<1>6. Grown(t, r, run, {})
  BY <1>2, <1>5 DEF Grown
<1> QED
  BY <1>1, <1>2, <1>4, <1>6, GoodGrown DEF Appended

\* A root that is full moves its extents to a leaf.
LEMMA GrowTakes ==
  ASSUME NEW t, Good(t), t.root.depth = 0, NEW phys \in Nat, NEW n \in Nat \ {0},
         RunOf(phys, n) \subseteq Leaked(t), NEW c, Extended(t.root.entries, c, RunOf(phys, n)),
         NEW b \in Blocks, b \notin t.used, NEW idx, idx = <<[lblk |-> 0, child |-> b]>>,
         NEW r, Like(r, 1, idx, WithLeaf(t.leaf, b, c), t.used \cup {b}, t.iblocks + n, t.why)
  PROVE  Appended(t, r, RunOf(phys, n))
<1> DEFINE x == [lblk |-> 0, child |-> b]
<1>1. t.leaf = <<>> /\ Len(t.root.entries) <= RootMax /\ Len(t.root.entries) \in Nat
  <2>1. Flat(t)
    BY DEF Good, Deep
  <2> QED
    BY <2>1 DEF Flat, Sorted
<1>2. Fields(r) /\ r.root.depth = 1 /\ r.root.entries = idx
      /\ r.leaf = WithLeaf(t.leaf, b, c) /\ r.used = t.used \cup {b} /\ r.iblocks = t.iblocks + n
  BY DEF Like
<1>3. idx \in Seq(Index) /\ Len(idx) = 1 /\ idx[1] = x /\ DOMAIN idx = {1} /\ x.lblk = 0 /\ x.child = b
  <2>1. x \in Index
    BY DEF Index
  <2> QED
    BY <2>1
<1> HIDE DEF x
<1>4. Children(r.root) = {b}
  <2>1. ToSet(idx) = {x}
    BY <1>3 DEF ToSet
  <2> QED
    BY <1>2, <1>3, <2>1 DEF Children
<1>5. r.leaf[b] = c /\ r.leaf = [d \in Children(r.root) |-> r.leaf[d]]
  <2>1. DOMAIN t.leaf = {}
    BY <1>1
  <2> QED
    BY <1>2, <1>4, <2>1 DEF WithLeaf
<1>6. Sorted(c) /\ c # <<>> /\ Len(c) <= LeafMax /\ c \in Seq(Extent)
  <2>1. Sorted(c) /\ c # <<>> /\ Len(c) <= Len(t.root.entries) + 1 /\ c \in Seq(Extent)
    BY DEF Extended, Sorted
  <2>2. Len(c) \in Nat
    BY <2>1
  <2> QED
    BY <1>1, <2>1, <2>2, TreeAssumption
<1>7. Indexed(idx, r.leaf)
  <2>1. \A k \in DOMAIN c : c[k].lblk \in Nat
    BY <1>6, ExtentFields
  <2>2. \A i, j \in DOMAIN idx : i = 1 /\ j = 1
    BY <1>3
  <2>3. \A k \in DOMAIN c : 0 <= c[k].lblk
    BY <2>1
  <2> QED
    BY <1>3, <1>5, <2>2, <2>3 DEF Indexed
<1>8. Deep(r)
  <2>1. Len(idx) <= RootMax
    BY <1>3, TreeAssumption
  <2>2. \A d \in Children(r.root) : Sorted(r.leaf[d]) /\ Len(r.leaf[d]) <= LeafMax
    BY <1>4, <1>5, <1>6
  <2> QED
    BY <1>2, <1>3, <1>5, <1>7, <2>1, <2>2 DEF Deep
<1>9. Exts(r) = ToSet(c) /\ Exts(t) = ToSet(t.root.entries) /\ Children(t.root) = {}
  <2>1. Exts(r) = UNION {ToSet(r.leaf[d]) : d \in {b}}
    BY <1>2, <1>4 DEF Exts, collect_leaves
  <2> QED
    BY <1>5, <2>1 DEF Exts, collect_leaves, Children
<1>10. Grown(t, r, RunOf(phys, n), {b})
  BY <1>2, <1>4, <1>9 DEF Grown, Extended
<1> QED
  BY <1>2, <1>8, <1>10, GoodGrown DEF Appended

\* The allocator gives a block that is not in use.
LEMMA OneBlock ==
  ASSUME NEW bs, NEW hint \in Nat, alloc_blocks(bs, 1, hint) # NoBlock
  PROVE  alloc_blocks(bs, 1, hint) \in Blocks /\ alloc_blocks(bs, 1, hint) \notin bs
<1> DEFINE b == alloc_blocks(bs, 1, hint)
<1>1. b \in Blocks /\ RunOf(b, 1) \subseteq Blocks \ bs
  BY AllocBlocks
<1> HIDE DEF b
<1>2. b \in Nat
  BY <1>1 DEF Blocks
<1>3. b \in RunOf(b, 1)
  BY <1>2 DEF RunOf
<1> QED
  BY <1>1, <1>3 DEF b

\* append_to_root, in its three ways.
LEMMA AppendToRoot ==
  ASSUME NEW t, Good(t), t.root.depth = 0, NEW phys \in Blocks, NEW n \in 1 .. MaxExtentLen, NEW hint \in Nat,
         RunOf(phys, n) \subseteq Leaked(t)
  PROVE  Appended(t, append_to_root(t, phys, n, hint), RunOf(phys, n))
<1> DEFINE es == t.root.entries
           at == next_logical_block(es)
           longer == coalesce(es, n)
           more == WithExtent(es, at, phys, n)
           r == append_to_root(t, phys, n, hint)
<1>1. Fields(t) /\ Sorted(es) /\ Len(es) <= RootMax /\ Len(es) \in Nat
  <2>1. Flat(t) /\ Fields(t)
    BY DEF Good, Deep
  <2> QED
    BY <2>1 DEF Flat, Sorted
<1>2. n \in Nat \ {0} /\ n \in Nat /\ phys \in Nat /\ RootMax \in Nat
  BY TreeAssumption DEF Blocks
<1>3. Extended(es, more, RunOf(phys, n)) /\ Len(more) = Len(es) + 1
  BY <1>1, ExtentAdded
<1>4. CASE can_coalesce(es, phys, n)
  <2>1. r = Counted([t EXCEPT !.root.entries = longer], n)
    BY <1>4 DEF append_to_root
  <2>2. Extended(es, longer, RunOf(phys, n)) /\ Len(longer) = Len(es)
    BY <1>1, <1>2, <1>4, Coalesced
  <2> HIDE DEF r, longer
  <2>3. Like(r, t.root.depth, longer, t.leaf, t.used, t.iblocks + n, t.why)
    BY <1>1, <1>2, <2>1, WithEntries
  <2> QED
    BY <1>1, <1>2, <2>2, <2>3, RootTakes DEF r
<1>5. CASE ~can_coalesce(es, phys, n) /\ Len(es) < RootMax
  <2>1. r = Counted([t EXCEPT !.root.entries = more], n)
    BY <1>5 DEF append_to_root
  <2> HIDE DEF r, more
  <2>2. Like(r, t.root.depth, more, t.leaf, t.used, t.iblocks + n, t.why)
    BY <1>1, <1>2, <2>1, WithEntries
  <2>3. Len(more) <= RootMax
    BY <1>1, <1>2, <1>3, <1>5
  <2> QED
    BY <1>1, <1>2, <1>3, <2>2, <2>3, RootTakes DEF r
<1>6. CASE ~can_coalesce(es, phys, n) /\ ~(Len(es) < RootMax)
  <2> DEFINE b == alloc_blocks(t.used, 1, hint)
             idx == <<[lblk |-> 0, child |-> b]>>
  <2>1. r = extent_tree_grow(t, phys, n, hint)
    BY <1>6 DEF append_to_root
  <2>2. CASE b = NoBlock
    <3>1. r = FailedWith(t, "no_space") /\ "no_space" \in Outcome
      BY <2>1, <2>2 DEF extent_tree_grow, Outcome
    <3> QED
      BY <3>1, FailedGood DEF Appended
  <2>3. CASE b # NoBlock
    <3>1. r = Counted([t EXCEPT !.used = @ \cup {b}, !.root = [depth |-> 1, entries |-> idx],
                                !.leaf = WithLeaf(@, b, more)], n)
      BY <2>1, <2>3 DEF extent_tree_grow
    <3>2. b \in Blocks /\ b \notin t.used
      BY <2>3, OneBlock
    <3> HIDE DEF b, r, more
    <3>3. Like(r, 1, idx, WithLeaf(t.leaf, b, more), t.used \cup {b}, t.iblocks + n, t.why)
      BY <1>1, <1>2, <3>1, <3>2, WithNewRoot
    <3>4. idx = <<[lblk |-> 0, child |-> b]>>
      OBVIOUS
    <3> HIDE DEF idx
    <3> QED
      BY <1>2, <1>3, <3>2, <3>3, <3>4, GrowTakes DEF r
  <2> QED
    BY <2>2, <2>3
<1> QED
  BY <1>4, <1>5, <1>6

-----------------------------------------------------------------------------
(* Splitting a leaf. *)

Lower(es) == SubSeq(es, 1, Len(es) \div 2)
Upper(es) == SubSeq(es, Len(es) \div 2 + 1, Len(es))

\* Both halves of a sorted leaf are sorted, and none is empty.
LEMMA LeafHalves ==
  ASSUME NEW es, Sorted(es), 2 <= Len(es)
  PROVE  /\ Sorted(Lower(es)) /\ Lower(es) # <<>> /\ Len(Lower(es)) <= Len(es) /\ Lower(es)[1] = es[1]
         /\ Sorted(Upper(es)) /\ Upper(es) # <<>> /\ Len(Upper(es)) + 1 <= Len(es)
         /\ next_logical_block(Upper(es)) = next_logical_block(es)
         /\ ToSet(es) = ToSet(Lower(es)) \cup ToSet(Upper(es)) /\ ToSet(Lower(es)) \cap ToSet(Upper(es)) = {}
         /\ \A k \in DOMAIN Lower(es) : EndOf(Lower(es)[k]) <= Upper(es)[1].lblk
<1> DEFINE L == Len(es)
           h == L \div 2
           a == Lower(es)
           c == Upper(es)
<1>1. es \in Seq(Extent) /\ L \in Nat /\ DOMAIN es = 1 .. L /\ 2 <= L /\ \A k \in 1 .. L : es[k] \in Extent
  BY DEF Sorted
<1>2. h \in Nat /\ 1 <= h /\ h < L
  <2>1. \A m \in Nat : 2 <= m => m \div 2 \in Nat /\ 1 <= m \div 2 /\ m \div 2 < m
    OBVIOUS
  <2> QED
    BY <1>1, <2>1
<1>3. a = SubSeq(es, 1, h) /\ c = SubSeq(es, h + 1, L)
  BY DEF Lower, Upper
<1>4. \A i, j \in 1 .. L : i < j => EndOf(es[i]) <= es[j].lblk
  BY <1>1 DEF Sorted
<1> HIDE DEF L, h, a, c
<1>5. a \in Seq(Extent) /\ Len(a) = h /\ DOMAIN a = 1 .. h /\ \A k \in 1 .. h : a[k] = es[k]
  BY <1>1, <1>2, <1>3
<1>6. c \in Seq(Extent) /\ Len(c) = L - h /\ DOMAIN c = 1 .. (L - h) /\ \A k \in 1 .. (L - h) : c[k] = es[h + k]
  <2>1. h + 1 \in 1 .. L /\ L - (h + 1) + 1 = L - h
    BY <1>1, <1>2
  <2>2. c \in Seq(Extent) /\ Len(c) = L - h
    BY <1>1, <1>2, <1>3, <2>1
  <2>3. ASSUME NEW k \in 1 .. (L - h) PROVE c[k] = es[h + k]
    <3>1. (h + 1) + k - 1 = h + k
      BY <1>1, <1>2
    <3>2. c[k] = es[(h + 1) + k - 1]
      BY <1>1, <1>2, <1>3, <2>1
    <3> QED
      BY <3>1, <3>2
  <2> QED
    BY <2>2, <2>3
<1>7. Sorted(a) /\ a # <<>> /\ a[1] = es[1] /\ Len(a) <= L
  <2>1. \A k \in 1 .. h : k \in 1 .. L
    BY <1>1, <1>2
  <2>2. 1 \in 1 .. h
    BY <1>2
  <2> QED
    BY <1>1, <1>2, <1>4, <1>5, <2>1, <2>2 DEF Sorted
<1>8. \A k \in 1 .. (L - h) : h + k \in 1 .. L
  BY <1>1, <1>2
<1>9. Sorted(c)
  <2>1. ASSUME NEW i \in 1 .. (L - h), NEW j \in 1 .. (L - h), i < j PROVE EndOf(c[i]) <= c[j].lblk
    <3>1. h + i < h + j
      BY <1>2, <2>1
    <3>2. EndOf(es[h + i]) <= es[h + j].lblk
      BY <1>4, <1>8, <3>1
    <3> QED
      BY <1>6, <3>2
  <2> QED
    BY <1>6, <2>1 DEF Sorted
<1>10. 1 \in 1 .. (L - h) /\ L - h \in 1 .. (L - h) /\ h + (L - h) = L /\ L - h + 1 <= L
  BY <1>1, <1>2
<1>11. c # <<>> /\ next_logical_block(c) = next_logical_block(es)
  <2>1. es # <<>> /\ Last(es) = es[L]
    BY <1>1 DEF Last, L
  <2>2. c # <<>> /\ Last(c) = c[L - h]
    BY <1>6, <1>10 DEF Last
  <2>3. c[L - h] = es[L]
    BY <1>6, <1>10
  <2> QED
    BY <2>1, <2>2, <2>3 DEF next_logical_block
<1>12. \A k \in 1 .. h : EndOf(a[k]) <= c[1].lblk
  <2>1. c[1] = es[h + 1] /\ h + 1 \in 1 .. L
    BY <1>6, <1>8, <1>10
  <2>2. \A k \in 1 .. h : k \in 1 .. L /\ k < h + 1
    BY <1>1, <1>2
  <2> QED
    BY <1>4, <1>5, <2>1, <2>2
<1>13. \A e : e \in ToSet(es) <=> e \in ToSet(a) \/ e \in ToSet(c)
  <2>1. \A e : e \in ToSet(es) <=> \E k \in 1 .. L : e = es[k]
    BY <1>1 DEF ToSet
  <2>2. \A e : e \in ToSet(a) <=> \E k \in 1 .. h : e = es[k]
    BY <1>5 DEF ToSet
  <2>3. \A e : e \in ToSet(c) <=> \E k \in 1 .. (L - h) : e = es[h + k]
    BY <1>6 DEF ToSet
  <2>4. ASSUME NEW k \in 1 .. L PROVE k \in 1 .. h \/ (k - h \in 1 .. (L - h) /\ h + (k - h) = k)
    BY <1>1, <1>2
  <2>5. \A k \in 1 .. h : k \in 1 .. L
    BY <1>1, <1>2
  <2>6. ASSUME NEW e, e \in ToSet(es) PROVE e \in ToSet(a) \/ e \in ToSet(c)
    <3>1. PICK k \in 1 .. L : e = es[k]
      BY <2>1, <2>6
    <3>2. CASE k \in 1 .. h
      BY <2>2, <3>1, <3>2
    <3>3. CASE k - h \in 1 .. (L - h) /\ h + (k - h) = k
      BY <2>3, <3>1, <3>3
    <3> QED
      BY <2>4, <3>2, <3>3
  <2>7. ASSUME NEW e, e \in ToSet(a) \/ e \in ToSet(c) PROVE e \in ToSet(es)
    BY <1>8, <2>1, <2>2, <2>3, <2>5, <2>7
  <2> QED
    BY <2>6, <2>7
<1>14. ToSet(a) \cap ToSet(c) = {}
  <2> SUFFICES ASSUME NEW e, e \in ToSet(a), e \in ToSet(c) PROVE FALSE
    OBVIOUS
  <2>1. PICK i \in 1 .. h : e = es[i]
    BY <1>5 DEF ToSet
  <2>2. PICK j \in 1 .. (L - h) : e = es[h + j]
    BY <1>6 DEF ToSet
  <2>3. i \in 1 .. L /\ h + j \in 1 .. L /\ i < h + j
    BY <1>1, <1>2
  <2>4. EndOf(e) <= e.lblk
    BY <1>4, <2>1, <2>2, <2>3
  <2>5. e \in Extent
    BY <1>1, <2>1, <2>3
  <2> QED
    BY <2>4, <2>5, ExtentFields
<1>15. Len(c) + 1 <= L
  BY <1>6, <1>10
<1>16. ToSet(es) = ToSet(a) \cup ToSet(c)
  BY <1>13
<1> QED
  BY <1>5, <1>7, <1>9, <1>11, <1>12, <1>14, <1>15, <1>16 DEF a, c, L

\* A tree that lost extents and has one block more in use.
LEMMA FewerExts ==
  ASSUME NEW t, NEW h, Good(t), Fields(h), Deep(h), NEW b \in Blocks,
         Children(h.root) = Children(t.root), h.used = t.used \cup {b}, Exts(h) \subseteq Exts(t)
  PROVE  Good(h)
<1>1. MappedBy(h) \subseteq MappedBy(t)
  BY DEF MappedBy
<1>2. OwnedOnce(t)
  BY DEF Good
<1>3. OwnedBy(h) \subseteq OwnedBy(t)
  BY <1>1 DEF OwnedBy
<1>4. OwnedBy(h) \subseteq h.used \ Foreign
  BY <1>2, <1>3 DEF OwnedOnce
<1>5. MappedBy(h) \cap Children(h.root) = {}
  BY <1>1, <1>2 DEF OwnedOnce
<1>6. \A e, f \in Exts(h) : e # f => BlocksOf(e) \cap BlocksOf(f) = {}
  BY <1>2 DEF OwnedOnce
<1>7. OwnedOnce(h) /\ Honest(h)
  BY <1>4, <1>5, <1>6 DEF OwnedOnce, Honest, Deep
<1> QED
  BY <1>7 DEF Good

\* extent_leaf_split: the tree is good also when the root turns out to be full.
LEMMA SplitLeaf ==
  ASSUME NEW t, Good(t), Deep(t), t.root.entries # <<>>, NEW phys \in Blocks, NEW n \in 1 .. MaxExtentLen, NEW hint \in Nat,
         RunOf(phys, n) \subseteq Leaked(t), LeafMax <= Len(t.leaf[Rightmost(t.root)])
  PROVE  Appended(t, extent_leaf_split(t, phys, n, hint), RunOf(phys, n))
<1> DEFINE run == RunOf(phys, n)
           old == Rightmost(t.root)
           es == t.leaf[old]
           b == alloc_blocks(t.used, 1, hint)
           lower == Lower(es)
           upper == Upper(es)
           at == next_logical_block(es)
           more == WithExtent(upper, at, phys, n)
           x == [lblk |-> upper[1].lblk, child |-> b]
           h == [t EXCEPT !.used = @ \cup {b}, !.leaf[old] = lower]
           full == Counted([h EXCEPT !.root.entries = Append(@, x), !.leaf = WithLeaf(@, b, more)], n)
           r == extent_leaf_split(t, phys, n, hint)
<1>1. r = IF b = NoBlock THEN FailedWith(t, "no_space")
          ELSE IF Len(t.root.entries) = RootMax THEN FailedWith(h, "depth_limit") ELSE full
  BY DEF extent_leaf_split, Lower, Upper
<1>2. n \in Nat \ {0} /\ n \in Nat /\ phys \in Nat /\ RootMax \in Nat /\ LeafMax \in Nat /\ 2 <= LeafMax
  BY TreeAssumption DEF Blocks
<1>3. /\ Fields(t) /\ t.root.depth = 1 /\ t.root = [depth |-> t.root.depth, entries |-> t.root.entries]
      /\ DOMAIN t.leaf = Children(t.root) /\ old \in Children(t.root)
      /\ Sorted(es) /\ Len(es) <= LeafMax /\ Len(es) \in Nat
      /\ Len(t.root.entries) <= RootMax /\ Len(t.root.entries) \in Nat /\ t.root.entries \in Seq(Index)
  <2>1. Fields(t) /\ t.root.depth = 1
    BY DEF Good, Deep
  <2>2. t.root = [depth |-> t.root.depth, entries |-> t.root.entries]
    BY <2>1, HasFields
  <2>3. DOMAIN t.leaf = Children(t.root)
    BY DeepFields
  <2>4. old \in Children(t.root) /\ Sorted(t.leaf[old]) /\ Len(t.leaf[old]) <= LeafMax
    BY DeepFields
  <2>5. t.leaf[old] \in Seq(Extent)
    BY <2>4 DEF Sorted
  <2>6. t.root.entries \in Seq(Index) /\ Len(t.root.entries) <= RootMax
    BY DEF Deep
  <2> QED
    BY <2>1, <2>2, <2>3, <2>4, <2>5, <2>6
<1>4. 2 <= Len(es) /\ Len(es) = LeafMax
  BY <1>2, <1>3
<1> HIDE DEF r, h, full, b, lower, upper, more, at, es, x, run, old
<1>5. /\ Sorted(lower) /\ lower # <<>> /\ Len(lower) <= LeafMax /\ lower[1] = es[1]
      /\ Sorted(upper) /\ upper # <<>> /\ Len(upper) + 1 <= LeafMax
      /\ next_logical_block(upper) = at
  BY <1>3, <1>4, LeafHalves DEF lower, upper, at
<1>6. /\ ToSet(es) = ToSet(lower) \cup ToSet(upper) /\ ToSet(lower) \cap ToSet(upper) = {}
      /\ \A k \in DOMAIN lower : EndOf(lower[k]) <= upper[1].lblk
  BY <1>3, <1>4, LeafHalves DEF lower, upper
<1>7. CASE b = NoBlock
  <2>1. r = FailedWith(t, "no_space") /\ "no_space" \in Outcome
    BY <1>1, <1>7 DEF Outcome
  <2> QED
    BY <2>1, FailedGood DEF Appended, r, run
<1>8. CASE b # NoBlock
  <2>1. b \in Blocks /\ b \notin t.used
    BY <1>8, OneBlock DEF b
  <2> DEFINE le == [t.leaf EXCEPT ![old] = lower]
  <2>2. Like(h, t.root.depth, t.root.entries, le, t.used \cup {b}, t.iblocks, t.why)
    BY <1>3, <2>1, WithHalf DEF h
  <2>3. Fields(h) /\ h.root = t.root /\ h.leaf = le /\ h.used = t.used \cup {b} /\ h.iblocks = t.iblocks
    <3>1. Fields(h) /\ h.root.depth = t.root.depth /\ h.root.entries = t.root.entries
          /\ h.leaf = le /\ h.used = t.used \cup {b} /\ h.iblocks = t.iblocks
      BY <2>2 DEF Like
    <3>2. h.root = [depth |-> h.root.depth, entries |-> h.root.entries]
      BY <3>1, HasFields
    <3> QED
      BY <1>3, <3>1, <3>2
  <2>4. Deep(h) /\ Beside(Exts(t), Exts(h), ToSet(es), ToSet(lower))
    <3>1. es # <<>> /\ lower[1].lblk = es[1].lblk
      BY <1>4, <1>5
    <3> QED
      BY <1>5, <2>3, <3>1, LastLeaf DEF es, old
  <2>5. PICK O : O \cap ToSet(es) = {} /\ Exts(t) = O \cup ToSet(es) /\ Exts(h) = O \cup ToSet(lower)
    BY <2>4 DEF Beside
  <2>6. CASE Len(t.root.entries) = RootMax
    <3>1. Exts(h) \subseteq Exts(t)
      BY <1>6, <2>5
    <3>2. Good(h)
      BY <2>1, <2>3, <2>4, <3>1, FewerExts
    <3>3. r = FailedWith(h, "depth_limit") /\ "depth_limit" \in Outcome
      BY <1>1, <1>8, <2>6 DEF Outcome
    <3> QED
      BY <3>2, <3>3, FailedGood DEF Appended, r, run
  <2>7. CASE Len(t.root.entries) # RootMax
    <3>1. r = full
      BY <1>1, <1>8, <2>7
    <3>2. /\ Sorted(more) /\ more # <<>> /\ Len(more) <= LeafMax
          /\ more[1].lblk = upper[1].lblk /\ Replaced(ToSet(upper), ToSet(more), run)
      <4>1. Extended(upper, more, run) /\ Len(more) = Len(upper) + 1
        BY <1>5, ExtentAdded DEF more, run
      <4> QED
        BY <1>5, <4>1 DEF Extended
    <3>3. Like(full, h.root.depth, Append(h.root.entries, x), WithLeaf(h.leaf, b, more), h.used, h.iblocks + n, h.why)
      BY <1>2, <2>1, <2>3, WithEntry DEF full
    <3>4. /\ Fields(full) /\ full.root.depth = 1 /\ full.root.entries = Append(h.root.entries, x)
          /\ full.leaf = WithLeaf(h.leaf, b, more) /\ full.used = t.used \cup {b} /\ full.iblocks = t.iblocks + n
      BY <1>3, <2>3, <3>3 DEF Like
    <3>5. b \notin Children(h.root)
      <4>1. Children(t.root) \subseteq t.used
        BY DEF Good, OwnedOnce, OwnedBy
      <4> QED
        BY <2>1, <2>3, <4>1
    <3>6. lower = h.leaf[Rightmost(h.root)] /\ Len(h.root.entries) < RootMax /\ h.root.entries # <<>>
      BY <1>2, <1>3, <2>3, <2>7 DEF old
    <3>7. x = [lblk |-> more[1].lblk, child |-> b]
      BY <3>2 DEF x
    <3>8. Behind(lower, more[1].lblk)
      BY <1>6, <3>2 DEF Behind
    <3>9. Deep(full) /\ Exts(full) = Exts(h) \cup ToSet(more) /\ Children(full.root) = Children(h.root) \cup {b}
      <4> HIDE DEF le
      <4>1. Deep(h) /\ h.root.entries # <<>> /\ Len(h.root.entries) < RootMax
        BY <2>4, <3>6
      <4>2. b \in Blocks /\ b \notin Children(h.root)
        BY <2>1, <3>5
      <4>3. full.root.depth = 1 /\ full.root.entries = Append(h.root.entries, x) /\ full.leaf = WithLeaf(h.leaf, b, more)
        BY <3>4
      <4>4. Sorted(more) /\ Len(more) <= LeafMax /\ more # <<>>
        BY <3>2
      <4>5. lower = h.leaf[Rightmost(h.root)] /\ lower # <<>>
        BY <1>5, <3>6
      <4> QED
        <5>1. NewLeafOf(h, full, more, b, x, lower)
          BY <3>7, <3>8, <4>1, <4>2, <4>3, <4>4, <4>5 DEF NewLeafOf
        <5> QED
          BY <5>1, NewLeaf
    <3>10. Replaced(Exts(t), Exts(full), run)
      <4> DEFINE A == ToSet(upper)
                 C == ToSet(more)
                 P == O \cup ToSet(lower)
      <4>1. Replaced(A, C, run)
        BY <3>2
      <4>2. P \cap A = {} /\ Exts(t) = P \cup A /\ Exts(full) = P \cup C
        BY <1>6, <2>5, <3>9
      <4> HIDE DEF A, C, P
      <4>3. Replaced(P \cup A, P \cup C, run)
        BY <4>1, <4>2, ReplacedBeside
      <4> QED
        BY <4>2, <4>3
    <3>11. Grown(t, full, run, {b})
      BY <2>1, <2>3, <3>4, <3>9, <3>10 DEF Grown
    <3>12. Good(full) /\ Leaked(full) = Leaked(t) \ run
      <4>1. Flat(full) \/ Deep(full)
        BY <3>9
      <4>2. full.root.depth = 0 => t.root.depth = 0
        BY <3>4
      <4> QED
        BY <1>2, <3>4, <3>11, <4>1, <4>2, GoodGrown DEF run
    <3> QED
      BY <3>1, <3>12 DEF Appended, r, run
  <2> QED
    BY <2>6, <2>7
<1> QED
  BY <1>7, <1>8

\* append_to_leaf_block, in its three ways.
LEMMA AppendToLeaf ==
  ASSUME NEW t, Good(t), Deep(t), t.root.entries # <<>>, NEW phys \in Blocks, NEW n \in 1 .. MaxExtentLen, NEW hint \in Nat,
         RunOf(phys, n) \subseteq Leaked(t)
  PROVE  Appended(t, append_to_leaf_block(t, phys, n, hint), RunOf(phys, n))
<1> DEFINE old == Rightmost(t.root)
           es == t.leaf[old]
           at == next_logical_block(es)
           longer == coalesce(es, n)
           more == WithExtent(es, at, phys, n)
           r == append_to_leaf_block(t, phys, n, hint)
<1>1. Fields(t) /\ Sorted(es) /\ Len(es) <= LeafMax /\ Len(es) \in Nat
  <2>1. Fields(t)
    BY DEF Good
  <2>2. Sorted(t.leaf[old]) /\ Len(t.leaf[old]) <= LeafMax
    BY DeepFields
  <2>3. t.leaf[old] \in Seq(Extent)
    BY <2>2 DEF Sorted
  <2> QED
    BY <2>1, <2>2, <2>3
<1>2. n \in Nat \ {0} /\ n \in Nat /\ phys \in Nat /\ LeafMax \in Nat
  BY TreeAssumption DEF Blocks
<1>3. Extended(es, more, RunOf(phys, n)) /\ Len(more) = Len(es) + 1
  BY <1>1, ExtentAdded
<1>4. CASE can_coalesce(es, phys, n)
  <2>1. r = Counted([t EXCEPT !.leaf[old] = longer], n)
    BY <1>4 DEF append_to_leaf_block
  <2>2. Extended(es, longer, RunOf(phys, n)) /\ Len(longer) = Len(es)
    BY <1>1, <1>2, <1>4, Coalesced
  <2> DEFINE le == [t.leaf EXCEPT ![old] = longer]
  <2> HIDE DEF r, longer, es, old
  <2>3. Like(r, t.root.depth, t.root.entries, le, t.used, t.iblocks + n, t.why)
    BY <1>1, <1>2, <2>1, WithLeafAt
  <2>4. le = [t.leaf EXCEPT ![Rightmost(t.root)] = longer] /\ es = t.leaf[Rightmost(t.root)] /\ Len(longer) <= LeafMax
    BY <1>1, <2>2 DEF es, old
  <2> HIDE DEF le
  <2> QED
    BY <1>1, <1>2, <2>2, <2>3, <2>4, LeafTakes DEF r
<1>5. CASE ~can_coalesce(es, phys, n) /\ Len(es) < LeafMax
  <2>1. r = Counted([t EXCEPT !.leaf[old] = more], n)
    BY <1>5 DEF append_to_leaf_block
  <2> DEFINE le == [t.leaf EXCEPT ![old] = more]
  <2> HIDE DEF r, more, es, old
  <2>2. Like(r, t.root.depth, t.root.entries, le, t.used, t.iblocks + n, t.why)
    BY <1>1, <1>2, <2>1, WithLeafAt
  <2>3. le = [t.leaf EXCEPT ![Rightmost(t.root)] = more] /\ es = t.leaf[Rightmost(t.root)] /\ Len(more) <= LeafMax
    BY <1>1, <1>2, <1>3, <1>5 DEF es, old
  <2> HIDE DEF le
  <2> QED
    BY <1>1, <1>2, <1>3, <2>2, <2>3, LeafTakes DEF r
<1>6. CASE ~can_coalesce(es, phys, n) /\ ~(Len(es) < LeafMax)
  <2>1. r = extent_leaf_split(t, phys, n, hint)
    BY <1>6 DEF append_to_leaf_block
  <2>2. LeafMax <= Len(t.leaf[Rightmost(t.root)])
    BY <1>1, <1>2, <1>6
  <2> HIDE DEF r
  <2> QED
    BY <2>1, <2>2, SplitLeaf DEF r
<1> QED
  BY <1>4, <1>5, <1>6

\* extent_append: blocks that were taken for the tree become its own.
LEMMA ExtentAppend ==
  ASSUME NEW t, Good(t), NEW phys \in Blocks, NEW n \in 1 .. MaxExtentLen, NEW hint \in Nat,
         RunOf(phys, n) \subseteq Leaked(t)
  PROVE  Appended(t, extent_append(t, phys, n, hint), RunOf(phys, n))
<1>1. CASE t.root.depth = 0
  BY <1>1, AppendToRoot DEF extent_append
<1>2. CASE t.root.depth # 0 /\ t.root.entries = <<>>
  <2>1. extent_append(t, phys, n, hint) = FailedWith(t, "corrupt") /\ "corrupt" \in Outcome
    BY <1>2 DEF extent_append, Outcome
  <2> QED
    BY <2>1, FailedGood DEF Appended
<1>3. CASE t.root.depth # 0 /\ t.root.entries # <<>>
  <2>1. Deep(t)
    BY <1>3 DEF Good, Flat
  <2> QED
    BY <1>3, <2>1, AppendToLeaf DEF extent_append
<1> QED
  BY <1>1, <1>2, <1>3

-----------------------------------------------------------------------------
(* Truncating. *)

\* When no block is in two extents, count_iblocks counts the blocks they map.
LEMMA CountIs ==
  ASSUME NEW r, r.depth = 0, r.entries \in Seq(Extent),
         \A i \in DOMAIN r.entries : BlocksOf(r.entries[i]) \subseteq Blocks,
         \A i, j \in DOMAIN r.entries : i < j => BlocksOf(r.entries[i]) \cap BlocksOf(r.entries[j]) = {}
  PROVE  count_iblocks(r) \in Nat /\ count_iblocks(r) = Cardinality(AllBlocks(ToSet(r.entries)))
<1> DEFINE es == r.entries
           n == Len(es)
           U(k) == UNION {BlocksOf(es[i]) : i \in 1 .. k}
<1>1. n \in Nat /\ DOMAIN es = 1 .. n /\ \A k \in 1 .. n : es[k] \in Extent /\ BlocksOf(es[k]) \in SUBSET Blocks
  OBVIOUS
<1>2. \A i, j \in 1 .. n : i < j => BlocksOf(es[i]) \cap BlocksOf(es[j]) = {}
  BY <1>1
<1>3. \E sum \in [0 .. n -> Nat] :
         /\ sum[0] = 0 /\ \A k \in 1 .. n : sum[k] = sum[k - 1] + es[k].len
         /\ count_iblocks(r) = sum[n]
  BY CountIblocks
<1>4. PICK sum \in [0 .. n -> Nat] :
         /\ sum[0] = 0 /\ \A k \in 1 .. n : sum[k] = sum[k - 1] + es[k].len
         /\ count_iblocks(r) = sum[n]
  BY <1>3
<1>5. AllBlocks(ToSet(es)) = U(n)
  BY <1>1 DEF AllBlocks, ToSet
<1> HIDE DEF es, n
<1> DEFINE S == {k \in 0 .. n : sum[k] = Cardinality(U(k))}
<1>6. 0 \in S
  <2>1. U(0) = {}
    OBVIOUS
  <2>2. Cardinality(U(0)) = 0
    BY <2>1, FS_EmptySet
  <2> HIDE DEF U
  <2> QED
    BY <1>1, <1>4, <2>2
<1>7. ASSUME NEW k \in 1 .. n, k - 1 \in S PROVE k \in S
  <2>1. U(k) = U(k - 1) \cup BlocksOf(es[k])
    <3>1. \A i : i \in 1 .. k <=> i \in 1 .. (k - 1) \/ i = k
      BY <1>1
    <3>2. \A b : b \in U(k) <=> b \in U(k - 1) \/ b \in BlocksOf(es[k])
      BY <3>1
    <3> HIDE DEF U
    <3> QED
      BY <3>2
  <2>2. \A i \in 1 .. (k - 1) : i \in 1 .. n /\ i < k
    BY <1>1
  <2>3. U(k - 1) \cap BlocksOf(es[k]) = {} /\ U(k - 1) \in SUBSET Blocks
    BY <1>1, <1>2, <2>2
  <2> HIDE DEF U
  <2>4. Cardinality(U(k)) = Cardinality(U(k - 1)) + Cardinality(BlocksOf(es[k]))
    BY <1>1, <2>1, <2>3, Apart
  <2>5. Cardinality(BlocksOf(es[k])) = es[k].len
    <3>1. BlocksOf(es[k]) = RunOf(es[k].start, es[k].len) /\ es[k].start \in Nat /\ es[k].len \in Nat \ {0}
      BY <1>1, ExtentFields DEF RunOf
    <3> QED
      BY <3>1, RunLengthIs
  <2>6. sum[k - 1] = Cardinality(U(k - 1)) /\ sum[k] = sum[k - 1] + es[k].len
    BY <1>4, <1>7
  <2>7. k \in 0 .. n
    BY <1>1
  <2> QED
    BY <2>4, <2>5, <2>6, <2>7
<1>8. n \in S
  <2> HIDE DEF S
  <2>1. 0 .. n \subseteq S
    BY <1>1, <1>6, <1>7, UpTo
  <2> QED
    BY <1>1, <2>1
<1> HIDE DEF U
<1> QED
  BY <1>1, <1>4, <1>5, <1>8 DEF es

\* What is kept of the extents in E.
CutSet(E, keep) == {CutAt(e, keep) : e \in {e \in E : e.lblk < keep}}

\* The blocks of those in E that go.
GoneFrom(E, keep) == UNION {{b \in BlocksOf(e) : e.lblk + b - e.start >= keep} : e \in E}

\* The blocks of an extent that is cut.
LEMMA KeptBlocks ==
  ASSUME NEW e \in Extent, NEW keep \in Nat, e.lblk < keep, NEW b
  PROVE  b \in BlocksOf(CutAt(e, keep)) <=> b \in BlocksOf(e) /\ ~(e.lblk + b - e.start >= keep)
<1> DEFINE f == CutAt(e, keep)
<1>1. f \in Extent /\ f.lblk = e.lblk /\ f.start = e.start /\ f.len = IF EndOf(e) > keep THEN keep - e.lblk ELSE e.len
  BY CutAtIs
<1>2. e.lblk \in Nat /\ e.len \in Nat /\ e.start \in Nat /\ EndOf(e) = e.lblk + e.len
      /\ BlocksOf(e) = e.start .. (e.start + e.len - 1)
  BY ExtentFields
<1>3. BlocksOf(f) = e.start .. (e.start + f.len - 1)
  BY <1>1, ExtentFields
<1> HIDE DEF f
<1>4. CASE EndOf(e) > keep
  BY <1>1, <1>2, <1>3, <1>4 DEF f
<1>5. CASE ~(EndOf(e) > keep)
  BY <1>1, <1>2, <1>3, <1>5 DEF f
<1> QED
  BY <1>4, <1>5

\* All of an extent behind the cut goes.
LEMMA GoneBlocks ==
  ASSUME NEW e \in Extent, NEW keep \in Nat, ~(e.lblk < keep), NEW b \in BlocksOf(e)
  PROVE  e.lblk + b - e.start >= keep
<1>1. e.lblk \in Nat /\ e.start \in Nat /\ e.len \in Nat /\ BlocksOf(e) = e.start .. (e.start + e.len - 1)
  BY ExtentFields
<1> QED
  BY <1>1

\* r is t cut at keep, without the leaves in G.
Cut(t, r, keep, G) ==
  /\ Exts(r) = CutSet(Exts(t), keep)
  /\ G \subseteq Children(t.root) /\ Children(r.root) = Children(t.root) \ G
  /\ r.used = t.used \ (G \cup GoneFrom(Exts(t), keep))

\* A tree that is cut owns what is left of it, and what it gives up is free.
LEMMA CutOwns ==
  ASSUME NEW t, NEW r, NEW keep \in Nat, NEW G, OwnedOnce(t), Exts(t) \subseteq Extent,
         t.used \in SUBSET Blocks, Foreign \subseteq t.used, Cut(t, r, keep, G)
  PROVE  OwnedOnce(r) /\ Leaked(r) = Leaked(t) /\ r.used \in SUBSET Blocks /\ Foreign \subseteq r.used
<1> DEFINE E == Exts(t)
           gone == GoneFrom(E, keep)
<1>1. /\ MappedBy(t) \subseteq t.used \ Foreign /\ Children(t.root) \subseteq t.used \ Foreign
      /\ MappedBy(t) \cap Children(t.root) = {}
      /\ \A e, f \in E : e # f => BlocksOf(e) \cap BlocksOf(f) = {}
  BY DEF OwnedOnce, OwnedBy
<1>2. \A b : b \in MappedBy(t) <=> \E e \in E : b \in BlocksOf(e)
  BY DEF MappedBy
<1>3. \A b : b \in gone <=> \E e \in E : b \in BlocksOf(e) /\ e.lblk + b - e.start >= keep
  BY DEF GoneFrom
<1>4. \A f : f \in Exts(r) <=> \E e \in E : e.lblk < keep /\ f = CutAt(e, keep)
  BY DEF Cut, CutSet
<1>5. \A b : b \in MappedBy(r) <=> \E f \in Exts(r) : b \in BlocksOf(f)
  BY DEF MappedBy
<1>6. G \subseteq Children(t.root) /\ Children(r.root) = Children(t.root) \ G /\ r.used = t.used \ (G \cup gone)
  BY DEF Cut
<1>7. \A e \in E : e \in Extent
  OBVIOUS
<1> HIDE DEF E, gone
<1>8. ASSUME NEW b PROVE b \in MappedBy(r) <=> b \in MappedBy(t) /\ b \notin gone
  <2>1. ASSUME b \in MappedBy(r) PROVE b \in MappedBy(t) /\ b \notin gone
    <3>1. PICK e \in E : e.lblk < keep /\ b \in BlocksOf(CutAt(e, keep))
      BY <1>4, <1>5, <2>1
    <3>2. b \in BlocksOf(e) /\ ~(e.lblk + b - e.start >= keep)
      BY <1>7, <3>1, KeptBlocks
    <3>3. \A f \in E : b \in BlocksOf(f) => f = e
      BY <1>1, <3>2
    <3> QED
      BY <1>2, <1>3, <3>2, <3>3
  <2>2. ASSUME b \in MappedBy(t), b \notin gone PROVE b \in MappedBy(r)
    <3>1. PICK e \in E : b \in BlocksOf(e)
      BY <1>2, <2>2
    <3>2. ~(e.lblk + b - e.start >= keep)
      BY <1>3, <2>2, <3>1
    <3>3. e.lblk < keep
      BY <1>7, <3>1, <3>2, GoneBlocks
    <3>4. b \in BlocksOf(CutAt(e, keep))
      BY <1>7, <3>1, <3>2, <3>3, KeptBlocks
    <3> QED
      BY <1>4, <1>5, <3>3, <3>4
  <2> QED
    BY <2>1, <2>2
<1>9. gone \subseteq MappedBy(t)
  BY <1>2, <1>3
<1>10. ASSUME NEW f \in Exts(r), NEW g \in Exts(r), f # g PROVE BlocksOf(f) \cap BlocksOf(g) = {}
  <2>1. PICK e \in E : e.lblk < keep /\ f = CutAt(e, keep)
    BY <1>4
  <2>2. PICK d \in E : d.lblk < keep /\ g = CutAt(d, keep)
    BY <1>4
  <2>3. d # e
    BY <1>10, <2>1, <2>2
  <2>4. BlocksOf(e) \cap BlocksOf(d) = {}
    BY <1>1, <2>3
  <2>5. \A b : b \in BlocksOf(f) => b \in BlocksOf(e)
    BY <1>7, <2>1, KeptBlocks
  <2>6. \A b : b \in BlocksOf(g) => b \in BlocksOf(d)
    BY <1>7, <2>2, KeptBlocks
  <2> QED
    BY <2>4, <2>5, <2>6
<1>11. OwnedOnce(r)
  <2>1. OwnedBy(r) \subseteq r.used \ Foreign
    BY <1>1, <1>6, <1>8, <1>9 DEF OwnedBy
  <2>2. MappedBy(r) \cap Children(r.root) = {}
    BY <1>1, <1>6, <1>8
  <2> QED
    BY <1>10, <2>1, <2>2 DEF OwnedOnce
<1>12. Leaked(r) = Leaked(t)
  BY <1>1, <1>6, <1>8, <1>9 DEF Leaked, OwnedBy
<1>13. r.used \in SUBSET Blocks /\ Foreign \subseteq r.used
  BY <1>1, <1>6, <1>9
<1> QED
  BY <1>11, <1>12, <1>13

\* A leaf that is cut.
LEMMA LeafCut ==
  ASSUME NEW es, Sorted(es), NEW keep \in Nat
  PROVE  LET c == truncate_leaf(es, keep) IN
         /\ Sorted(c) /\ Len(c) <= Len(es) /\ ToSet(c) = CutSet(ToSet(es), keep)
         /\ es # <<>> /\ es[1].lblk < keep => c # <<>> /\ c[1].lblk = es[1].lblk
         /\ \A k \in DOMAIN c : k \in DOMAIN es /\ c[k].lblk = es[k].lblk /\ EndOf(c[k]) <= EndOf(es[k])
<1> DEFINE L == Len(es)
           c == truncate_leaf(es, keep)
           m == Len(c)
<1>1. es \in Seq(Extent) /\ L \in Nat /\ DOMAIN es = 1 .. L /\ \A k \in 1 .. L : es[k] \in Extent
  BY DEF Sorted
<1>2. KeptOf(es, keep, c)
  BY TruncateLeaf
<1> HIDE DEF c
<1>3. /\ c \in Seq(Extent) /\ m \in Nat /\ m <= L /\ DOMAIN c = 1 .. m
      /\ \A i \in 1 .. L : es[i].lblk < keep <=> i <= m
      /\ \A i \in 1 .. m : c[i] = CutAt(es[i], keep)
  BY <1>2 DEF KeptOf
<1> HIDE DEF L, m
<1>4. ASSUME NEW k \in 1 .. m
      PROVE  /\ k \in 1 .. L /\ es[k].lblk < keep /\ c[k].lblk = es[k].lblk /\ EndOf(c[k]) <= EndOf(es[k])
             /\ c[k] \in Extent /\ EndOf(c[k]) \in Nat /\ EndOf(es[k]) \in Nat /\ es[k].lblk \in Nat
  <2>1. k \in 1 .. L /\ k <= m
    BY <1>1, <1>3
  <2>2. es[k].lblk < keep /\ es[k] \in Extent /\ c[k] = CutAt(es[k], keep)
    BY <1>1, <1>3, <2>1
  <2>3. c[k] \in Extent /\ c[k].lblk = es[k].lblk /\ EndOf(c[k]) <= EndOf(es[k])
    BY <2>2, CutAtIs
  <2> QED
    BY <2>1, <2>2, <2>3, ExtentFields
<1>5. Sorted(c)
  <2>1. ASSUME NEW i \in 1 .. m, NEW j \in 1 .. m, i < j PROVE EndOf(c[i]) <= c[j].lblk
    <3>1. i \in 1 .. L /\ j \in 1 .. L
      BY <1>4
    <3>2. EndOf(es[i]) <= es[j].lblk
      BY <1>1, <2>1, <3>1 DEF Sorted
    <3> QED
      BY <1>4, <3>2
  <2> QED
    BY <1>3, <2>1 DEF Sorted
<1>6. ToSet(c) = CutSet(ToSet(es), keep)
  <2>1. \A f : f \in ToSet(c) <=> \E k \in 1 .. m : f = c[k]
    BY <1>3 DEF ToSet
  <2>2. \A e : e \in ToSet(es) <=> \E k \in 1 .. L : e = es[k]
    BY <1>1 DEF ToSet
  <2>3. \A f : f \in CutSet(ToSet(es), keep) <=> \E e \in ToSet(es) : e.lblk < keep /\ f = CutAt(e, keep)
    BY DEF CutSet
  <2>4. ASSUME NEW f, f \in ToSet(c) PROVE f \in CutSet(ToSet(es), keep)
    <3>1. PICK k \in 1 .. m : f = c[k]
      BY <2>1, <2>4
    <3>2. es[k] \in ToSet(es) /\ es[k].lblk < keep /\ f = CutAt(es[k], keep)
      BY <1>3, <1>4, <2>2, <3>1
    <3> QED
      BY <2>3, <3>2
  <2>5. ASSUME NEW f, f \in CutSet(ToSet(es), keep) PROVE f \in ToSet(c)
    <3>1. PICK k \in 1 .. L : es[k].lblk < keep /\ f = CutAt(es[k], keep)
      BY <2>2, <2>3, <2>5
    <3>2. k \in 1 .. m
      BY <1>1, <1>3, <3>1
    <3> QED
      BY <1>3, <2>1, <3>1, <3>2
  <2> QED
    BY <2>4, <2>5
<1>7. ASSUME es # <<>>, es[1].lblk < keep PROVE c # <<>> /\ c[1].lblk = es[1].lblk
  <2>1. 1 \in 1 .. L
    BY <1>1, <1>7 DEF L
  <2>2. 1 \in 1 .. m
    BY <1>1, <1>3, <1>7, <2>1
  <2> QED
    BY <1>3, <1>4, <2>2 DEF m
<1> QED
  BY <1>1, <1>3, <1>4, <1>5, <1>6, <1>7 DEF L, m, c


\* extent_truncate sets all parts but the outcome.
CutDown(t, rn, lf, gone, ib) == [t EXCEPT !.root = rn, !.leaf = lf, !.used = @ \ gone, !.iblocks = ib]

\* The record that comes of it.
LEMMA WithAll ==
  ASSUME NEW t, Fields(t), NEW rn, NEW lf, NEW gone, NEW ib
  PROVE  CutDown(t, rn, lf, gone, ib) = TreeOf(rn, lf, t.used \ gone, ib, t.why)
<1> DEFINE us == t.used
           wh == t.why
           ro == t.root
           le == t.leaf
           ic == t.iblocks
           un == us \ gone
           t1 == [t EXCEPT !.root = rn]
           t2 == [t1 EXCEPT !.leaf = lf]
           t3 == [t2 EXCEPT !.used = un]
           t4 == [t3 EXCEPT !.iblocks = ib]
           r == CutDown(t, rn, lf, gone, ib)
<1>1. t = TreeOf(ro, le, us, ic, wh)
  BY HasFields
<1>2. r = [[[[t EXCEPT !.root = rn] EXCEPT !.leaf = lf] EXCEPT !.used = @ \ gone] EXCEPT !.iblocks = ib]
  BY DEF CutDown
<1> HIDE DEF us, wh, ro, le, ic, r, un
<1>3. t1 = TreeOf(rn, le, us, ic, wh)
  BY <1>1 DEF TreeOf
<1> HIDE DEF t1
<1>4. t2 = TreeOf(rn, lf, us, ic, wh)
  BY <1>3 DEF TreeOf
<1>5. r = [[t2 EXCEPT !.used = @ \ gone] EXCEPT !.iblocks = ib]
  BY <1>2 DEF t2, t1
<1> HIDE DEF t2
<1>6. [t2 EXCEPT !.used = @ \ gone] = [t2 EXCEPT !.used = t2.used \ gone]
  OBVIOUS
<1>7. t2.used = us
  BY <1>4 DEF TreeOf
<1>8. r = t4
  BY <1>5, <1>6, <1>7 DEF un
<1>9. t3 = TreeOf(rn, lf, un, ic, wh)
  BY <1>4 DEF TreeOf
<1> HIDE DEF t3
<1>10. t4 = TreeOf(rn, lf, un, ib, wh)
  BY <1>9 DEF TreeOf
<1> QED
  BY <1>8, <1>10 DEF r, un, us, wh

\* The blocks that the truncation of one leaf frees.
LEMMA FreedIs ==
  ASSUME NEW es, NEW keep
  PROVE  FreedFrom(es, keep) = GoneFrom(ToSet(es), keep)
BY DEF FreedFrom, GoneFrom

Truncated(t, r) == Good(r) /\ r.why = t.why /\ Leaked(r) = Leaked(t)

\* A tree whose extents are in the root.
LEMMA FlatTruncate ==
  ASSUME NEW t, Good(t), t.root.depth = 0, NEW keep \in Nat
  PROVE  Truncated(t, extent_truncate(t, keep))
<1> DEFINE es == t.root.entries
           c == truncate_leaf(es, keep)
           gone == FreedFrom(es, keep)
           rn == [depth |-> 0, entries |-> c]
           r == extent_truncate(t, keep)
           ib == count_iblocks(rn)
<1>1. Fields(t) /\ Sorted(es) /\ Len(es) <= RootMax /\ Len(es) \in Nat /\ t.leaf = <<>> /\ OwnedOnce(t) /\ RootMax \in Nat
  <2>1. Flat(t) /\ Fields(t) /\ OwnedOnce(t)
    BY DEF Good, Deep
  <2> QED
    BY <2>1, TreeAssumption DEF Flat, Sorted
<1>2. t.root = [depth |-> 0, entries |-> es]
  BY <1>1, HasFields
<1>3. r = TreeOf(rn, t.leaf, t.used \ gone, ib, t.why)
  <2>1. [t.root EXCEPT !.entries = c] = rn
    BY <1>2
  <2>2. r = [t EXCEPT !.root = [t.root EXCEPT !.entries = c], !.leaf = t.leaf, !.used = @ \ gone,
                      !.iblocks = count_iblocks([t.root EXCEPT !.entries = c])]
    <3>1. [t.root EXCEPT !.entries = IF t.root.depth = 0 THEN truncate_leaf(@, keep) ELSE KeptChildren(es, keep)]
            = [t.root EXCEPT !.entries = c]
      BY <1>2
    <3> HIDE DEF c, gone
    <3>2. [t.root EXCEPT !.entries = c].depth = 0
      BY <1>2
    <3> QED
      BY <3>1, <3>2 DEF extent_truncate, gone
  <2> HIDE DEF r, c, rn, gone, ib
  <2>3. r = CutDown(t, rn, t.leaf, gone, ib)
    BY <2>1, <2>2 DEF ib, CutDown
  <2>4. CutDown(t, rn, t.leaf, gone, ib) = TreeOf(rn, t.leaf, t.used \ gone, ib, t.why)
    BY <1>1, WithAll
  <2> QED
    BY <2>3, <2>4
<1>4. /\ Sorted(c) /\ Len(c) <= Len(es) /\ ToSet(c) = CutSet(ToSet(es), keep) /\ c \in Seq(Extent) /\ Len(c) \in Nat
  <2>1. Sorted(c) /\ Len(c) <= Len(es) /\ ToSet(c) = CutSet(ToSet(es), keep)
    BY <1>1, LeafCut
  <2> QED
    BY <2>1 DEF Sorted
<1>5. gone = GoneFrom(ToSet(es), keep)
  BY FreedIs
<1>6. rn.depth = 0 /\ rn.entries = c /\ rn = [depth |-> 0, entries |-> c]
  OBVIOUS
<1> HIDE DEF r, c, rn, gone, ib
<1>7. r.root = rn /\ r.leaf = t.leaf /\ r.used = t.used \ gone /\ r.iblocks = ib /\ r.why = t.why
  BY <1>3 DEF TreeOf
<1>8. Exts(t) = ToSet(es) /\ Exts(r) = ToSet(c) /\ Children(t.root) = {} /\ Children(r.root) = {}
  BY <1>6, <1>7 DEF Exts, collect_leaves, Children
<1>9. Cut(t, r, keep, {})
  BY <1>4, <1>5, <1>7, <1>8 DEF Cut
<1>10. Exts(t) \subseteq Extent /\ t.used \in SUBSET Blocks /\ Foreign \subseteq t.used /\ t.why \in Outcome
  <2>1. Exts(t) \subseteq Extent
    BY <1>1, <1>8 DEF Sorted, ToSet
  <2> QED
    BY <1>1, <2>1, HasFields
<1>11. OwnedOnce(r) /\ Leaked(r) = Leaked(t) /\ r.used \in SUBSET Blocks /\ Foreign \subseteq r.used
  BY <1>1, <1>9, <1>10, CutOwns
<1>12. ib \in Nat /\ ib = Cardinality(MappedBy(r))
  <2>1. \A e \in Exts(r) : BlocksOf(e) \subseteq Blocks
    BY <1>11 DEF OwnedOnce, OwnedBy, MappedBy
  <2>2. \A i \in DOMAIN c : c[i] \in Exts(r) /\ c[i] \in Extent
    BY <1>4, <1>8 DEF ToSet
  <2>3. ASSUME NEW i \in DOMAIN c, NEW j \in DOMAIN c, i < j PROVE BlocksOf(c[i]) \cap BlocksOf(c[j]) = {}
    <3>1. EndOf(c[i]) <= c[j].lblk
      BY <1>4, <2>3 DEF Sorted
    <3>2. c[i] # c[j]
      BY <2>2, <3>1, ExtentFields
    <3> QED
      BY <1>11, <2>2, <3>2 DEF OwnedOnce
  <2>4. ib \in Nat /\ ib = Cardinality(AllBlocks(ToSet(c)))
    <3>1. \A i \in DOMAIN c : BlocksOf(c[i]) \subseteq Blocks
      BY <2>1, <2>2
    <3> QED
      BY <1>4, <1>6, <2>3, <3>1, CountIs DEF ib
  <2> QED
    BY <1>8, <2>4 DEF AllBlocks, MappedBy
<1>13. Like(r, 0, c, t.leaf, t.used \ gone, ib, t.why)
  BY <1>3, <1>6, <1>7, <1>10, <1>11, <1>12, MakeFields
<1>14. Flat(r)
  BY <1>1, <1>4, <1>6, <1>7 DEF Flat
<1>15. Good(r)
  BY <1>7, <1>11, <1>12, <1>13, <1>14 DEF Good, Honest, Like
<1> QED
  BY <1>7, <1>11, <1>15 DEF Truncated, r

\* r is t with the entries p left in its root, and its leaves cut at keep.
CutDeep(t, r, keep, p) ==
  /\ Deep(t) /\ FirstOf(t.root.entries, keep, p)
  /\ r.root.depth = 1 /\ r.root.entries = p
  /\ r.leaf = [c \in {x.child : x \in ToSet(p)} |-> truncate_leaf(t.leaf[c], keep)]

\* The leaves that stay hold all that is left of the extents.
LEMMA DeepCut ==
  ASSUME NEW t, NEW r, NEW keep \in Nat, NEW p, CutDeep(t, r, keep, p)
  PROVE  /\ Deep(r) /\ Exts(r) = CutSet(Exts(t), keep)
         /\ Children(r.root) = {x.child : x \in ToSet(p)} /\ Children(r.root) \subseteq Children(t.root)
         /\ \A c \in Children(t.root) : c \notin Children(r.root) => \A e \in ToSet(t.leaf[c]) : ~(e.lblk < keep)
<1> DEFINE idx == t.root.entries
           N == Len(idx)
           m == Len(p)
           es(i) == t.leaf[idx[i].child]
           cs(i) == truncate_leaf(es(i), keep)
<1>0. Deep(t) /\ FirstOf(idx, keep, p) /\ r.root.depth = 1 /\ r.root.entries = p
      /\ r.leaf = [c \in {x.child : x \in ToSet(p)} |-> truncate_leaf(t.leaf[c], keep)]
  BY DEF CutDeep
<1>1. /\ idx \in Seq(Index) /\ N \in Nat /\ N <= RootMax /\ DOMAIN idx = 1 .. N
      /\ DOMAIN t.leaf = Children(t.root) /\ RootMax \in Nat
  BY <1>0, DeepFields, TreeAssumption
<1>2. \A i \in 1 .. N : /\ idx[i] \in Index /\ idx[i].lblk \in Nat /\ idx[i].child \in Blocks
                        /\ idx[i].child \in Children(t.root)
                        /\ Sorted(es(i)) /\ Len(es(i)) <= LeafMax
                        /\ es(i) \in Seq(Extent)
  BY <1>0, DeepFields
<1>3. Indexed(idx, t.leaf)
  BY <1>0 DEF Deep
<1>4. /\ p \in Seq(Index) /\ m \in Nat /\ m <= N /\ DOMAIN p = 1 .. m
      /\ \A i \in 1 .. N : idx[i].lblk < keep <=> i <= m
      /\ \A i \in 1 .. m : p[i] = idx[i] /\ i \in 1 .. N
  BY <1>0, <1>1 DEF FirstOf
<1>5. Children(r.root) = {x.child : x \in ToSet(p)}
  BY <1>0 DEF Children
<1>6. \A c : c \in Children(t.root) <=> \E i \in 1 .. N : c = idx[i].child
  <2>1. \A c : c \in Children(t.root) <=> \E i \in DOMAIN t.root.entries : c = t.root.entries[i].child
    BY <1>0, DeepExts
  <2> QED
    BY <1>1, <2>1
<1>7. \A e : e \in Exts(t) <=> \E i \in 1 .. N : e \in ToSet(es(i))
  BY <1>0, DeepSets
<1>8. \A c : c \in Children(r.root) <=> \E i \in 1 .. m : c = idx[i].child
  <2>1. \A x : x \in ToSet(p) <=> \E i \in 1 .. m : x = p[i]
    BY <1>4 DEF ToSet
  <2> QED
    BY <1>4, <1>5, <2>1
<1>9. \A i \in 1 .. m : p[i].child \in Children(r.root) /\ r.leaf[p[i].child] = cs(i)
  <2>1. r.leaf = [c \in Children(r.root) |-> truncate_leaf(t.leaf[c], keep)]
    BY <1>0, <1>5
  <2>2. \A i \in 1 .. m : p[i].child \in Children(r.root) /\ p[i] = idx[i]
    BY <1>4, <1>8
  <2> HIDE DEF idx, N, m
  <2>3. \A i \in 1 .. m : r.leaf[p[i].child] = truncate_leaf(t.leaf[p[i].child], keep)
    BY <2>1, <2>2
  <2> QED
    BY <2>2, <2>3
<1>10. r.leaf = [c \in Children(r.root) |-> r.leaf[c]]
  BY <1>0, <1>5
<1> HIDE DEF idx, N, m
<1>11. ASSUME NEW i \in 1 .. N
       PROVE  /\ Sorted(cs(i)) /\ Len(cs(i)) <= LeafMax /\ ToSet(cs(i)) = CutSet(ToSet(es(i)), keep)
              /\ es(i) # <<>> /\ es(i)[1].lblk < keep => cs(i) # <<>> /\ cs(i)[1].lblk = es(i)[1].lblk
              /\ \A k \in DOMAIN cs(i) : k \in DOMAIN es(i) /\ cs(i)[k].lblk = es(i)[k].lblk
                                         /\ EndOf(cs(i)[k]) <= EndOf(es(i)[k])
  <2> DEFINE s == es(i)
             u == cs(i)
  <2>1. Sorted(s) /\ Len(s) <= LeafMax
    BY <1>2
  <2> HIDE DEF s
  <2>2. /\ Sorted(u) /\ Len(u) <= Len(s) /\ ToSet(u) = CutSet(ToSet(s), keep)
        /\ s # <<>> /\ s[1].lblk < keep => u # <<>> /\ u[1].lblk = s[1].lblk
        /\ \A k \in DOMAIN u : k \in DOMAIN s /\ u[k].lblk = s[k].lblk /\ EndOf(u[k]) <= EndOf(s[k])
    BY <2>1, LeafCut DEF s
  <2>3. Len(u) \in Nat /\ Len(s) \in Nat /\ LeafMax \in Nat
    BY <2>1, <2>2, TreeAssumption DEF Sorted
  <2> HIDE DEF u
  <2>4. Len(u) <= LeafMax
    BY <2>1, <2>2, <2>3
  <2> QED
    BY <2>2, <2>4 DEF s, u
<1> HIDE DEF cs
<1>12. Indexed(p, r.leaf)
  <2>1. \A i, j \in 1 .. m : i # j => p[i].child # p[j].child
    BY <1>1, <1>3, <1>4 DEF Indexed
  <2>2. \A i, j \in 1 .. m : i < j => p[i].lblk <= p[j].lblk
    BY <1>1, <1>3, <1>4 DEF Indexed
  <2>3. ASSUME NEW i \in 1 .. m, NEW k \in DOMAIN r.leaf[p[i].child]
        PROVE  LET e == r.leaf[p[i].child][k] IN
                 /\ p[i].lblk <= e.lblk
                 /\ \A j \in 1 .. m : i < j => EndOf(e) <= p[j].lblk
    <3>1. r.leaf[p[i].child] = cs(i) /\ i \in 1 .. N /\ p[i] = idx[i]
      BY <1>4, <1>9
    <3>2. k \in DOMAIN cs(i) /\ k \in DOMAIN es(i) /\ cs(i)[k].lblk = es(i)[k].lblk /\ EndOf(cs(i)[k]) <= EndOf(es(i)[k])
      BY <1>11, <2>3, <3>1
    <3>3. idx[i].lblk <= es(i)[k].lblk /\ \A j \in 1 .. N : i < j => EndOf(es(i)[k]) <= idx[j].lblk
      BY <1>1, <1>3, <3>1, <3>2 DEF Indexed
    <3>4. EndOf(cs(i)[k]) \in Nat /\ EndOf(es(i)[k]) \in Nat
      <4>1. cs(i)[k] \in Extent
        BY <1>11, <3>1, <3>2 DEF Sorted
      <4>2. es(i)[k] \in Extent
        BY <1>2, <3>1, <3>2
      <4> QED
        BY <4>1, <4>2, ExtentFields
    <3>5. ASSUME NEW j \in 1 .. m, i < j PROVE EndOf(cs(i)[k]) <= p[j].lblk
      <4>1. j \in 1 .. N /\ p[j] = idx[j] /\ idx[j].lblk \in Nat
        BY <1>2, <1>4
      <4>2. EndOf(es(i)[k]) <= idx[j].lblk
        BY <3>3, <3>5, <4>1
      <4> QED
        BY <3>2, <3>4, <4>1, <4>2
    <3> QED
      BY <3>1, <3>2, <3>3, <3>5
  <2>4. ASSUME NEW i \in 1 .. m
        PROVE  IF i = 1 THEN p[i].lblk = 0
               ELSE r.leaf[p[i].child] # <<>> /\ r.leaf[p[i].child][1].lblk = p[i].lblk
    <3>1. r.leaf[p[i].child] = cs(i) /\ i \in 1 .. N /\ p[i] = idx[i]
      BY <1>4, <1>9
    <3>2. IF i = 1 THEN idx[i].lblk = 0 ELSE es(i) # <<>> /\ es(i)[1].lblk = idx[i].lblk
      BY <1>1, <1>3, <3>1 DEF Indexed
    <3>3. i <= m
      BY <1>4
    <3>4. idx[i].lblk < keep
      BY <1>4, <3>1, <3>3
    <3> QED
      BY <1>11, <3>1, <3>2, <3>4
  <2> QED
    BY <1>4, <2>1, <2>2, <2>3, <2>4 DEF Indexed
<1>13. Deep(r)
  <2>1. ASSUME NEW c \in Children(r.root) PROVE Sorted(r.leaf[c]) /\ Len(r.leaf[c]) <= LeafMax
    <3>1. PICK i \in 1 .. m : c = idx[i].child
      BY <1>8
    <3>2. r.leaf[c] = cs(i) /\ i \in 1 .. N
      BY <1>4, <1>9, <3>1
    <3> QED
      BY <1>11, <3>2
  <2>2. m <= RootMax
    BY <1>1, <1>4
  <2> QED
    BY <1>0, <1>4, <1>10, <1>12, <2>1, <2>2 DEF Deep, m
<1>14. \A f : f \in Exts(r) <=> \E i \in 1 .. m : f \in ToSet(cs(i))
  <2>1. \A f : f \in Exts(r) <=> \E i \in 1 .. m : f \in ToSet(r.leaf[p[i].child])
    BY <1>0, <1>13, DeepSets DEF m
  <2> QED
    BY <1>9, <2>1
<1>15. ASSUME NEW i \in 1 .. N, ~(i <= m), NEW e \in ToSet(es(i)) PROVE ~(e.lblk < keep)
  <2>1. ~(idx[i].lblk < keep) /\ idx[i].lblk \in Nat
    BY <1>2, <1>4, <1>15
  <2>2. PICK k \in DOMAIN es(i) : e = es(i)[k]
    BY <1>15 DEF ToSet
  <2>3. idx[i].lblk <= e.lblk
    BY <1>1, <1>3, <2>2 DEF Indexed
  <2>4. e \in Extent
    BY <1>2, <2>2
  <2>5. e.lblk \in Nat
    BY <2>4, ExtentFields
  <2> QED
    BY <2>1, <2>3, <2>5
<1>16. Exts(r) = CutSet(Exts(t), keep)
  <2>1. \A E, f : f \in CutSet(E, keep) <=> \E e \in E : e.lblk < keep /\ f = CutAt(e, keep)
    BY DEF CutSet
  <2>2. ASSUME NEW f, f \in Exts(r) PROVE f \in CutSet(Exts(t), keep)
    <3>1. PICK i \in 1 .. m : f \in ToSet(cs(i))
      BY <1>14, <2>2
    <3>2. i \in 1 .. N /\ f \in CutSet(ToSet(es(i)), keep)
      BY <1>4, <1>11, <3>1
    <3>3. PICK e \in ToSet(es(i)) : e.lblk < keep /\ f = CutAt(e, keep)
      BY <2>1, <3>2
    <3>4. e \in Exts(t)
      BY <1>7, <3>2, <3>3
    <3> QED
      BY <2>1, <3>3, <3>4
  <2>3. ASSUME NEW f, f \in CutSet(Exts(t), keep) PROVE f \in Exts(r)
    <3>1. PICK e \in Exts(t) : e.lblk < keep /\ f = CutAt(e, keep)
      BY <2>1, <2>3
    <3>2. PICK i \in 1 .. N : e \in ToSet(es(i))
      BY <1>7
    <3>3. i <= m
      BY <1>15, <3>1, <3>2
    <3>4. i \in 1 .. m
      BY <1>1, <1>4, <3>3
    <3>5. f \in ToSet(cs(i))
      BY <1>11, <2>1, <3>1, <3>2
    <3> QED
      BY <1>14, <3>4, <3>5
  <2> QED
    BY <2>2, <2>3
<1>17. Children(r.root) \subseteq Children(t.root)
  BY <1>4, <1>6, <1>8
<1>18. ASSUME NEW c \in Children(t.root), c \notin Children(r.root), NEW e \in ToSet(t.leaf[c]) PROVE ~(e.lblk < keep)
  <2>1. PICK i \in 1 .. N : c = idx[i].child
    BY <1>6
  <2>2. ~(i <= m)
    BY <1>1, <1>4, <1>8, <1>18, <2>1
  <2> QED
    BY <1>15, <1>18, <2>1, <2>2
<1> QED
  BY <1>5, <1>13, <1>16, <1>17, <1>18

\* The blocks that a cut tree of depth 1 frees.
LEMMA DeepFreed ==
  ASSUME NEW t, Deep(t), NEW keep \in Nat, NEW stay \in SUBSET Children(t.root),
         \A c \in Children(t.root) : c \notin stay => \A e \in ToSet(t.leaf[c]) : ~(e.lblk < keep)
  PROVE  UNION {FreedFrom(t.leaf[c], IF c \in stay THEN keep ELSE 0) : c \in Children(t.root)}
           = GoneFrom(Exts(t), keep)
<1> DEFINE C == Children(t.root)
           F == UNION {FreedFrom(t.leaf[c], IF c \in stay THEN keep ELSE 0) : c \in C}
<1>1. \A e : e \in Exts(t) <=> \E c \in C : e \in ToSet(t.leaf[c])
  BY DEF Deep, Exts, collect_leaves
<1>2. \A e \in Exts(t) : e \in Extent
  BY DeepExts
<1>3. \A b : b \in F <=> \E c \in C : b \in FreedFrom(t.leaf[c], IF c \in stay THEN keep ELSE 0)
  OBVIOUS
<1>4. \A es, k, b : b \in FreedFrom(es, k) <=> \E e \in ToSet(es) : b \in BlocksOf(e) /\ e.lblk + b - e.start >= k
  BY DEF FreedFrom
<1>5. \A b : b \in GoneFrom(Exts(t), keep) <=> \E e \in Exts(t) : b \in BlocksOf(e) /\ e.lblk + b - e.start >= keep
  BY DEF GoneFrom
<1> HIDE DEF C, F
<1>6. ASSUME NEW b, b \in F PROVE b \in GoneFrom(Exts(t), keep)
  <2>1. PICK c \in C : b \in FreedFrom(t.leaf[c], IF c \in stay THEN keep ELSE 0)
    BY <1>3, <1>6
  <2>2. PICK e \in ToSet(t.leaf[c]) : b \in BlocksOf(e) /\ e.lblk + b - e.start >= IF c \in stay THEN keep ELSE 0
    BY <1>4, <2>1
  <2>3. e \in Exts(t) /\ e \in Extent
    BY <1>1, <1>2
  <2>4. CASE c \in stay
    BY <1>5, <2>2, <2>3, <2>4
  <2>5. CASE c \notin stay
    <3>1. ~(e.lblk < keep)
      BY <2>5 DEF C
    <3>2. e.lblk + b - e.start >= keep
      BY <2>2, <2>3, <3>1, GoneBlocks
    <3> QED
      BY <1>5, <2>2, <2>3, <3>2
  <2> QED
    BY <2>4, <2>5
<1>7. ASSUME NEW b, b \in GoneFrom(Exts(t), keep) PROVE b \in F
  <2>1. PICK e \in Exts(t) : b \in BlocksOf(e) /\ e.lblk + b - e.start >= keep
    BY <1>5, <1>7
  <2>2. PICK c \in C : e \in ToSet(t.leaf[c])
    BY <1>1
  <2>3. e \in Extent
    BY <1>2
  <2>4. CASE c \in stay
    <3>1. b \in FreedFrom(t.leaf[c], keep)
      BY <1>4, <2>1, <2>2
    <3> QED
      BY <1>3, <2>4, <3>1
  <2>5. CASE c \notin stay
    <3>1. e.lblk \in Nat /\ ~(e.lblk < 0) /\ 0 \in Nat
      BY <2>3, ExtentFields
    <3>2. e.lblk + b - e.start >= 0
      BY <2>1, <2>3, <3>1, GoneBlocks
    <3>3. b \in FreedFrom(t.leaf[c], 0)
      BY <1>4, <2>1, <2>2, <3>2
    <3> QED
      BY <1>3, <2>5, <3>3
  <2> QED
    BY <2>4, <2>5
<1> QED
  BY <1>6, <1>7 DEF F, C

\* A tree with leaves.
LEMMA DeepTruncate ==
  ASSUME NEW t, Good(t), t.root.depth = 1, NEW keep \in Nat
  PROVE  Truncated(t, extent_truncate(t, keep))
<1> DEFINE idx == t.root.entries
           p == KeptChildren(idx, keep)
           stay == {x.child : x \in ToSet(p)}
           freed == (Children(t.root) \ stay)
                    \cup UNION {FreedFrom(t.leaf[c], IF c \in stay THEN keep ELSE 0) : c \in Children(t.root)}
           rn == [depth |-> 1, entries |-> p]
           lf == [c \in stay |-> truncate_leaf(t.leaf[c], keep)]
           ib == count_iblocks(rn)
           r == extent_truncate(t, keep)
<1>1. Fields(t) /\ Deep(t) /\ OwnedOnce(t)
  BY DEF Good, Flat
<1>2. t.root = [depth |-> 1, entries |-> idx]
  BY <1>1, HasFields
<1>3. FirstOf(idx, keep, p)
  <2>1. idx \in Seq(Index) /\ \A i, j \in DOMAIN idx : i < j => idx[i].lblk <= idx[j].lblk
    BY <1>1 DEF Deep, Indexed
  <2> QED
    BY <2>1, KeptChildrenAre
<1>4. r = TreeOf(rn, lf, t.used \ freed, ib, t.why)
  <2>1. r = CutDown(t, rn, lf, freed, ib)
    <3> DEFINE er == [t.root EXCEPT !.entries = IF t.root.depth = 0 THEN truncate_leaf(@, keep) ELSE p]
               ef == IF t.root.depth = 0 THEN FreedFrom(t.root.entries, keep) ELSE freed
    <3>1. r = [t EXCEPT !.root = er, !.leaf = IF er.depth = 0 THEN @ ELSE lf,
                        !.used = @ \ ef, !.iblocks = count_iblocks(er)]
      BY DEF extent_truncate
    <3> HIDE DEF r, lf, freed, p
    <3>2. er = rn
      BY <1>2
    <3>3. rn.depth = 1 /\ ef = freed
      OBVIOUS
    <3> HIDE DEF er, rn, ef
    <3>4. r = [t EXCEPT !.root = rn, !.leaf = lf, !.used = @ \ freed, !.iblocks = count_iblocks(rn)]
      BY <3>1, <3>2, <3>3
    <3> QED
      BY <3>4 DEF CutDown
  <2> HIDE DEF r, rn, lf, freed, ib
  <2>2. CutDown(t, rn, lf, freed, ib) = TreeOf(rn, lf, t.used \ freed, ib, t.why)
    BY <1>1, WithAll
  <2> QED
    BY <2>1, <2>2
<1>5. rn.depth = 1 /\ rn.entries = p /\ ib = 0
  <2> HIDE DEF p
  <2>1. rn.depth = 1 /\ rn.entries = p
    OBVIOUS
  <2> HIDE DEF rn
  <2>2. rn.depth # 0
    BY <2>1
  <2>3. ib = 0
    BY <2>2, Zenon DEF count_iblocks
  <2> QED
    BY <2>1, <2>3
<1>6. r.root = rn /\ r.leaf = lf /\ r.used = t.used \ freed /\ r.iblocks = ib /\ r.why = t.why
  <2> HIDE DEF r, rn, lf, freed, ib
  <2> QED
    BY <1>4 DEF TreeOf
<1>7. CutDeep(t, r, keep, p)
  <2> HIDE DEF r, rn, p, freed, ib, idx
  <2> QED
    BY <1>1, <1>3, <1>5, <1>6 DEF CutDeep, idx
<1> HIDE DEF r, rn, lf, ib, p
<1>8. /\ Deep(r) /\ Exts(r) = CutSet(Exts(t), keep)
      /\ Children(r.root) = stay /\ stay \subseteq Children(t.root)
      /\ \A c \in Children(t.root) : c \notin stay => \A e \in ToSet(t.leaf[c]) : ~(e.lblk < keep)
  BY <1>7, DeepCut
<1> HIDE DEF stay
<1>9. freed = (Children(t.root) \ stay) \cup GoneFrom(Exts(t), keep)
  <2>1. UNION {FreedFrom(t.leaf[c], IF c \in stay THEN keep ELSE 0) : c \in Children(t.root)} = GoneFrom(Exts(t), keep)
    BY <1>1, <1>8, DeepFreed
  <2> QED
    BY <2>1
<1> HIDE DEF freed
<1>10. Cut(t, r, keep, Children(t.root) \ stay)
  BY <1>6, <1>8, <1>9 DEF Cut
<1>11. Exts(t) \subseteq Extent /\ t.used \in SUBSET Blocks /\ Foreign \subseteq t.used /\ t.why \in Outcome
  BY <1>1, HasFields, DeepExts
<1>12. OwnedOnce(r) /\ Leaked(r) = Leaked(t) /\ r.used \in SUBSET Blocks /\ Foreign \subseteq r.used
  BY <1>1, <1>10, <1>11, CutOwns
<1>13. Like(r, 1, p, lf, t.used \ freed, ib, t.why)
  <2>1. rn = [depth |-> 1, entries |-> p] /\ ib \in Nat
    BY <1>5 DEF rn
  <2>2. r = TreeOf([depth |-> 1, entries |-> p], lf, t.used \ freed, ib, t.why)
    BY <1>4, <2>1
  <2> QED
    BY <1>6, <1>11, <1>12, <2>1, <2>2, MakeFields
<1>14. Good(r)
  BY <1>8, <1>12, <1>13 DEF Good, Honest, Like
<1> QED
  BY <1>6, <1>12, <1>14 DEF Truncated, r

\* extent_truncate: the tree is good, and no block is lost.
LEMMA ExtentTruncate ==
  ASSUME NEW t, Good(t), NEW keep \in Nat
  PROVE  Truncated(t, extent_truncate(t, keep))
<1>1. t.root.depth = 0 \/ t.root.depth = 1
  BY DEF Good, Flat, Deep
<1> QED
  BY <1>1, FlatTruncate, DeepTruncate

-----------------------------------------------------------------------------
(* The loop of a write. *)

\* Blocks are taken for a tree: they are in use, and nothing refers to them yet.
TakenFor(t, run, r) == r = [t EXCEPT !.used = @ \cup run]

\* The tree does not change by it.
LEMMA Taken ==
  ASSUME NEW t, Good(t), NEW run \in SUBSET (Blocks \ t.used), NEW r, TakenFor(t, run, r)
  PROVE  Good(r) /\ Leaked(r) = Leaked(t) \cup run /\ run \cap Leaked(t) = {} /\ r.why = t.why
<1> DEFINE d == t.root.depth
           es == t.root.entries
           ro == t.root
           le == t.leaf
           us == t.used
           un == us \cup run
           ib == t.iblocks
           wh == t.why
<1>1. t = TreeOf(ro, le, us, ib, wh) /\ ro = [depth |-> d, entries |-> es]
      /\ us \in SUBSET Blocks /\ Foreign \subseteq us /\ ib \in Nat /\ wh \in Outcome
  BY HasFields DEF Good
<1>2. r = [t EXCEPT !.used = t.used \cup run]
  BY DEF TakenFor
<1> HIDE DEF d, es, ro, le, us, ib, wh
<1>3. t.used = us
  BY <1>1 DEF TreeOf
<1> HIDE DEF un
<1>4. r = [t EXCEPT !.used = un]
  BY <1>2, <1>3 DEF un
<1>5. r = TreeOf(ro, le, un, ib, wh)
  BY <1>1, <1>4 DEF TreeOf
<1>6. r.root = ro /\ r.leaf = le /\ r.used = un /\ r.iblocks = ib /\ r.why = wh
  BY <1>5 DEF TreeOf
<1>7. un \in SUBSET Blocks /\ Foreign \subseteq un
  BY <1>1 DEF un, us
<1>8. Like(r, d, es, le, un, ib, wh)
  BY <1>1, <1>5, <1>7, MakeFields
<1>9. Exts(r) = Exts(t) /\ MappedBy(r) = MappedBy(t) /\ OwnedBy(r) = OwnedBy(t) /\ Children(r.root) = Children(t.root)
  BY <1>6 DEF Exts, MappedBy, OwnedBy, ro, le
<1>10. OwnedOnce(t) /\ OwnedBy(t) \subseteq us \ Foreign
  BY DEF Good, OwnedOnce, us
<1>11. OwnedOnce(r)
  BY <1>6, <1>9, <1>10 DEF OwnedOnce, un
<1>12. Flat(r) \/ Deep(r)
  BY <1>6 DEF Good, Flat, Deep, ro, le
<1>13. Honest(r)
  BY <1>6, <1>9 DEF Good, Honest, ro, ib
<1>14. Leaked(r) = Leaked(t) \cup run /\ run \cap Leaked(t) = {}
  BY <1>1, <1>6, <1>9, <1>10 DEF Leaked, un, us
<1>15. Good(r)
  BY <1>8, <1>11, <1>12, <1>13 DEF Good, Like
<1> QED
  BY <1>6, <1>14, <1>15 DEF wh

\* The outcome says nothing of the tree.
LEMMA Relabelled ==
  ASSUME NEW t, Good(t), NEW r, r = [root |-> t.root, leaf |-> t.leaf, used |-> t.used, iblocks |-> t.iblocks, why |-> "ok"]
  PROVE  Good(r) /\ Leaked(r) = Leaked(t)
<1>1. FailedWith(t, "ok") = r
  <2> DEFINE ro == t.root
             le == t.leaf
             us == t.used
             ib == t.iblocks
             wh == t.why
  <2>1. t = TreeOf(ro, le, us, ib, wh) /\ r = TreeOf(ro, le, us, ib, "ok")
    BY HasFields DEF Good, TreeOf
  <2> HIDE DEF ro, le, us, ib, wh
  <2> QED
    BY <2>1 DEF TreeOf, FailedWith
<1>2. "ok" \in Outcome
  BY DEF Outcome
<1> QED
  BY <1>1, <1>2, FailedGood

\* The state of the loop.
FillingOf(tr, da, bl, to, hi, ma) == [tree |-> tr, data |-> da, blk |-> bl, todo |-> to, hint |-> hi, map |-> ma]

FillFields(f) == f = FillingOf(f.tree, f.data, f.blk, f.todo, f.hint, f.map)

\* A loop that has not failed has put all it took into the tree.
FillInv(f) ==
  /\ FillFields(f)
  /\ Good(f.tree) /\ (f.tree.why = "ok" => Leaked(f.tree) = Leaked(Tree))
  /\ f.todo \in 0 .. MaxExtentLen /\ f.hint \in Nat /\ f.blk \in Nat

\* What is asked for is at least one block and no more than needed.
LEMMA HalvesAre ==
  ASSUME NEW n \in Nat, NEW w \in Halves(n)
  PROVE  w \in 1 .. n
BY DEF Halves

\* A piece that is allocated becomes part of the tree, or the loop fails.
LEMMA AllocatesPiece ==
  ASSUME NEW f, FillInv(f), f.tree.why = "ok", f.todo > 0
  PROVE  FillInv(AllocatePiece(f))
<1> DEFINE hint == f.hint \div GroupSize
           fits == {w \in Halves(f.todo) : alloc_blocks(f.tree.used, w, hint) # NoBlock}
           want == Max(fits)
           phys == alloc_blocks(f.tree.used, want, hint)
           taken == phys .. (phys + want - 1)
           tree == [f.tree EXCEPT !.used = @ \cup taken]
           r == AllocatePiece(f)
           after == extent_append(tree, phys, want, NodeHint)
           ma == [k \in DOMAIN f.map \cup (f.blk .. (f.blk + want - 1)) |->
                    IF k \in DOMAIN f.map THEN f.map[k] ELSE phys + k - f.blk]
<1>1. /\ FillFields(f) /\ Good(f.tree) /\ Leaked(f.tree) = Leaked(Tree)
      /\ f.todo \in 0 .. MaxExtentLen /\ f.hint \in Nat /\ f.blk \in Nat
  BY DEF FillInv
<1>2. MaxExtentLen \in Nat /\ f.todo \in Nat /\ GroupSize \in Nat \ {0} /\ NodeHint \in Nat
  BY <1>1, TreeAssumption, FileAssumption
<1>3. hint \in Nat
  BY <1>1, <1>2
<1>4. r = IF fits = {} THEN [f EXCEPT !.tree = FailedWith(@, "no_space")]
          ELSE FillingOf(after, Zeroed(f.data, taken), f.blk + want, f.todo - want, f.hint, ma)
  BY DEF AllocatePiece, FillingOf
<1> HIDE DEF r, hint
<1>5. CASE fits = {}
  <2> DEFINE t == f.tree
             u == FailedWith(t, "no_space")
             da == f.data
             bl == f.blk
             to == f.todo
             hi == f.hint
             mp == f.map
  <2>1. f = FillingOf(t, da, bl, to, hi, mp)
    BY <1>1 DEF FillFields
  <2>2. r = [f EXCEPT !.tree = FailedWith(@, "no_space")]
    BY <1>4, <1>5
  <2>3. r = [f EXCEPT !.tree = u]
    BY <2>2
  <2> HIDE DEF t, u, da, bl, to, hi, mp
  <2>4. r = FillingOf(u, da, bl, to, hi, mp)
    BY <2>1, <2>3 DEF FillingOf
  <2>5. r.tree = u /\ r.data = da /\ r.blk = bl /\ r.todo = to /\ r.hint = hi /\ r.map = mp
    BY <2>4 DEF FillingOf
  <2>6. Good(u) /\ u.why = "no_space"
    <3>1. "no_space" \in Outcome /\ Good(t)
      BY <1>1 DEF Outcome, t
    <3> QED
      BY <3>1, FailedGood DEF u
  <2>7. FillFields(r)
    BY <2>4, <2>5 DEF FillFields
  <2>8. r.tree.why # "ok"
    BY <2>5, <2>6
  <2>9. bl \in Nat /\ hi \in Nat /\ to \in 0 .. MaxExtentLen
    BY <1>1 DEF bl, hi, to
  <2> QED
    BY <2>5, <2>6, <2>7, <2>8, <2>9 DEF FillInv, r
<1>6. CASE fits # {}
  <2>1. \A w \in fits : w \in 1 .. f.todo
    BY <1>2, HalvesAre
  <2>2. want \in fits
    <3>1. fits \in SUBSET (0 .. f.todo)
      BY <1>2, <2>1
    <3> HIDE DEF fits
    <3> QED
      BY <1>2, <1>6, <3>1, GreatestNumber
  <2>3. want \in 1 .. f.todo /\ alloc_blocks(f.tree.used, want, hint) # NoBlock
    BY <2>1, <2>2
  <2> HIDE DEF want, fits
  <2>4. want \in Nat \ {0} /\ want \in 1 .. MaxExtentLen /\ f.todo - want \in 0 .. MaxExtentLen /\ f.blk + want \in Nat
    BY <1>1, <1>2, <2>3
  <2>5. phys \in Blocks /\ RunOf(phys, want) \subseteq Blocks \ f.tree.used
    BY <1>3, <2>3, <2>4, AllocBlocks
  <2> HIDE DEF phys
  <2>6. taken = RunOf(phys, want)
    BY DEF RunOf
  <2> HIDE DEF taken
  <2>7. Good(tree) /\ Leaked(tree) = Leaked(f.tree) \cup taken /\ taken \cap Leaked(f.tree) = {}
    <3>1. taken \in SUBSET (Blocks \ f.tree.used)
      BY <2>5, <2>6
    <3>2. TakenFor(f.tree, taken, tree)
      BY DEF TakenFor
    <3> HIDE DEF tree
    <3> QED
      BY <1>1, <3>1, <3>2, Taken
  <2> HIDE DEF tree
  <2>8. Appended(tree, after, taken)
    <3>1. RunOf(phys, want) \subseteq Leaked(tree)
      BY <2>6, <2>7
    <3> QED
      BY <1>2, <2>4, <2>5, <2>6, <2>7, <3>1, ExtentAppend
  <2> HIDE DEF after
  <2>9. Good(after) /\ (after.why = "ok" => Leaked(after) = Leaked(Tree))
    <3>1. Good(after) /\ (after.why = "ok" => Leaked(after) = Leaked(tree) \ taken)
      BY <2>8 DEF Appended
    <3>2. Leaked(tree) \ taken = Leaked(f.tree)
      BY <2>7
    <3> QED
      BY <1>1, <3>1, <3>2
  <2> DEFINE da == Zeroed(f.data, taken)
             bl == f.blk + want
             to == f.todo - want
             hi == f.hint
  <2>10. r = FillingOf(after, da, bl, to, hi, ma)
    BY <1>4, <1>6
  <2>11. bl \in Nat /\ to \in 0 .. MaxExtentLen /\ hi \in Nat
    BY <1>1, <2>4
  <2> HIDE DEF da, bl, to, hi, ma
  <2>12. r.tree = after /\ r.data = da /\ r.blk = bl /\ r.todo = to /\ r.hint = hi /\ r.map = ma
    BY <2>10 DEF FillingOf
  <2>13. FillFields(r)
    BY <2>10, <2>12 DEF FillFields
  <2> QED
    BY <2>9, <2>11, <2>12, <2>13 DEF FillInv, r
<1> QED
  BY <1>5, <1>6

\* A run of unmapped blocks is cut to what one extent can map.
LEMMA RunLengthFits ==
  ASSUME NEW leaves, NEW lb \in Nat, NEW last \in Nat, lb <= last
  PROVE  RunLength(leaves, lb, last) \in 0 .. MaxExtentLen
<1> DEFINE found == {k \in lb .. last : lookup_block(root, leaves, k) # NoBlock}
           len == (IF found = {} THEN last + 1 ELSE Min(found)) - lb
<1>1. RunLength(leaves, lb, last) = IF len > MaxExtentLen THEN MaxExtentLen ELSE len
  BY DEF RunLength
<1>2. MaxExtentLen \in Nat
  BY TreeAssumption
<1>3. len \in Nat
  <2>1. CASE found = {}
    BY <2>1
  <2>2. CASE found # {}
    <3>1. found \in SUBSET Nat
      OBVIOUS
    <3>2. \A k \in found : k \in lb .. last
      OBVIOUS
    <3> HIDE DEF found
    <3>3. Min(found) \in found
      BY <2>2, <3>1, LeastNumber
    <3>5. Min(found) \in lb .. last
      BY <3>2, <3>3
    <3>4. Min(found) \in Nat /\ lb <= Min(found)
      <4> DEFINE m == Min(found)
      <4>1. m \in lb .. last
        BY <3>5
      <4> HIDE DEF m
      <4>2. m \in Nat /\ lb <= m
        BY <4>1
      <4> QED
        BY <4>2 DEF m
    <3> QED
      BY <2>2, <3>4
  <2> QED
    BY <2>1, <2>2
<1> HIDE DEF len
<1> QED
  BY <1>1, <1>2, <1>3

\* Every turn of the loop keeps FillInv.
LEMMA FillsStep ==
  ASSUME NEW f, FillInv(f), NEW last \in Nat, size \in Nat
  PROVE  FillInv(FillStep(f, last))
<1> DEFINE t == f.tree
           da == f.data
           bl == f.blk
           to == f.todo
           hi == f.hint
           mp == f.map
           phys == lookup_block(root, f.tree.leaf, f.blk)
           r == FillStep(f, last)
<1>1. f = FillingOf(t, da, bl, to, hi, mp) /\ Good(t) /\ (t.why = "ok" => Leaked(t) = Leaked(Tree))
      /\ to \in 0 .. MaxExtentLen /\ hi \in Nat /\ bl \in Nat
  BY DEF FillInv, FillFields
<1>2. MaxExtentLen \in Nat /\ UnitsPerBlock \in Nat \ {0}
  BY TreeAssumption, FileAssumption
<1>3. CASE t.why # "ok" \/ bl > last
  BY <1>3 DEF FillStep
<1>4. CASE ~(t.why # "ok" \/ bl > last) /\ to > 0
  BY <1>4, AllocatesPiece DEF FillStep
<1>5. CASE ~(t.why # "ok" \/ bl > last) /\ ~(to > 0) /\ phys = NoBlock
  <2> DEFINE len == RunLength(f.tree.leaf, f.blk, last)
             hn == Max({size \div UnitsPerBlock, f.blk})
  <2>1. r = [f EXCEPT !.todo = len, !.hint = hn]
    BY <1>5 DEF FillStep
  <2>2. len \in 0 .. MaxExtentLen
    <3>1. bl <= last
      BY <1>1, <1>5
    <3> HIDE DEF len
    <3> QED
      BY <1>1, <3>1, RunLengthFits DEF len
  <2>3. hn \in Nat
    <3> DEFINE q == size \div UnitsPerBlock
    <3>1. q \in Nat
      BY <1>2
    <3> HIDE DEF q
    <3>2. {q, bl} \in SUBSET (0 .. (q + bl)) /\ {q, bl} # {} /\ q + bl \in Nat
      BY <1>1, <3>1
    <3>3. Max({q, bl}) \in {q, bl}
      BY <3>2, GreatestNumber
    <3> QED
      BY <1>1, <3>1, <3>3 DEF q
  <2> HIDE DEF len, hn, t, da, bl, to, hi, mp, r
  <2>4. r = [[f EXCEPT !.todo = len] EXCEPT !.hint = hn]
    BY <2>1
  <2>5. [f EXCEPT !.todo = len] = FillingOf(t, da, bl, len, hi, mp)
    BY <1>1 DEF FillingOf
  <2>6. r = FillingOf(t, da, bl, len, hn, mp)
    BY <2>4, <2>5 DEF FillingOf
  <2>7. r.tree = t /\ r.data = da /\ r.blk = bl /\ r.todo = len /\ r.hint = hn /\ r.map = mp
    BY <2>6 DEF FillingOf
  <2>8. FillFields(r)
    BY <2>6, <2>7 DEF FillFields
  <2> QED
    BY <1>1, <2>2, <2>3, <2>7, <2>8 DEF FillInv, r
<1>6. CASE ~(t.why # "ok" \/ bl > last) /\ ~(to > 0) /\ phys # NoBlock
  <2> DEFINE ma == [k \in DOMAIN f.map \cup {f.blk} |-> IF k = f.blk THEN phys ELSE f.map[k]]
  <2>1. r = [f EXCEPT !.blk = @ + 1, !.map = [k \in DOMAIN @ \cup {f.blk} |-> IF k = f.blk THEN phys ELSE @[k]]]
    BY <1>6 DEF FillStep
  <2>2. r = [[f EXCEPT !.blk = f.blk + 1] EXCEPT !.map = ma]
    BY <2>1
  <2> DEFINE bn == f.blk + 1
  <2>3. bn \in Nat
    BY <1>1
  <2> HIDE DEF t, da, bl, to, hi, mp, r, ma, bn
  <2>5. [f EXCEPT !.blk = bn] = FillingOf(t, da, bn, to, hi, mp)
    BY <1>1 DEF FillingOf
  <2>6. r = FillingOf(t, da, bn, to, hi, ma)
    BY <2>2, <2>5 DEF FillingOf, bn
  <2>7. r.tree = t /\ r.data = da /\ r.blk = bn /\ r.todo = to /\ r.hint = hi /\ r.map = ma
    BY <2>6 DEF FillingOf
  <2>8. FillFields(r)
    BY <2>6, <2>7 DEF FillFields
  <2> QED
    BY <1>1, <2>3, <2>7, <2>8 DEF FillInv, r
<1> QED
  BY <1>3, <1>4, <1>5, <1>6

\* after is what the loop has come to after each turn.
IsAfter(after, n, first, last) ==
  after = [i \in 0 .. n |-> IF i = 0 THEN Filling(Tree, first) ELSE FillStep(after[i - 1], last)]

\* The loop has a state after every turn.
LEMMA TurnsExist ==
  ASSUME NEW n \in Nat, NEW first, NEW last
  PROVE  \E after : IsAfter(after, n, first, last)
<1> DEFINE S == {k \in 0 .. n : \E after : IsAfter(after, k, first, last)}
<1>1. 0 \in S
  <2> DEFINE a == [i \in 0 .. 0 |-> Filling(Tree, first)]
  <2>1. \A i \in 0 .. 0 : i = 0
    OBVIOUS
  <2>2. IsAfter(a, 0, first, last)
    <3> HIDE DEF a
    <3>1. a = [i \in 0 .. 0 |-> IF i = 0 THEN Filling(Tree, first) ELSE FillStep(a[i - 1], last)]
      BY <2>1 DEF a
    <3> QED
      BY <3>1 DEF IsAfter
  <2> QED
    BY <2>2
<1>2. ASSUME NEW k \in 1 .. n, k - 1 \in S PROVE k \in S
  <2>1. PICK a : IsAfter(a, k - 1, first, last)
    BY <1>2
  <2> DEFINE b == [i \in 0 .. k |-> IF i = k THEN FillStep(a[k - 1], last) ELSE a[i]]
  <2>2. ASSUME NEW i \in 0 .. k
        PROVE  b[i] = IF i = 0 THEN Filling(Tree, first) ELSE FillStep(b[i - 1], last)
    <3>1. CASE i = k
      <4>1. i # 0 /\ i - 1 \in 0 .. k /\ i - 1 # k
        BY <3>1
      <4>2. b[i] = FillStep(a[k - 1], last) /\ b[i - 1] = a[k - 1]
        BY <3>1, <4>1
      <4> QED
        BY <4>1, <4>2
    <3>2. CASE i # k
      <4>1. i \in 0 .. (k - 1) /\ b[i] = a[i]
        BY <3>2
      <4>2. a[i] = IF i = 0 THEN Filling(Tree, first) ELSE FillStep(a[i - 1], last)
        BY <2>1, <4>1 DEF IsAfter
      <4>3. i # 0 => i - 1 \in 0 .. k /\ i - 1 # k
        BY <4>1
      <4>4. i # 0 => b[i - 1] = a[i - 1]
        BY <4>3
      <4> QED
        BY <4>1, <4>2, <4>4
    <3> QED
      BY <3>1, <3>2
  <2>3. IsAfter(b, k, first, last)
    <3>1. b = [i \in 0 .. k |-> b[i]]
      OBVIOUS
    <3> HIDE DEF b
    <3>2. b = [i \in 0 .. k |-> IF i = 0 THEN Filling(Tree, first) ELSE FillStep(b[i - 1], last)]
      BY <2>2, <3>1
    <3> QED
      BY <3>2 DEF IsAfter
  <2>4. k \in 0 .. n
    OBVIOUS
  <2> QED
    BY <2>3, <2>4
<1> HIDE DEF S
<1>3. 0 .. n \subseteq S
  BY <1>1, <1>2, UpTo
<1> QED
  BY <1>3 DEF S

\* The loop ends in FillInv.
LEMMA FillsRange ==
  ASSUME NEW first \in Nat, NEW last \in Nat, first <= last, Good(Tree), size \in Nat
  PROVE  FillInv(Filled(first, last))
<1> DEFINE n == 2 * (last - first + 1)
           after == CHOOSE after : after = [i \in 0 .. n |->
                      IF i = 0 THEN Filling(Tree, first) ELSE FillStep(after[i - 1], last)]
           S == {k \in 0 .. n : FillInv(after[k])}
<1>1. n \in Nat
  OBVIOUS
<1>2. Filled(first, last) = after[n]
  BY DEF Filled
<1>3. IsAfter(after, n, first, last)
  <2> HIDE DEF n
  <2>3. \E a : IsAfter(a, n, first, last)
    BY <1>1, TurnsExist
  <2>1. \E a : a = [i \in 0 .. n |-> IF i = 0 THEN Filling(Tree, first) ELSE FillStep(a[i - 1], last)]
    BY <2>3 DEF IsAfter
  <2>2. after = [i \in 0 .. n |-> IF i = 0 THEN Filling(Tree, first) ELSE FillStep(after[i - 1], last)]
    BY <2>1
  <2> HIDE DEF after
  <2> QED
    BY <2>2 DEF IsAfter
<1> HIDE DEF n, after
<1>4. 0 \in S
  <2>1. after[0] = Filling(Tree, first)
    BY <1>1, <1>3 DEF IsAfter
  <2> DEFINE r == Filling(Tree, first)
  <2>2. r = FillingOf(Tree, data, first, 0, 0, <<>>)
    BY DEF Filling, FillingOf
  <2> HIDE DEF r
  <2>3. r.tree = Tree /\ r.data = data /\ r.blk = first /\ r.todo = 0 /\ r.hint = 0 /\ r.map = <<>>
    BY <2>2 DEF FillingOf
  <2>4. FillFields(r)
    BY <2>2, <2>3 DEF FillFields
  <2>5. 0 \in 0 .. MaxExtentLen
    BY TreeAssumption
  <2>6. FillInv(r)
    BY <2>3, <2>4, <2>5 DEF FillInv
  <2> QED
    BY <1>1, <2>1, <2>6 DEF r
<1>5. ASSUME NEW k \in 1 .. n, k - 1 \in S PROVE k \in S
  <2>1. k \in 0 .. n /\ k # 0
    BY <1>1
  <2>2. after[k] = FillStep(after[k - 1], last)
    BY <1>3, <2>1 DEF IsAfter
  <2>3. FillInv(after[k - 1])
    BY <1>5
  <2>4. FillInv(after[k])
    BY <2>2, <2>3, FillsStep
  <2> QED
    BY <2>1, <2>4
<1> HIDE DEF S
<1>6. 0 .. n \subseteq S
  BY <1>1, <1>4, <1>5, UpTo
<1> QED
  BY <1>1, <1>2, <1>6 DEF S

-----------------------------------------------------------------------------
(* Blocks and units. *)

\* A quotient, from below and above.
LEMMA Quotient ==
  ASSUME NEW a \in Nat, NEW u \in Nat \ {0}
  PROVE  a \div u \in Nat /\ (a \div u) * u <= a /\ a < (a \div u) * u + u
OBVIOUS

\* Multiples are ordered as their factors.
LEMMA Products ==
  ASSUME NEW x \in Nat, NEW y \in Nat, NEW u \in Nat \ {0}
  PROVE  (x <= y => x * u <= y * u) /\ (x * u < y * u + u => x <= y)
<1>1. x <= y => x * u <= y * u
  OBVIOUS
<1>2. ASSUME x * u < y * u + u, ~(x <= y) PROVE FALSE
  <2>1. y + 1 <= x /\ y + 1 \in Nat
    BY <1>2
  <2>2. (y + 1) * u <= x * u
    BY <2>1
  <2>3. (y + 1) * u = y * u + u
    OBVIOUS
  <2> DEFINE p == x * u
             q == y * u
  <2>4. p \in Nat /\ q \in Nat /\ q + u <= p /\ p < q + u
    BY <1>2, <2>2, <2>3
  <2> HIDE DEF p, q
  <2> QED
    BY <2>4
<1> QED
  BY <1>1, <1>2

\* The first block of a write is not behind its last.
LEMMA BlocksOfWrite ==
  ASSUME NEW a \in Nat, NEW b \in Nat, a <= b, NEW u \in Nat \ {0}
  PROVE  a \div u \in Nat /\ b \div u \in Nat /\ a \div u <= b \div u
<1> DEFINE x == a \div u
           y == b \div u
<1>1. x \in Nat /\ x * u <= a /\ y \in Nat /\ b < y * u + u
  BY Quotient
<1> HIDE DEF x, y
<1> DEFINE p == x * u
           q == y * u
<1>2. p \in Nat /\ q \in Nat /\ p <= a /\ b < q + u
  BY <1>1
<1> HIDE DEF p, q
<1>3. p < q + u
  BY <1>2
<1>4. x <= y
  BY <1>1, <1>3, Products DEF p, q
<1> QED
  BY <1>1, <1>4 DEF x, y

\* What is kept of a file that gets n units long ends in its last block.
LEMMA BlocksKept ==
  ASSUME NEW n \in 0 .. MaxUnits
  PROVE  LET keep == (n + UnitsPerBlock - 1) \div UnitsPerBlock
         IN  keep \in Nat /\ keep * UnitsPerBlock <= MaxUnits
<1> DEFINE u == UnitsPerBlock
           a == n + u - 1
           keep == a \div u
           p == keep * u
           q == MaxBlocks * u
<1>1. u \in Nat \ {0} /\ MaxBlocks \in Nat /\ q \in Nat /\ n \in 0 .. q
  BY FileAssumption DEF MaxUnits
<1>2. a \in Nat /\ a < q + u
  <2> HIDE DEF u, q
  <2> QED
    BY <1>1
<1> HIDE DEF a, u
<1>3. keep \in Nat /\ p <= a /\ p \in Nat
  <2>1. keep \in Nat /\ p <= a
    BY <1>1, <1>2, Quotient
  <2> HIDE DEF keep
  <2> QED
    BY <1>1, <2>1
<1>4. p < q + u
  <2> HIDE DEF p, q
  <2> QED
    BY <1>1, <1>2, <1>3
<1>5. keep <= MaxBlocks
  <2> HIDE DEF keep
  <2> QED
    BY <1>1, <1>3, <1>4, Products
<1>6. p <= q
  <2> HIDE DEF keep
  <2> QED
    BY <1>1, <1>3, <1>5, Products
<1> QED
  BY <1>3, <1>6 DEF a, u, MaxUnits

-----------------------------------------------------------------------------
(* The handlers. *)

\* The bounds are numbers.
LEMMA MaxUnitsIs == MaxUnits \in Nat /\ UnitsPerBlock \in Nat \ {0} /\ NewSizes \subseteq 0 .. MaxUnits
BY FileAssumption DEF MaxUnits

\* Marked positions are positions.
LEMMA Positions ==
  ASSUME NEW lbs
  PROVE  Units(lbs) \in SUBSET Position
BY DEF Units

\* write_file_data_cb keeps the tree, and leaks nothing when it succeeds.
LEMMA WriteKeeps ==
  ASSUME FileInv, NEW at \in Position, NEW n \in 1 .. MaxWrite, at + n <= MaxUnits, WriteFile(at, n)
  PROVE  FileInv' /\ (outcome' = "ok" => Leaked(Tree)' = Leaked(Tree))
<1> DEFINE range == at .. (at + n - 1)
           first == at \div UnitsPerBlock
           last == (at + n - 1) \div UnitsPerBlock
           f == Filled(first, last)
<1>1. Good(Tree) /\ size \in 0 .. MaxUnits /\ outcome \in Outcome /\ suspect \in SUBSET Position
      /\ (resize # NoResize => resize.to \in NewSizes)
  BY DEF FileInv
<1>2. MaxUnits \in Nat /\ UnitsPerBlock \in Nat \ {0} /\ size \in Nat /\ n \in Nat \ {0} /\ at \in Nat /\ at + n \in 0 .. MaxUnits
  BY <1>1, MaxUnitsIs, FileAssumption DEF Position
<1>3. first \in Nat /\ last \in Nat /\ first <= last
  <2>1. at + n - 1 \in Nat /\ at <= at + n - 1
    BY <1>2
  <2> QED
    BY <1>2, <2>1, BlocksOfWrite
<1>4. /\ SetTree(f.tree)
      /\ outcome' = f.tree.why
      /\ size' = IF outcome' = "ok" /\ at + n > size THEN at + n ELSE size
      /\ suspect' = CASE outcome' = "ok" -> (suspect \ range) \cup Misplaced(first, last)
                      [] outcome' = "depth_limit" -> suspect \cup CutOff
                      [] OTHER -> suspect
      /\ UNCHANGED resize
  BY DEF WriteFile
<1> HIDE DEF first, last
<1>5. FillInv(f)
  BY <1>1, <1>2, <1>3, FillsRange
<1> HIDE DEF f
<1>6. Good(f.tree) /\ (f.tree.why = "ok" => Leaked(f.tree) = Leaked(Tree)) /\ f.tree.why \in Outcome
  BY <1>5 DEF FillInv, Good, Fields
<1>7. Good(Tree') /\ Leaked(Tree') = Leaked(f.tree)
  <2> DEFINE t == f.tree
             r == Tree'
  <2>1. r = [root |-> t.root, leaf |-> t.leaf, used |-> t.used, iblocks |-> t.iblocks, why |-> "ok"]
    BY <1>4 DEF SetTree, Tree
  <2>2. Good(t)
    BY <1>6
  <2> HIDE DEF t, r
  <2>3. Good(r) /\ Leaked(r) = Leaked(t)
    BY <2>1, <2>2, Relabelled
  <2> QED
    BY <2>3 DEF t, r
<1>8. size' \in 0 .. MaxUnits
  BY <1>1, <1>2, <1>4
<1>9. suspect' \in SUBSET Position
  <2>1. Misplaced(first, last) \in SUBSET Position
    BY Positions DEF Misplaced
  <2>2. CutOff \in SUBSET Position
    BY Positions DEF CutOff
  <2>3. CASE outcome' = "ok"
    BY <1>1, <1>4, <2>1, <2>3
  <2>4. CASE outcome' # "ok" /\ outcome' = "depth_limit"
    BY <1>1, <1>4, <2>2, <2>4
  <2>5. CASE outcome' # "ok" /\ outcome' # "depth_limit"
    BY <1>1, <1>4, <2>5
  <2> QED
    BY <2>3, <2>4, <2>5
<1>10. outcome' \in Outcome /\ (resize' # NoResize => resize'.to \in NewSizes)
  BY <1>1, <1>4, <1>6
<1>11. FileInv'
  BY <1>7, <1>8, <1>9, <1>10 DEF FileInv
<1> QED
  BY <1>4, <1>6, <1>7, <1>11

\* set_file_size_cb, before it waits for the journal.
LEMMA StartKeeps ==
  ASSUME FileInv, NEW n \in NewSizes, StartResize(n)
  PROVE  FileInv' /\ Leaked(Tree)' = Leaked(Tree)
<1>1. Tree' = Tree /\ size' = size /\ outcome' = outcome /\ suspect' = suspect /\ resize'.to \in NewSizes
  BY DEF StartResize, Tree
<1> QED
  BY <1>1 DEF FileInv

\* And behind that.
LEMMA FinishKeeps ==
  ASSUME FileInv, FinishResize
  PROVE  FileInv' /\ Leaked(Tree)' = Leaked(Tree)
<1> DEFINE n == resize.to
<1>1. Good(Tree) /\ size \in 0 .. MaxUnits /\ suspect \in SUBSET Position /\ n \in NewSizes
  BY DEF FileInv, FinishResize
<1>2. MaxUnits \in Nat /\ UnitsPerBlock \in Nat \ {0} /\ n \in 0 .. MaxUnits
  BY <1>1, MaxUnitsIs
<1>3. (Shrink(n) \/ Extend(n)) /\ size' = n /\ resize' = NoResize /\ outcome' = "ok"
  BY DEF FinishResize
<1> HIDE DEF n
<1>4. CASE Shrink(n)
  <2> DEFINE keep == (n + UnitsPerBlock - 1) \div UnitsPerBlock
             t == extent_truncate(Tree, keep)
  <2>1. SetTree(t) /\ suspect' = {p \in suspect \cup (n .. (keep * UnitsPerBlock - 1)) : p < keep * UnitsPerBlock}
    BY <1>4 DEF Shrink
  <2>2. keep \in Nat /\ keep * UnitsPerBlock <= MaxUnits
    BY <1>2, BlocksKept
  <2> HIDE DEF keep
  <2>3. Truncated(Tree, t)
    BY <1>1, <2>2, ExtentTruncate
  <2> HIDE DEF t
  <2>4. Good(t) /\ Leaked(t) = Leaked(Tree)
    BY <2>3 DEF Truncated
  <2>5. Good(Tree') /\ Leaked(Tree') = Leaked(t)
    <3> DEFINE r == Tree'
    <3>1. r = [root |-> t.root, leaf |-> t.leaf, used |-> t.used, iblocks |-> t.iblocks, why |-> "ok"]
      BY <2>1 DEF SetTree, Tree
    <3> HIDE DEF r
    <3>2. Good(r) /\ Leaked(r) = Leaked(t)
      BY <2>4, <3>1, Relabelled
    <3> QED
      BY <3>2 DEF r
  <2>6. suspect' \in SUBSET Position
    <3> DEFINE top == keep * UnitsPerBlock
    <3>1. top \in Nat /\ top <= MaxUnits
      BY <1>2, <2>2
    <3> HIDE DEF top
    <3>2. ASSUME NEW p \in suspect' PROVE p \in Position
      <4>1. p \in suspect \/ p \in n .. (top - 1)
        BY <2>1 DEF top
      <4>2. CASE p \in n .. (top - 1)
        BY <1>2, <3>1, <4>2 DEF Position
      <4> QED
        BY <1>1, <4>1, <4>2
    <3> QED
      BY <3>2
  <2> QED
    BY <1>2, <1>3, <2>4, <2>5, <2>6 DEF FileInv, Outcome
<1>5. CASE Extend(n)
  <2>1. Tree' = Tree /\ suspect' = suspect \cup (n .. (size - 1))
    BY <1>5 DEF Extend, Tree
  <2>2. n .. (size - 1) \subseteq Position
    BY <1>1, <1>2 DEF Position
  <2>3. suspect' \in SUBSET Position
    BY <1>1, <2>1, <2>2
  <2> QED
    BY <1>1, <1>2, <1>3, <2>1, <2>3 DEF FileInv, Outcome
<1> QED
  BY <1>3, <1>4, <1>5

\* Every step keeps FileInv, and one that succeeds leaks nothing.
LEMMA StepKeeps ==
  ASSUME FileInv, Next
  PROVE  FileInv' /\ (outcome' = "ok" => Leaked(Tree)' = Leaked(Tree))
<1>1. CASE WriteStep
  <2>1. PICK at \in Position : \E n \in 1 .. MaxWrite : at + n <= MaxUnits /\ WriteFile(at, n)
    BY <1>1 DEF WriteStep
  <2>2. PICK n \in 1 .. MaxWrite : at + n <= MaxUnits /\ WriteFile(at, n)
    BY <2>1
  <2> QED
    BY <2>2, WriteKeeps
<1>2. CASE \E n \in NewSizes : StartResize(n)
  BY <1>2, StartKeeps
<1>3. CASE FinishResize
  BY <1>3, FinishKeeps
<1> QED
  BY <1>1, <1>2, <1>3 DEF Next

\* The files another system left.
LEMMA InitKeeps ==
  ASSUME Init
  PROVE  FileInv
<1>1. PICK r \in InitialRoots : root = [depth |-> 0, entries |-> r] /\ size = next_logical_block(r) * UnitsPerBlock
  BY DEF Init
<1>2. /\ r \in Seq(Extent) /\ Len(r) <= RootMax
      /\ \A i \in DOMAIN r : EndOf(r[i]) <= MaxBlocks /\ BlocksOf(r[i]) \subseteq Blocks \ Foreign
      /\ \A i, j \in DOMAIN r :
           i < j => EndOf(r[i]) <= r[j].lblk /\ BlocksOf(r[i]) \cap BlocksOf(r[j]) = {}
  BY RootsAssumption
<1>3. leaf = <<>> /\ iblocks = count_iblocks(root) /\ used = Foreign \cup Owned
      /\ resize = NoResize /\ outcome = "ok" /\ suspect = {}
  BY DEF Init
<1>4. root.depth = 0 /\ root.entries = r
  BY <1>1
<1> DEFINE t == Tree
<1>5. t = TreeOf(root, leaf, used, iblocks, "ok") /\ t.root = root /\ t.leaf = leaf /\ t.used = used /\ t.iblocks = iblocks
  BY DEF Tree, TreeOf
<1> HIDE DEF t
<1>6. Sorted(r)
  BY <1>2 DEF Sorted
<1>7. Flat(t)
  BY <1>2, <1>3, <1>4, <1>5, <1>6 DEF Flat
<1>8. \A e : e \in Exts(t) <=> \E k \in DOMAIN r : e = r[k]
  BY <1>4, <1>5, <1>7, FlatExts
<1>9. Children(t.root) = {}
  BY <1>7, FlatExts
<1>10. MappedBy(t) = Mapped /\ OwnedBy(t) = Owned
  BY <1>5 DEF MappedBy, OwnedBy, Exts, Mapped, Owned
<1>11. MappedBy(t) \subseteq Blocks \ Foreign
  <2>1. \A e \in Exts(t) : BlocksOf(e) \subseteq Blocks \ Foreign
    BY <1>2, <1>8
  <2> QED
    BY <2>1 DEF MappedBy
<1>12. used = Foreign \cup MappedBy(t) /\ OwnedBy(t) = MappedBy(t)
  BY <1>3, <1>9, <1>10 DEF OwnedBy
<1>13. ASSUME NEW e \in Exts(t), NEW f \in Exts(t), e # f PROVE BlocksOf(e) \cap BlocksOf(f) = {}
  <2>1. PICK i \in DOMAIN r : e = r[i]
    BY <1>8
  <2>2. PICK j \in DOMAIN r : f = r[j]
    BY <1>8
  <2>3. i \in Nat /\ j \in Nat /\ i # j
    BY <1>2, <1>13, <2>1, <2>2
  <2>4. CASE i < j
    BY <1>2, <2>1, <2>2, <2>4
  <2>5. CASE j < i
    BY <1>2, <2>1, <2>2, <2>5
  <2> QED
    BY <2>3, <2>4, <2>5
<1>14. OwnedOnce(t)
  BY <1>5, <1>9, <1>11, <1>12, <1>13 DEF OwnedOnce
<1>15. iblocks \in Nat /\ iblocks = Cardinality(MappedBy(t))
  <2>1. root.entries \in Seq(Extent)
        /\ (\A i \in DOMAIN root.entries : BlocksOf(root.entries[i]) \subseteq Blocks)
        /\ \A i, j \in DOMAIN root.entries : i < j => BlocksOf(root.entries[i]) \cap BlocksOf(root.entries[j]) = {}
    BY <1>2, <1>4
  <2>2. count_iblocks(root) \in Nat /\ count_iblocks(root) = Cardinality(AllBlocks(ToSet(root.entries)))
    BY <1>4, <2>1, CountIs
  <2>3. Exts(t) = ToSet(root.entries)
    BY <1>4, <1>5 DEF Exts, collect_leaves
  <2> QED
    BY <1>3, <2>2, <2>3 DEF AllBlocks, MappedBy
<1>16. Good(t)
  <2>1. used \in SUBSET Blocks /\ Foreign \subseteq used /\ "ok" \in Outcome
    BY <1>11, <1>12, TreeAssumption DEF Outcome
  <2>2. t = TreeOf([depth |-> 0, entries |-> r], leaf, used, iblocks, "ok")
    BY <1>1, <1>5
  <2>3. Like(t, 0, r, leaf, used, iblocks, "ok")
    BY <1>15, <2>1, <2>2, MakeFields
  <2> QED
    BY <1>5, <1>7, <1>14, <1>15, <2>3 DEF Good, Like, Honest
<1>17. size \in 0 .. MaxUnits
  <2> DEFINE x == next_logical_block(r)
             p == x * UnitsPerBlock
  <2>1. x \in Nat
    BY <1>6, BehindLast
  <2>2. x <= MaxBlocks
    <3>1. CASE r = <<>>
      BY <3>1, FileAssumption DEF next_logical_block
    <3>2. CASE r # <<>>
      <4>1. Len(r) \in DOMAIN r
        BY <1>2, <3>2
      <4>2. x = EndOf(r[Len(r)])
        BY <3>2 DEF next_logical_block, Last
      <4> QED
        BY <1>2, <4>1, <4>2
    <3> QED
      BY <3>1, <3>2
  <2> HIDE DEF x
  <2>3. p <= MaxUnits /\ MaxUnits \in Nat /\ p \in Nat
    <3>1. MaxBlocks \in Nat /\ UnitsPerBlock \in Nat \ {0}
      BY FileAssumption
    <3>2. p <= MaxBlocks * UnitsPerBlock
      BY <2>1, <2>2, <3>1, Products
    <3> QED
      BY <2>1, <3>1, <3>2, MaxUnitsIs DEF MaxUnits
  <2> HIDE DEF p
  <2> QED
    BY <1>1, <2>3 DEF p, x
<1> QED
  BY <1>3, <1>16, <1>17 DEF FileInv, t, Outcome

\* Every state of the handlers has a tree that its own functions accept: the
\* invariant from which the properties of FileBlocks follow.
THEOREM FileInvariant == Spec => []FileInv
<1>1. Init => FileInv
  BY InitKeeps
<1>2. FileInv /\ [Next]_vars => FileInv'
  <2> SUFFICES ASSUME FileInv, [Next]_vars PROVE FileInv'
    OBVIOUS
  <2>1. CASE Next
    BY <2>1, StepKeeps
  <2>2. CASE UNCHANGED vars
    BY <2>2 DEF vars, FileInv, Tree
  <2> QED
    BY <2>1, <2>2
<1> QED
  BY <1>1, <1>2, PTL DEF Spec

-----------------------------------------------------------------------------
(* What follows. *)

\* The invariant in terms of the variables.
LEMMA GoodTree ==
  ASSUME FileInv
  PROVE  /\ Good(Tree) /\ (Flat(Tree) \/ Deep(Tree)) /\ Fields(Tree) /\ OwnedOnce(Tree) /\ Honest(Tree)
         /\ Tree.root = root /\ Tree.leaf = leaf /\ Tree.used = used /\ Tree.iblocks = iblocks
         /\ Exts(Tree) = collect_leaves(root, leaf)
         /\ MappedBy(Tree) = Mapped /\ OwnedBy(Tree) = Owned
<1>1. Good(Tree)
  BY DEF FileInv
<1>2. Tree.root = root /\ Tree.leaf = leaf /\ Tree.used = used /\ Tree.iblocks = iblocks
  BY DEF Tree
<1>3. Exts(Tree) = collect_leaves(root, leaf) /\ MappedBy(Tree) = Mapped /\ OwnedBy(Tree) = Owned
  BY <1>2 DEF Exts, MappedBy, OwnedBy, Mapped, Owned
<1> QED
  BY <1>1, <1>2, <1>3 DEF Good

\* The limits of the nodes are part of it.
LEMMA TypeFollows ==
  ASSUME FileInv
  PROVE  TypeOK
<1> DEFINE t == Tree
<1>1. /\ Good(t) /\ (Flat(t) \/ Deep(t)) /\ Fields(t)
      /\ t.root = root /\ t.leaf = leaf /\ t.used = used /\ t.iblocks = iblocks
      /\ Exts(t) = collect_leaves(root, leaf)
  BY GoodTree
<1> HIDE DEF t
<1>2. used \in SUBSET Blocks /\ iblocks \in Nat
  BY <1>1, HasFields
<1>3. collect_leaves(root, leaf) \subseteq Extent
  BY <1>1, FlatExts, DeepExts
<1>4. CASE Flat(t)
  <2>1. root.depth = 0 /\ Len(root.entries) <= RootMax /\ leaf = <<>>
    BY <1>1, <1>4 DEF Flat
  <2>2. DOMAIN leaf = {}
    BY <2>1
  <2> QED
    BY <1>2, <1>3, <2>1, <2>2 DEF TypeOK, FileInv
<1>5. CASE Deep(t)
  <2>1. root.depth = 1 /\ Len(root.entries) <= RootMax
    BY <1>1, <1>5 DEF Deep
  <2>2. DOMAIN leaf = Children(root)
    BY <1>1, <1>5, DeepFields
  <2>3. \A b \in DOMAIN leaf : Len(leaf[b]) <= LeafMax
    BY <1>1, <1>5, <2>2 DEF Deep
  <2> QED
    BY <1>2, <1>3, <2>1, <2>2, <2>3 DEF TypeOK, FileInv
<1> QED
  BY <1>1, <1>4, <1>5

\* So is that every block has one owner.
LEMMA OwnersFollow ==
  ASSUME FileInv
  PROVE  BlocksOwnedOnce
<1> DEFINE t == Tree
<1>1. /\ (Flat(t) \/ Deep(t)) /\ OwnedOnce(t)
      /\ t.root = root /\ t.leaf = leaf /\ t.used = used
      /\ Exts(t) = collect_leaves(root, leaf) /\ MappedBy(t) = Mapped /\ OwnedBy(t) = Owned
  BY GoodTree
<1> HIDE DEF t
<1>2. /\ Owned \subseteq used \ Foreign /\ Mapped \cap Children(root) = {}
      /\ \A e, f \in collect_leaves(root, leaf) : e # f => BlocksOf(e) \cap BlocksOf(f) = {}
  BY <1>1 DEF OwnedOnce
<1>3. ASSUME root.depth = 1, NEW i \in DOMAIN root.entries, NEW j \in DOMAIN root.entries, i # j
      PROVE  /\ root.entries[i].child # root.entries[j].child
             /\ ToSet(leaf[root.entries[i].child]) \cap ToSet(leaf[root.entries[j].child]) = {}
  <2> DEFINE idx == root.entries
             es(k) == leaf[idx[k].child]
  <2>1. Deep(t)
    BY <1>1, <1>3 DEF Flat
  <2>2. Indexed(idx, leaf) /\ idx \in Seq(Index)
    BY <1>1, <2>1 DEF Deep
  <2>3. /\ \A k \in DOMAIN idx : idx[k] \in Index /\ es(k) \in Seq(Extent)
        /\ DOMAIN idx = 1 .. Len(idx) /\ Len(idx) \in Nat
    BY <1>1, <2>1, DeepFields
  <2> HIDE DEF idx
  <2>4. ASSUME NEW a \in DOMAIN idx, NEW b \in DOMAIN idx, a < b, NEW e, e \in ToSet(es(a)), e \in ToSet(es(b))
        PROVE  FALSE
    <3>1. PICK k \in DOMAIN es(a) : e = es(a)[k]
      BY <2>4 DEF ToSet
    <3>2. PICK m \in DOMAIN es(b) : e = es(b)[m]
      BY <2>4 DEF ToSet
    <3>3. EndOf(e) <= idx[b].lblk
      BY <2>2, <2>4, <3>1 DEF Indexed
    <3>4. idx[b].lblk <= e.lblk
      BY <2>2, <3>2 DEF Indexed
    <3>5. e \in Extent
      BY <2>3, <3>1
    <3>6. idx[b].lblk \in Nat
      BY <2>3 DEF Index
    <3>7. EndOf(e) \in Nat /\ e.lblk \in Nat /\ e.lblk < EndOf(e)
      BY <3>5, ExtentFields
    <3> QED
      BY <3>3, <3>4, <3>6, <3>7
  <2>5. i \in DOMAIN idx /\ j \in DOMAIN idx /\ i \in Nat /\ j \in Nat
    BY <1>3, <2>3 DEF idx
  <2>6. i < j \/ j < i
    BY <1>3, <2>5
  <2>7. ToSet(es(i)) \cap ToSet(es(j)) = {}
    BY <2>4, <2>5, <2>6
  <2>8. idx[i].child # idx[j].child
    BY <1>3, <2>2, <2>5 DEF Indexed
  <2> QED
    BY <2>7, <2>8 DEF idx
<1> QED
  BY <1>2, <1>3 DEF BlocksOwnedOnce

\* The tree is one the functions that read it accept: extents in range, nodes
\* no fuller than they can be, a leaf block for every index entry.
THEOREM TypeOKTheorem == Spec => []TypeOK
BY FileInvariant, TypeFollows, PTL

\* No block of the file has two owners, and none is free for another file.
THEOREM BlocksOwnedOnceTheorem == Spec => []BlocksOwnedOnce
BY FileInvariant, OwnersFollow, PTL

\* The descent of a writer and the sorted extents of a reader give one block.
THEOREM ReadersAgreeTheorem == Spec => []ReadersAgree
<1>1. FileInv => ReadersAgree
  <2> SUFFICES ASSUME FileInv, NEW lb \in LBlock
               PROVE  lookup_block(root, leaf, lb) = resolve_lblock(root, leaf, lb)
    BY DEF ReadersAgree
  <2> DEFINE t == Tree
  <2>1. (Flat(t) \/ Deep(t)) /\ t.root = root /\ t.leaf = leaf
    BY GoodTree
  <2>2. lb \in Nat
    BY DEF LBlock
  <2> HIDE DEF t
  <2>3. lookup_block(t.root, t.leaf, lb) = resolve_lblock(t.root, t.leaf, lb)
    BY <2>1, <2>2, SearchesAgree
  <2> QED
    BY <2>1, <2>3
<1> QED
  BY <1>1, FileInvariant, PTL

\* As long as the extents are in the inode, i_blocks counts what they map.
THEOREM IBlocksHonestTheorem == Spec => []IBlocksHonest
<1>1. FileInv => IBlocksHonest
  BY GoodTree DEF Honest, IBlocksHonest
<1> QED
  BY <1>1, FileInvariant, PTL

\* A write or a resize that succeeds leaves no block in use without a reference.
THEOREM NothingLeakedTheorem == Spec => NothingLeaked
<1>1. ASSUME FileInv
      PROVE  Leaked(Tree) = used \ (Foreign \cup Owned)
  BY <1>1, GoodTree DEF Leaked
<1>2. ASSUME FileInv, FileInv', [Next]_vars
      PROVE  [outcome' = "ok" => used' \ (Foreign \cup Owned') = used \ (Foreign \cup Owned)]_vars
  <2>1. Leaked(Tree) = used \ (Foreign \cup Owned)
    BY <1>1, <1>2
  <2>2. Leaked(Tree)' = used' \ (Foreign \cup Owned')
    <3>1. (FileInv => Leaked(Tree) = used \ (Foreign \cup Owned))'
      BY <1>1, PTL
    <3> QED
      BY <1>2, <3>1
  <2>3. CASE Next
    BY <1>2, <2>1, <2>2, <2>3, StepKeeps
  <2>4. CASE UNCHANGED vars
    BY <2>4
  <2> QED
    BY <1>2, <2>3, <2>4
<1> QED
  BY <1>2, FileInvariant, PTL DEF Spec, NothingLeaked
=============================================================================
