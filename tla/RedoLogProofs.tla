--------------------------- MODULE RedoLogProofs ---------------------------
(***************************************************************************)
(* Recovery from a redo log is exact for every log, every number of        *)
(* crashes and every block cut in the middle.  ReplayProgress carries the  *)
(* proof: one carried-out write keeps it, and a crash only ever shortens   *)
(* what it claims.                                                         *)
(***************************************************************************)
EXTENDS RedoLog, TLAPS

RedoInv == TypeOK /\ ReplayProgress /\ CleanMeansReplayed

-----------------------------------------------------------------------------
(* How the last write of a block moves on when one write is appended. *)

LEMMA NothingWritten == \A w, b : ~Written(w, 0, b)
BY DEF Written

LEMMA NextWriteIsLast ==
  ASSUME NEW w, NEW n \in Nat, NEW b, w[n + 1].blk = b
  PROVE  IsLastWrite(w, n + 1, b, n + 1) /\ Written(w, n + 1, b)
<1>1. n + 1 \in 1 .. (n + 1) /\ \A k \in (n + 1 + 1) .. (n + 1) : FALSE
  OBVIOUS
<1> QED
  BY <1>1 DEF IsLastWrite, Written

LEMMA OtherWriteKeepsLast ==
  ASSUME NEW w, NEW n \in Nat, NEW b, w[n + 1].blk # b
  PROVE  /\ Written(w, n + 1, b) => Written(w, n, b)
         /\ \A i \in 1 .. n : IsLastWrite(w, n, b, i) => IsLastWrite(w, n + 1, b, i)
<1>1. \A i \in 1 .. (n + 1) : i # n + 1 => i \in 1 .. n
  OBVIOUS
<1>2. \A i \in 1 .. n : i \in 1 .. (n + 1)
  OBVIOUS
<1>3. \A i \in 1 .. n : \A k \in (i + 1) .. (n + 1) : k # n + 1 => k \in (i + 1) .. n
  OBVIOUS
<1> QED
  BY <1>1, <1>2, <1>3 DEF IsLastWrite, Written

-----------------------------------------------------------------------------
LEMMA InitRedo == Init => RedoInv
<1> SUFFICES ASSUME Init
             PROVE  RedoInv
  OBVIOUS
<1>1. TypeOK
  <2>1. base \in [Block -> Val] /\ wal \in Seq(Writes)
    <3> HIDE DEF Writes
    <3> QED
      BY ImagesAssumption DEF Init
  <2>2. 0 \in 0 .. Len(wal)
    <3> HIDE DEF Writes
    <3> QED
      BY <2>1
  <2> QED
    BY <2>1, <2>2 DEF Init, TypeOK
<1>2. ReplayProgress
  BY NothingWritten DEF Init, ReplayProgress
<1>3. CleanMeansReplayed
  <2> SUFFICES ASSUME clean
               PROVE  IsReplayed(base, wal, store)
    BY DEF CleanMeansReplayed
  <2>1. wal = <<>> /\ store = base
    BY DEF Init
  <2>2. Len(wal) = 0
    BY <2>1
  <2> QED
    BY <2>1, <2>2, NothingWritten DEF IsReplayed
<1> QED
  BY <1>1, <1>2, <1>3 DEF RedoInv

\* One more write: it is the last one of its block, the last write of every
\* other block stays what it was.
LEMMA ApplyRedo == ASSUME RedoInv, Apply PROVE RedoInv'
<1> DEFINE x == wal[pos + 1].blk
           v == wal[pos + 1].val
<1>1. /\ Len(wal) \in Nat /\ pos \in Nat /\ pos + 1 \in 1 .. Len(wal)
      /\ wal[pos + 1] \in Writes
  BY DEF RedoInv, TypeOK, Apply
<1>2. x \in Block /\ v \in Val
  BY <1>1 DEF Writes
<1>3. /\ store' = [store EXCEPT ![x] = v]
      /\ pos' = pos + 1
      /\ ~clean /\ UNCHANGED <<base, wal, clean>>
  BY DEF Apply
<1> HIDE DEF v
<1>4. TypeOK'
  BY <1>1, <1>2, <1>3 DEF RedoInv, TypeOK
<1>5. ReplayProgress'
  <2> SUFFICES ASSUME NEW b \in Block
               PROVE  /\ \/ ~Written(wal, pos + 1, b)
                         \/ \E i \in 1 .. (pos + 1) :
                              IsLastWrite(wal, pos + 1, b, i) /\ store'[b] = wal[i].val
                      /\ Written(wal, Len(wal), b) \/ store'[b] = base[b]
    BY <1>3 DEF ReplayProgress
  <2>1. CASE b = x
    <3>1. IsLastWrite(wal, pos + 1, b, pos + 1)
      BY <1>1, <2>1, NextWriteIsLast
    <3>2. store'[b] = wal[pos + 1].val
      BY <1>2, <1>3, <2>1 DEF RedoInv, TypeOK, v
    <3>3. Written(wal, Len(wal), b)
      BY <1>1, <2>1 DEF Written
    <3> QED
      BY <1>1, <3>1, <3>2, <3>3
  <2>2. CASE b # x
    <3>1. store'[b] = store[b]
      BY <1>3, <2>2 DEF RedoInv, TypeOK
    <3>2. /\ Written(wal, pos + 1, b) => Written(wal, pos, b)
          /\ \A i \in 1 .. pos : IsLastWrite(wal, pos, b, i) => IsLastWrite(wal, pos + 1, b, i)
      BY <1>1, <2>2, OtherWriteKeepsLast
    <3>3. \A i \in 1 .. pos : i \in 1 .. (pos + 1)
      BY <1>1
    <3> QED
      BY <3>1, <3>2, <3>3 DEF RedoInv, ReplayProgress
  <2> QED
    BY <2>1, <2>2
<1>6. CleanMeansReplayed'
  BY <1>3 DEF CleanMeansReplayed
<1> QED
  BY <1>4, <1>5, <1>6 DEF RedoInv

LEMMA CrashRedo == ASSUME RedoInv, Crash PROVE RedoInv'
<1>1. TypeOK'
  BY DEF RedoInv, TypeOK, Crash
<1>2. ReplayProgress'
  BY NothingWritten DEF RedoInv, ReplayProgress, Crash
<1>3. CleanMeansReplayed'
  BY DEF RedoInv, CleanMeansReplayed, Crash
<1> QED
  BY <1>1, <1>2, <1>3 DEF RedoInv

\* The torn block is one that the log still has a write for.
LEMMA TornRedo == ASSUME RedoInv, TornCrash PROVE RedoInv'
<1>1. pos + 1 \in 1 .. Len(wal) /\ wal[pos + 1] \in Writes
  BY DEF RedoInv, TypeOK, TornCrash
<1>2. PICK v \in Val : store' = [store EXCEPT ![wal[pos + 1].blk] = v]
  BY DEF TornCrash
<1>3. pos' = 0 /\ ~clean /\ UNCHANGED <<base, wal, clean>>
  BY DEF TornCrash
<1>4. TypeOK'
  BY <1>1, <1>2, <1>3 DEF RedoInv, TypeOK, Writes
<1>5. Written(wal, Len(wal), wal[pos + 1].blk)
  BY <1>1 DEF Written
<1>6. \A b \in Block : b # wal[pos + 1].blk => store'[b] = store[b]
  BY <1>2 DEF RedoInv, TypeOK
<1>7. ReplayProgress'
  BY <1>3, <1>5, <1>6, NothingWritten DEF RedoInv, ReplayProgress
<1>8. CleanMeansReplayed'
  BY <1>3 DEF CleanMeansReplayed
<1> QED
  BY <1>4, <1>7, <1>8 DEF RedoInv

\* The log is forgotten behind its last write.
LEMMA ForgetRedo == ASSUME RedoInv, Forget PROVE RedoInv'
<1>1. TypeOK'
  BY DEF RedoInv, TypeOK, Forget
<1>2. ReplayProgress'
  BY DEF RedoInv, ReplayProgress, Forget
<1>3. IsReplayed(base, wal, store)
  BY DEF RedoInv, ReplayProgress, IsReplayed, Forget
<1>4. CleanMeansReplayed'
  BY <1>3 DEF Forget, CleanMeansReplayed
<1> QED
  BY <1>1, <1>2, <1>4 DEF RedoInv

LEMMA RedoStep == RedoInv /\ [Next]_vars => RedoInv'
<1> SUFFICES ASSUME RedoInv, [Next]_vars
             PROVE  RedoInv'
  OBVIOUS
<1>1. CASE Apply
  BY <1>1, ApplyRedo
<1>2. CASE Crash
  BY <1>2, CrashRedo
<1>3. CASE TornCrash
  BY <1>3, TornRedo
<1>4. CASE Forget
  BY <1>4, ForgetRedo
<1>5. CASE UNCHANGED vars
  BY <1>5 DEF vars, RedoInv, TypeOK, ReplayProgress, CleanMeansReplayed
<1> QED
  BY <1>1, <1>2, <1>3, <1>4, <1>5 DEF Next

\* How far an attempt got is what the store shows, after any crashes.
THEOREM RedoInvariant == Spec => []RedoInv
BY InitRedo, RedoStep, PTL DEF Spec

\* Every log is carried out exactly: when it is forgotten the store holds, for
\* each block, the last write of the log or else the old content.
THEOREM RedoIsExact == Spec => []CleanMeansReplayed
<1>1. RedoInv => CleanMeansReplayed
  BY DEF RedoInv
<1> QED
  BY <1>1, RedoInvariant, PTL

\* What an attempt claims to have carried out is what the store holds, and a
\* block that the log does not write was never touched.
THEOREM ProgressIsHonest == Spec => []ReplayProgress
<1>1. RedoInv => ReplayProgress
  BY DEF RedoInv
<1> QED
  BY <1>1, RedoInvariant, PTL

=============================================================================
