------------------------------ MODULE RedoLog ------------------------------
(***************************************************************************)
(* What recovery from a redo log promises, with no log format in sight.    *)
(* A list of writes has to be carried out on a store; the machine may      *)
(* crash at any point, also in the middle of a write, and starts again     *)
(* from the first write.  Only when an attempt has reached the end is the  *)
(* log forgotten.  JournalReplay implements this specification.            *)
(***************************************************************************)
EXTENDS Integers, Sequences

CONSTANTS Block, Val, Images

VARIABLES base,     \* the store as recovery first found it
          wal,      \* the writes to carry out, in order
          store,    \* the store now
          pos,      \* writes carried out by this attempt
          clean     \* the log has been forgotten

vars == <<base, wal, store, pos, clean>>

Writes == [blk : Block, val : Val]

\* Images are the stores and logs recovery may be started on.
ASSUME ImagesAssumption ==
  \A im \in Images : im.fs \in [Block -> Val] /\ im.wal \in Seq(Writes)

\* The last write among the first n of w that targets b.
IsLastWrite(w, n, b, i) ==
  /\ i \in 1 .. n
  /\ w[i].blk = b
  /\ \A k \in (i + 1) .. n : w[k].blk # b

Written(w, n, b) == \E i \in 1 .. n : w[i].blk = b

\* s is b0 with all the writes of w carried out in order.
IsReplayed(b0, w, s) ==
  \A b \in Block :
    \/ ~Written(w, Len(w), b) /\ s[b] = b0[b]
    \/ \E i \in 1 .. Len(w) : IsLastWrite(w, Len(w), b, i) /\ s[b] = w[i].val

TypeOK ==
  /\ base \in [Block -> Val]
  /\ wal \in Seq(Writes)
  /\ store \in [Block -> Val]
  /\ pos \in 0 .. Len(wal)
  /\ clean \in BOOLEAN

Init ==
  /\ \E im \in Images : base = im.fs /\ wal = im.wal
  /\ store = base
  /\ pos = 0
  /\ clean \in BOOLEAN
  /\ clean => wal = <<>>

Apply ==
  /\ ~clean
  /\ pos < Len(wal)
  /\ store' = [store EXCEPT ![wal[pos + 1].blk] = wal[pos + 1].val]
  /\ pos' = pos + 1
  /\ UNCHANGED <<base, wal, clean>>

Crash ==
  /\ pos' = 0
  /\ UNCHANGED <<base, wal, store, clean>>

\* Mutant of TornCrash: the write that was cut counts as carried out.
TornCrashCounted ==
  /\ ~clean
  /\ pos < Len(wal)
  /\ \E v \in Val : store' = [store EXCEPT ![wal[pos + 1].blk] = v]
  /\ pos' = pos + 1
  /\ UNCHANGED <<base, wal, clean>>

\* A crash in the middle of a block write leaves any payload in that block.
TornCrash ==
  /\ ~clean
  /\ pos < Len(wal)
  /\ \E v \in Val : store' = [store EXCEPT ![wal[pos + 1].blk] = v]
  /\ pos' = 0
  /\ UNCHANGED <<base, wal, clean>>

\* Mutant of Forget: one write short of the end.
ForgetEarly ==
  /\ ~clean
  /\ pos + 1 >= Len(wal)
  /\ clean' = TRUE
  /\ UNCHANGED <<base, wal, store, pos>>

Forget ==
  /\ ~clean
  /\ pos = Len(wal)
  /\ clean' = TRUE
  /\ UNCHANGED <<base, wal, store, pos>>

Next == Apply \/ Crash \/ TornCrash \/ Forget

Spec == Init /\ [][Next]_vars

-----------------------------------------------------------------------------
\* Once the log is forgotten the store is exactly the old store with every
\* write of the log carried out in order, however many attempts it took and
\* wherever they were cut off.
CleanMeansReplayed == clean => IsReplayed(base, wal, store)

\* The inductive form: this attempt has carried out the writes up to pos (a
\* block that a later write targets may hold anything until that write), and a
\* block that no write targets was never touched.
ReplayProgress ==
  \A b \in Block :
    /\ \/ ~Written(wal, pos, b)
       \/ \E i \in 1 .. pos : IsLastWrite(wal, pos, b, i) /\ store[b] = wal[i].val
    /\ Written(wal, Len(wal), b) \/ store[b] = base[b]

=============================================================================
