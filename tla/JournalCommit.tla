--------------------------- MODULE JournalCommit ---------------------------
(***************************************************************************)
(* The write side of the journal, composed with mounting and replay:       *)
(* JournalWriter::commit as the list of device writes it issues, the       *)
(* VALID_FS flag around a read-write mount, device errors in the middle of *)
(* a commit, crashes and power losses anywhere.                            *)
(*                                                                         *)
(* commit() never sets s_start, so nothing it writes into the log is ever  *)
(* replayed; what protects a transaction is only the order of its writes.  *)
(***************************************************************************)
EXTENDS JournalReplay

CONSTANTS Transactions,   \* what the handlers may commit: [revoked, writes]
          MaxTags,        \* tags that fit into one descriptor block
          Foreign,        \* what another jbd2 user may commit in between
          MaxCommits,     \* bound on commits, the foreign ones included
          MaxErrors       \* bound on failing device writes

ASSUME CommitAssumption ==
  /\ \A t \in Transactions \cup Foreign :
       /\ t.revoked \subseteq FsBlock
       /\ t.writes \in Seq(Write)
       /\ \A i, k \in DOMAIN t.writes : t.writes[i].blk = t.writes[k].blk => i = k
  /\ MaxTags \in Nat \ {0}
  /\ MaxCommits \in Nat /\ MaxErrors \in Nat

VARIABLES
  write_head, next_sequence,  \* JournalWriter
  txn,                        \* the transaction being committed
  todo,                       \* device writes commit() still has to issue
  marks,                      \* mounted as Ext4FsRw (mount.rs), not as Ext4Fs (fs_context.rs)
  valid,                      \* VALID_FS in the superblock on the device
  synced,                     \* log and flag as of the last flush
  commits, errors,
  promised,                   \* history: store with every committed transaction
  recent,                     \* history: commits still whole in the log, oldest first
  torn                        \* history: a crash cut a commit short after its commit block,
                              \* or a power loss took away writes or the clean mark from
                              \* under later commits, or a replay went wrong

wvars    == <<write_head, next_sequence, txn, todo, marks, valid, synced, commits, errors,
              promised, recent, torn>>
allvars  == <<vars, wvars>>

\* A device write of commit(): a block of the log, or a pinned block in place.
InLog(e)   == [area |-> "log", entry |-> e]
InStore(w) == [area |-> "store", write |-> w]

Idle == [revoked |-> {}, writes |-> <<>>, seq |-> 0, at |-> First, busy |-> FALSE]

\* f with the writes ws carried out in order.
Overlay(f, ws) ==
  [x \in FsBlock |-> IF Redo!Written(ws, Len(ws), x)
                     THEN ws[CHOOSE i \in DOMAIN ws : Redo!IsLastWrite(ws, Len(ws), x, i)].val
                     ELSE f[x]]

-----------------------------------------------------------------------------
CommitInit ==
  /\ Init
  /\ write_head = First
  /\ next_sequence = 0
  /\ txn = Idle
  /\ todo = <<>>
  /\ marks = FALSE
  /\ valid \in BOOLEAN
  /\ synced = [log |-> log, valid |-> valid]
  /\ commits = 0
  /\ errors = 0
  /\ promised = Overlay(fs, image.wal)
  /\ recent = <<>>
  /\ torn = FALSE

\* Opening, replaying and closing as JournalReplay has them.
Mounting ==
  /\ OpenReadWrite \/ OpenReadOnly \/ Close \/ Replay
  /\ synced' = IF phase = "barrier" THEN [log |-> log, valid |-> valid] ELSE synced
  /\ torn' = (torn \/ (phase = "mark" /\ ~Redo!IsReplayed(image.fs, image.wal, fs)))
  /\ UNCHANGED <<write_head, next_sequence, txn, todo, marks, valid, commits, errors, promised, recent>>

\* JournalWriter::new takes head and sequence from the Journal struct loaded
\* before the replay.
StartWriter ==
  /\ write_head' = IF is_clean(journal) THEN First ELSE journal.start
  /\ next_sequence' = journal.seq
  /\ recent' = <<>>

\* Mutants: VALID_FS stays set while mounted; the flush behind it is missing.
SetDirtyFlagForgotten ==
  /\ marks' = TRUE
  /\ phase = "recovered"
  /\ phase' = "dirtied"
  /\ UNCHANGED <<device, stable, journal, locals, crashes, image, applied, write_head, valid,
                 next_sequence, txn, todo, synced, commits, errors, promised, recent, torn>>

FlushDirtyFlagSkipped ==
  /\ phase = "dirtied"
  /\ StartWriter
  /\ phase' = "rw"
  /\ UNCHANGED <<device, marks, stable, synced, journal, locals, crashes, image, applied, txn, todo,
                 valid, commits, errors, promised, torn>>

\* Ext4FsRw::open_rw: set_dirty_flag, then a flush, then the writer.
SetDirtyFlag ==
  /\ marks' = TRUE
  /\ phase = "recovered"
  /\ valid' = FALSE
  /\ phase' = "dirtied"
  /\ UNCHANGED <<device, stable, journal, locals, crashes, image, applied, write_head,
                 next_sequence, txn, todo, synced, commits, errors, promised, recent, torn>>

FlushDirtyFlag ==
  /\ phase = "dirtied"
  /\ stable' = [fs |-> fs, jsb |-> jsb]
  /\ synced' = [log |-> log, valid |-> valid]
  /\ StartWriter
  /\ phase' = "rw"
  /\ UNCHANGED <<device, marks, journal, locals, crashes, image, applied, txn, todo, valid, commits,
                 errors, promised, torn>>

\* Ext4Fs::open_rw leaves the flag alone.
StartHost ==
  /\ marks' = FALSE
  /\ phase = "recovered"
  /\ StartWriter
  /\ phase' = "rw"
  /\ UNCHANGED <<device, stable, journal, locals, crashes, image, applied, txn, todo, valid,
                 synced, commits, errors, promised, torn>>

-----------------------------------------------------------------------------
(* commit(). *)

Fits(t) == Len(t.writes) <= MaxTags

\* Mutants of CommitSteps: the blocks go in place first; the last one is
\* forgotten.
CommitStepsInPlaceFirst(t) ==
  LET blocks == TransactionBlocks(t.revoked, t.writes, t.seq, FALSE)
  IN  IF Fits(t)
      THEN [i \in DOMAIN t.writes |-> InStore(t.writes[i])]
           \o [i \in DOMAIN blocks |-> InLog(blocks[i])]
      ELSE <<>>

CommitStepsOneShort(t) ==
  LET blocks == TransactionBlocks(t.revoked, t.writes, t.seq, FALSE)
  IN  IF Fits(t)
      THEN [i \in DOMAIN blocks |-> InLog(blocks[i])]
           \o [i \in 1 .. (Len(t.writes) - 1) |-> InStore(t.writes[i])]
      ELSE <<>>

\* The device writes of one commit: the log first, then the pinned blocks at
\* their own places.  A descriptor that cannot hold all tags is refused, and
\* the commit with it, after the revoke block has been written.
CommitSteps(t) ==
  LET blocks == TransactionBlocks(t.revoked, t.writes, t.seq, FALSE)
  IN  IF Fits(t)
      THEN [i \in DOMAIN blocks |-> InLog(blocks[i])]
           \o [i \in DOMAIN t.writes |-> InStore(t.writes[i])]
      ELSE IF t.revoked = {} THEN <<>> ELSE <<InLog(Revoke(t.seq, t.revoked))>>

begin_commit ==
  /\ phase = "rw"
  /\ ~txn.busy
  /\ commits < MaxCommits
  /\ \E t \in Transactions :
       txn' = [revoked |-> t.revoked, writes |-> t.writes, seq |-> next_sequence,
               at |-> write_head, busy |-> TRUE]
  /\ todo' = CommitSteps(txn')
  /\ commits' = commits + 1
  /\ UNCHANGED <<vars, write_head, next_sequence, marks, valid, synced, errors, promised, recent, torn>>

\* Number of log blocks a transaction takes, and whether j is one of them.
LogLength(t) == Len(TransactionBlocks(t.revoked, t.writes, t.seq, FALSE))
Covers(t, j) == (j - t.at) % (Total - First) < LogLength(t)

\* write_to_journal: the block at the head, and the head moves on; the oldest
\* commit is whole no longer when the head runs into it.
LogWrite ==
  /\ todo # <<>>
  /\ Head(todo).area = "log"
  /\ log' = [log EXCEPT ![write_head] = Head(todo).entry]
  /\ write_head' = advance_jblock(write_head)
  /\ todo' = Tail(todo)
  /\ recent' = IF recent # <<>> /\ Covers(Head(recent), write_head) THEN Tail(recent) ELSE recent
  /\ promised' = IF Head(todo).entry.kind = "commit" THEN Overlay(promised, txn.writes) ELSE promised
  /\ UNCHANGED <<fs, marks, jsb, stable, phase, journal, locals, crashes, image, applied, next_sequence,
                 txn, valid, synced, commits, errors, torn>>

\* write_fs_block: one pinned block to its place.
StoreWrite ==
  /\ todo # <<>>
  /\ Head(todo).area = "store"
  /\ fs' = [fs EXCEPT ![Head(todo).write.blk] = Head(todo).write.val]
  /\ todo' = Tail(todo)
  /\ UNCHANGED <<jsb, marks, log, stable, phase, journal, locals, crashes, image, applied, write_head,
                 next_sequence, txn, valid, synced, commits, errors, promised, recent, torn>>

\* Mutant of EndCommit: the next transaction gets the same sequence number.
EndCommitSameSequence ==
  /\ txn.busy
  /\ todo = <<>>
  /\ recent' = IF Fits(txn) THEN Append(recent, txn) ELSE <<>>
  /\ txn' = Idle
  /\ UNCHANGED <<vars, marks, write_head, next_sequence, todo, valid, synced, commits, errors,
                 promised, torn>>

\* commit() returns.
EndCommit ==
  /\ txn.busy
  /\ todo = <<>>
  /\ IF Fits(txn)
     THEN next_sequence' = next_sequence + 1 /\ recent' = Append(recent, txn)
     ELSE recent' = <<>> /\ UNCHANGED next_sequence
  /\ txn' = Idle
  /\ UNCHANGED <<vars, marks, write_head, todo, valid, synced, commits, errors, promised, torn>>

\* A crash or an error now leaves a committed transaction half in place.
HalfInPlace == todo # <<>> /\ Head(todo).area = "store"

\* A device write fails, some of its sectors written or none, and commit()
\* returns the error: the head has moved by the blocks written before, the
\* sequence has not.
FailedCommit ==
  /\ todo # <<>>
  /\ errors < MaxErrors
  /\ errors' = errors + 1
  /\ torn' = (torn \/ HalfInPlace)
  /\ \/ UNCHANGED <<fs, log>>
     \/ Head(todo).area = "log" /\ log' = [log EXCEPT ![write_head] = Blank] /\ UNCHANGED fs
     \/ Head(todo).area = "store" /\ UNCHANGED log
        /\ fs' = [fs EXCEPT ![Head(todo).write.blk] = Junk]
  /\ todo' = <<>>
  /\ txn' = Idle
  /\ recent' = <<>>
  /\ UNCHANGED <<jsb, stable, phase, journal, locals, crashes, image, applied, write_head,
                 next_sequence, marks, valid, synced, commits, promised>>

\* Ext4FsRw::unmount: VALID_FS is set, then a flush.  The host just stops.
Unmount ==
  /\ phase = "rw"
  /\ ~txn.busy
  /\ IF marks THEN valid' = TRUE /\ phase' = "closing"
     ELSE phase' = "down" /\ UNCHANGED valid
  /\ UNCHANGED <<device, marks, stable, journal, locals, crashes, image, applied, write_head,
                 next_sequence, txn, todo, synced, commits, errors, promised, recent, torn>>

FlushValidFlag ==
  /\ phase = "closing"
  /\ stable' = [fs |-> fs, jsb |-> jsb]
  /\ synced' = [log |-> log, valid |-> valid]
  /\ phase' = "down"
  /\ UNCHANGED <<device, marks, journal, locals, crashes, image, applied, write_head, next_sequence, txn,
                 todo, valid, commits, errors, promised, recent, torn>>

\* The FlushFileBuffers a user asks for, between two commits.
UserFlush ==
  /\ phase = "rw"
  /\ ~txn.busy
  /\ stable' = [fs |-> fs, jsb |-> jsb]
  /\ synced' = [log |-> log, valid |-> valid]
  /\ UNCHANGED <<device, marks, phase, journal, locals, crashes, image, applied, write_head,
                 next_sequence, txn, todo, valid, commits, errors, promised, recent, torn>>

-----------------------------------------------------------------------------
(* Failures of the whole process. *)

WriterGone ==
  /\ todo' = <<>>
  /\ txn' = Idle
  /\ recent' = <<>>
  /\ UNCHANGED <<marks, write_head, next_sequence, commits, errors, promised>>

\* The process dies inside a write of commit(), some sectors written.
TornCommit ==
  /\ todo # <<>>
  /\ IF Head(todo).area = "log"
     THEN log' = [log EXCEPT ![write_head] = Blank] /\ UNCHANGED fs
     ELSE fs' = [fs EXCEPT ![Head(todo).write.blk] = Junk] /\ UNCHANGED log
  /\ crashes < MaxCrashes
  /\ crashes' = crashes + 1
  /\ phase' = "down"
  /\ applied' = 0
  /\ UNCHANGED <<jsb, stable, journal, locals, image>>

Killed ==
  /\ ProcessCrash \/ TornWrite \/ TornCommit
  /\ torn' = (torn \/ HalfInPlace)
  /\ WriterGone
  /\ UNCHANGED <<valid, synced>>

\* As PowerLoss, with the log blocks and the flag at risk as well.
LosePower ==
  /\ image.cached
  /\ phase # "down"
  /\ crashes < MaxCrashes
  /\ fs' \in Survivors(fs, stable.fs)
  /\ \E lost \in SUBSET {j \in JBlock : log[j] # synced.log[j]} :
       log' = [j \in JBlock |-> IF j \in lost THEN synced.log[j] ELSE log[j]]
  /\ jsb' \in {jsb, stable.jsb}
  /\ torn' = (torn \/ HalfInPlace
                 \/ IF is_clean(jsb') THEN fs' # fs ELSE promised # Overlay(image.fs, image.wal))
  /\ valid' \in {valid, synced.valid}
  /\ stable' = [fs |-> fs', jsb |-> jsb']
  /\ synced' = [log |-> log', valid |-> valid']
  /\ crashes' = crashes + 1
  /\ phase' = "down"
  /\ applied' = 0
  /\ WriterGone
  /\ UNCHANGED <<journal, locals, image>>

-----------------------------------------------------------------------------
\* Between two mounts another jbd2 user mounts the volume, commits one
\* transaction and stops before writing it in place.  It starts at s_first
\* with the sequence after s_sequence, and knows nothing of what pengwin left
\* in the log.
ForeignCrash ==
  /\ phase = "down"
  /\ is_clean(jsb)
  /\ commits < MaxCommits
  /\ commits' = commits + 1
  /\ \E t \in Foreign :
       LET blocks == TransactionBlocks(t.revoked, t.writes, jsb.seq + 1, TRUE)
           slot(j) == ((j - First) % (Total - First)) + 1
       IN  /\ log' = [j \in JBlock |-> IF slot(j) <= Len(blocks) THEN blocks[slot(j)] ELSE log[j]]
           /\ image' = [image EXCEPT !.fs = fs, !.log = log', !.wal = t.writes]
           /\ promised' = Overlay(fs, t.writes)
  /\ jsb' = [jsb EXCEPT !.start = First, !.seq = jsb.seq + 1]
  /\ stable' = [fs |-> fs, jsb |-> jsb']
  /\ synced' = [log |-> log', valid |-> valid]
  /\ torn' = FALSE
  /\ recent' = <<>>
  /\ UNCHANGED <<fs, marks, phase, journal, locals, crashes, applied, write_head, next_sequence, txn, todo,
                 valid, errors>>

-----------------------------------------------------------------------------
Lifecycle == Mounting \/ SetDirtyFlag \/ FlushDirtyFlag \/ StartHost \/ Unmount \/ FlushValidFlag

Committing == begin_commit \/ LogWrite \/ StoreWrite \/ EndCommit \/ FailedCommit \/ UserFlush

CommitNext == Lifecycle \/ Committing \/ Killed \/ LosePower \/ ForeignCrash

CommitSpec == CommitInit /\ [][CommitNext]_allvars

-----------------------------------------------------------------------------
(* Properties. *)

CommitTypeOK ==
  /\ fs \in [FsBlock -> Value]
  /\ log \in [JBlock -> Entry]
  /\ phase \in Phase \cup {"dirtied", "rw", "closing"}
  /\ write_head \in JBlock
  /\ next_sequence \in Nat
  /\ \A i \in DOMAIN todo : todo[i].area = "log" => todo[i].entry \in Entry

\* The log holds t so that the scanning loop of replay(), started at t, finds
\* it committed and reads back the very writes that were committed.
ReadsBack(t) ==
  LET d == IF t.revoked = {} THEN t.at ELSE advance_jblock(t.at)
  IN  /\ t.revoked # {} => HasHeader(log[t.at], "revoke", t.seq) /\ log[t.at].blks = t.revoked
      /\ IF t.writes = <<>> THEN HasHeader(log[d], "commit", t.seq)
         ELSE IsCommitted(d, t.seq) /\ parse_descriptor_block(log, d) = t.writes

\* Write-ahead rule of commit(): a pinned block goes to its place only when
\* the log holds the whole transaction in a form replay() accepts.
WriteAhead ==
  [][(phase = "rw" /\ phase' = "rw" /\ fs' # fs) => ReadsBack(txn)]_allvars

\* What commit() wrote and replay() would read agree for the whole unbroken
\* run of recent commits, across the wrap of the log: each is readable and the
\* next one starts where it ends, under the next sequence number.
LogReadsBack ==
  \A i \in DOMAIN recent :
    /\ ReadsBack(recent[i])
    /\ i + 1 \in DOMAIN recent =>
         /\ recent[i + 1].seq = recent[i].seq + 1
         /\ recent[i + 1].at = AdvanceBy(recent[i].at, LogLength(recent[i]))

\* Between commits, and as long as no crash or device error fell into the
\* in-place writes of one, the store is what the commit blocks promise: a
\* transaction without a commit block has left no trace in it.
CommittedInPlace ==
  (phase = "rw" /\ ~txn.busy /\ ~torn) => fs = promised

\* A commit torn under Ext4FsRw is on a volume whose VALID_FS is clear on the
\* medium already: the flush in open_rw comes before the first commit.
TearIsFlagged ==
  [][(torn' /\ ~torn /\ phase = "rw" /\ marks) => ~valid']_allvars

=============================================================================
