--------------------------- MODULE JournalReplay ---------------------------
(***************************************************************************)
(* Mounting a volume whose journal another jbd2 user left behind, and      *)
(* replaying it: Journal::load, check_and_recover, replay and the open     *)
(* modes.  Every write to the device is a step, so a crash, a torn block   *)
(* write or a power loss may fall between any two, and recovery is then    *)
(* attempted again from what is on the device.                             *)
(*                                                                         *)
(* A journal written by pengwin itself is added by JournalCommit.          *)
(***************************************************************************)
EXTENDS JournalFormat

CONSTANTS Images,       \* volumes found at the first mount
          MaxCrashes    \* bound on crashes, so that runs stay finite

\* An image: the store, the journal superblock and the log on it, the writes
\* its committed transactions stand for, and whether it is on a device that
\* buffers writes until a flush.  Then how the log came to be: its committed
\* transactions, the journal block behind each, and the writes up to there.
ASSUME ImagesAssumption ==
  \A im \in Images :
    /\ DOMAIN im = {"fs", "log", "jsb", "wal", "cached", "txns", "at", "done"}
    /\ im.fs \in [FsBlock -> Value]
    /\ im.log \in [JBlock -> Entry]
    /\ im.jsb \in [start : JBlock \cup {0}, seq : Nat, errno : BOOLEAN]
    /\ im.wal \in Seq(Write)
    /\ im.jsb.start = 0 => im.wal = <<>>
    /\ im.cached \in BOOLEAN

Transaction == [revoked : SUBSET FsBlock, writes : Seq(Write)]

\* The journal blocks of the i-th transaction of a volume's log.
LoggedBlocks(im, i) ==
  TransactionBlocks(im.txns[i].revoked, im.txns[i].writes, im.jsb.seq + i - 1, TRUE)

\* The i-th transaction is in the log from at[i-1] on, and its writes are in
\* wal behind the first done[i-1].
HoldsTransaction(im, i) ==
  /\ \A k \in DOMAIN LoggedBlocks(im, i) :
       im.log[AdvanceBy(im.at[i - 1], k - 1)] = LoggedBlocks(im, i)[k]
  /\ im.at[i] = AdvanceBy(im.at[i - 1], Len(LoggedBlocks(im, i)))
  /\ im.done[i] = im.done[i - 1] + Len(im.txns[i].writes)
  /\ \A k \in DOMAIN im.txns[i].writes : im.wal[im.done[i - 1] + k] = im.txns[i].writes[k]

\* The log is that of a jbd2 user that stopped without unmounting: its
\* transactions follow one another from s_start.  It revoked no block that the
\* log writes, and what an older lap left has older sequence numbers.
WellFormed(im) ==
  LET n == Len(im.txns) IN
    /\ im.txns \in Seq(Transaction)
    /\ im.at \in [0 .. n -> JBlock] /\ im.done \in [0 .. n -> 0 .. Len(im.wal)]
    /\ im.jsb.start = 0 => n = 0
    /\ im.jsb.start # 0 => im.at[0] = im.jsb.start
    /\ im.done[0] = 0 /\ im.done[n] = Len(im.wal)
    /\ \A i \in 1 .. n : HoldsTransaction(im, i)
    /\ \A i \in 1 .. n : \A k \in DOMAIN im.wal : im.wal[k].blk \notin im.txns[i].revoked
    /\ \A j \in JBlock : ~HasHeader(im.log[j], "commit", im.jsb.seq + n)

ASSUME LogsAssumption == \A im \in Images : WellFormed(im)

ASSUME BoundAssumption == MaxCrashes \in Nat

VARIABLES
  fs, jsb, log,     \* the device as a reader sees it
  stable,           \* store and journal superblock as of the last flush
  phase,            \* where the mounting process is
  journal,          \* the Journal struct: the superblock as it was loaded
  jblock, sequence, revoke_set, pending,   \* locals of replay()
  crashes,
  image,            \* history: the volume recovery started from
  applied           \* history: writes of the log this attempt is done with

device == <<fs, jsb, log>>
locals == <<jblock, sequence, revoke_set, pending>>
vars   == <<fs, jsb, log, stable, phase, journal, jblock, sequence, revoke_set,
            pending, crashes, image, applied>>

JournalSb == [start : JBlock \cup {0}, seq : Nat, errno : BOOLEAN]
Phase     == {"down", "scan", "apply", "mark", "barrier", "recovered", "ro", "ro_force"}

TypeOK ==
  /\ fs \in [FsBlock -> Value]
  /\ jsb \in JournalSb
  /\ log \in [JBlock -> Entry]
  /\ stable \in [fs : [FsBlock -> Value], jsb : JournalSb]
  /\ phase \in Phase
  /\ journal \in JournalSb
  /\ jblock \in JBlock
  /\ sequence \in Nat
  /\ revoke_set \subseteq FsBlock
  /\ pending \in Seq(Write)
  /\ crashes \in 0 .. MaxCrashes
  /\ applied \in Nat

is_clean(sb) == sb.start = 0

Init ==
  /\ image \in Images
  /\ fs = image.fs
  /\ jsb = image.jsb
  /\ log = image.log
  /\ stable = [fs |-> fs, jsb |-> jsb]
  /\ phase = "down"
  /\ journal = jsb
  /\ jblock = First
  /\ sequence = 0
  /\ revoke_set = {}
  /\ pending = <<>>
  /\ crashes = 0
  /\ applied = 0

-----------------------------------------------------------------------------
(* Opening the volume. *)

\* Ext4Fs::open_rw up to the scan: the journal superblock is loaded, an errno
\* in it refuses the mount, and a clean journal needs no replay.
OpenReadWrite ==
  /\ phase = "down"
  /\ ~jsb.errno
  /\ journal' = jsb
  /\ applied' = 0
  /\ pending' = <<>>
  /\ revoke_set' = {}
  /\ sequence' = jsb.seq
  /\ jblock' = IF is_clean(jsb) THEN First ELSE jsb.start
  /\ phase' = IF is_clean(jsb) THEN "recovered" ELSE "scan"
  /\ UNCHANGED <<device, stable, crashes, image>>

\* Mutant of OpenReadOnly: a dirty journal is not refused.
OpenReadOnlyUnchecked ==
  /\ phase = "down"
  /\ phase' \in {"ro", "ro_force"}
  /\ journal' = jsb
  /\ UNCHANGED <<device, stable, locals, crashes, image, applied>>

\* Ext4Fs::open refuses a journal that needs recovery or carries an errno;
\* Ext4Fs::open_ro_force takes the volume as it is.
OpenReadOnly ==
  /\ phase = "down"
  /\ \/ ~jsb.errno /\ is_clean(jsb) /\ phase' = "ro"
     \/ phase' = "ro_force"
  /\ journal' = jsb
  /\ UNCHANGED <<device, stable, locals, crashes, image, applied>>

Close ==
  /\ phase \in {"recovered", "ro", "ro_force"}
  /\ phase' = "down"
  /\ UNCHANGED <<device, stable, journal, locals, crashes, image, applied>>

-----------------------------------------------------------------------------
(* The scanning loop of replay(), one journal block header per step. *)

\* Mutants of IsCommitted: the commit block is not looked for; its sequence is
\* not compared.
IsCommittedUnchecked(j, s) == HasHeader(log[j], "descriptor", s)
IsCommittedByAnyone(j, s) ==
  HasHeader(log[j], "descriptor", s) /\ log[CommitPosition(log, j)].kind = "commit"

IsCommitted(j, s) ==
  /\ HasHeader(log[j], "descriptor", s)
  /\ HasHeader(log[CommitPosition(log, j)], "commit", s)

\* A descriptor whose commit block follows its data: its writes are collected.
ScanDescriptor ==
  /\ phase = "scan"
  /\ IsCommitted(jblock, sequence)
  /\ pending' = parse_descriptor_block(log, jblock)
  /\ phase' = "apply"
  /\ UNCHANGED <<device, stable, journal, jblock, sequence, revoke_set, crashes, image, applied>>

\* parse_descriptor_block leaves out a block that was revoked before.
Skipped(w) == w.blk \in revoke_set

\* One write_sectors call of the apply loop.
ApplyWrite ==
  /\ phase = "apply"
  /\ pending # <<>>
  /\ fs' = IF Skipped(Head(pending)) THEN fs
           ELSE [fs EXCEPT ![Head(pending).blk] = Head(pending).val]
  /\ pending' = Tail(pending)
  /\ applied' = IF Skipped(Head(pending)) THEN applied ELSE applied + 1
  /\ UNCHANGED <<jsb, log, stable, phase, journal, jblock, sequence, revoke_set, crashes, image>>

EndTransaction ==
  /\ phase = "apply"
  /\ pending = <<>>
  /\ sequence' = sequence + 1
  /\ jblock' = advance_jblock(CommitPosition(log, jblock))
  /\ phase' = "scan"
  /\ UNCHANGED <<device, stable, journal, revoke_set, pending, crashes, image, applied>>

\* A commit block without a descriptor is an empty transaction.
ScanCommit ==
  /\ phase = "scan"
  /\ HasHeader(log[jblock], "commit", sequence)
  /\ sequence' = sequence + 1
  /\ jblock' = advance_jblock(jblock)
  /\ UNCHANGED <<device, stable, phase, journal, revoke_set, pending, crashes, image, applied>>

\* Mutant of ScanRevoke: a revoke block of any sequence is taken.
ScanRevokeAnySequence ==
  /\ phase = "scan"
  /\ log[jblock].kind = "revoke"
  /\ revoke_set' = revoke_set \cup log[jblock].blks
  /\ jblock' = advance_jblock(jblock)
  /\ UNCHANGED <<device, stable, phase, journal, sequence, pending, crashes, image, applied>>

ScanRevoke ==
  /\ phase = "scan"
  /\ HasHeader(log[jblock], "revoke", sequence)
  /\ revoke_set' = revoke_set \cup log[jblock].blks
  /\ jblock' = advance_jblock(jblock)
  /\ UNCHANGED <<device, stable, phase, journal, sequence, pending, crashes, image, applied>>

\* Every other block ends the log: wrong magic or sequence, a type the loop
\* does not know, a descriptor whose transaction has no commit block.
EndOfLog ==
  /\ phase = "scan"
  /\ ~IsCommitted(jblock, sequence)
  /\ ~HasHeader(log[jblock], "commit", sequence)
  /\ ~HasHeader(log[jblock], "revoke", sequence)
  /\ phase' = "mark"
  /\ UNCHANGED <<device, stable, journal, locals, crashes, image, applied>>

\* Mutants of WriteJournalSuperblock: s_sequence is not moved on; nothing is
\* flushed behind it.
MarkCleanSameSequence ==
  /\ phase = "mark"
  /\ jsb' = [jsb EXCEPT !.start = 0, !.seq = journal.seq]
  /\ phase' = "barrier"
  /\ UNCHANGED <<fs, log, stable, journal, locals, crashes, image, applied>>

MarkCleanNoFlush ==
  /\ phase = "mark"
  /\ jsb' = [jsb EXCEPT !.start = 0, !.seq = sequence]
  /\ phase' = "recovered"
  /\ UNCHANGED <<fs, log, stable, journal, locals, crashes, image, applied>>

\* mark_journal_clean: the superblock write, then the flush that covers it and
\* all the writes of the replay.
WriteJournalSuperblock ==
  /\ phase = "mark"
  /\ jsb' = [jsb EXCEPT !.start = 0, !.seq = sequence]
  /\ phase' = "barrier"
  /\ UNCHANGED <<fs, log, stable, journal, locals, crashes, image, applied>>

Flush ==
  /\ phase = "barrier"
  /\ stable' = [fs |-> fs, jsb |-> jsb]
  /\ phase' = "recovered"
  /\ UNCHANGED <<device, journal, locals, crashes, image, applied>>

-----------------------------------------------------------------------------
(* Failures. *)

Restart ==
  /\ crashes < MaxCrashes
  /\ crashes' = crashes + 1
  /\ phase' = "down"
  /\ UNCHANGED <<log, journal, locals, image>>

\* The process dies; the operating system still has every write.
ProcessCrash ==
  /\ phase # "down"
  /\ Restart
  /\ applied' = 0
  /\ UNCHANGED <<fs, jsb, stable>>

\* The process dies inside write_sectors, some sectors of the block written.
TornWrite ==
  /\ phase = "apply"
  /\ pending # <<>>
  /\ ~Skipped(Head(pending))
  /\ Restart
  /\ fs' = [fs EXCEPT ![Head(pending).blk] = Junk]
  /\ applied' = 0
  /\ UNCHANGED <<jsb, stable>>

\* What a power loss may leave of a store: of each block written since the
\* last flush all, nothing, or a part.
Survivors(new, old) ==
  LET unsafe == { b \in FsBlock : new[b] # old[b] }
      left(b, fate) == CASE fate = "all" -> new[b] [] fate = "none" -> old[b] [] OTHER -> Junk
  IN  { [b \in FsBlock |-> IF b \in unsafe THEN left(b, fates[b]) ELSE new[b]] :
          fates \in [unsafe -> {"all", "none", "part"}] }

\* The machine loses power: each block written since the last flush may or
\* may not have reached the medium, in no particular order.
PowerLoss ==
  /\ image.cached
  /\ phase # "down"
  /\ Restart
  /\ fs' \in Survivors(fs, stable.fs)
  /\ jsb' \in {jsb, stable.jsb}
  /\ stable' = [fs |-> fs', jsb |-> jsb']
  /\ applied' = 0

-----------------------------------------------------------------------------
Replay == ScanDescriptor \/ ApplyWrite \/ EndTransaction \/ ScanCommit \/ ScanRevoke
          \/ EndOfLog \/ WriteJournalSuperblock \/ Flush

Fail == ProcessCrash \/ TornWrite \/ PowerLoss

Next == OpenReadWrite \/ OpenReadOnly \/ Close \/ Replay \/ Fail

\* The loop of replay() runs on one thread and waits for nobody.
Spec == Init /\ [][Next]_vars /\ WF_vars(Replay)

-----------------------------------------------------------------------------
(* Properties. *)

Redo == INSTANCE RedoLog WITH
          Block <- FsBlock, Val <- Value, base <- image.fs, wal <- image.wal,
          store <- fs, pos <- applied, clean <- is_clean(jsb)

\* Whenever the journal superblock says the journal is clean, the store holds
\* every committed transaction of the log found at mount, in log order and
\* nothing else, whatever crashes cut earlier attempts short (replay()).  On a
\* device that buffers writes see LossOnlyBeforeBarrier.
CleanMeansReplayed == image.cached \/ Redo!CleanMeansReplayed

\* A clean journal loses writes of the log only to a power loss that comes
\* after the superblock write of mark_journal_clean and before a flush has
\* covered it (there is no barrier between the two), and never once replay()
\* has returned.
LossOnlyBeforeBarrier ==
  [][(Redo!CleanMeansReplayed /\ ~Redo!CleanMeansReplayed') =>
       ~is_clean(stable.jsb) /\ ~(phase = "recovered" /\ ~is_clean(journal))]_vars

\* replay() carries out the writes of the committed transactions one by one in
\* log order, restarts from the first after a crash, and marks the journal
\* clean only behind the last.
ImplementsRedoLog == Redo!Init /\ [][image.cached \/ Redo!Next]_(Redo!vars)

\* A plain read-only mount never shows a store that still lacks committed
\* transactions (Ext4Fs::open refuses a dirty journal).
ReadOnlySeesReplayed ==
  (phase = "ro" /\ ~image.cached) => Redo!IsReplayed(image.fs, image.wal, fs)

\* After recovery no commit block of the log carries the sequence the next
\* transaction will be given, so an old one cannot complete a new transaction.
NextSequenceFresh ==
  is_clean(jsb) => \A j \in JBlock : ~HasHeader(log[j], "commit", jsb.seq)

\* replay() comes to an end on every log, also on one that fills the whole
\* circle of journal blocks.
ReplayEnds == phase \in {"scan", "apply", "mark", "barrier"} ~> phase \in {"down", "recovered"}

=============================================================================
