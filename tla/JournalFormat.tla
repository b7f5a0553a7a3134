--------------------------- MODULE JournalFormat ---------------------------
(***************************************************************************)
(* The jbd2 log as pengwin writes and reads it: the kinds of journal       *)
(* block, the circular walk over the log area, and what one descriptor     *)
(* block says has to be written.  The geometry is that of the journal      *)
(* superblock: journal blocks First .. Total-1 hold the log, block 0 the   *)
(* journal superblock.                                                     *)
(*                                                                         *)
(* A payload is a value.  Magic is a payload whose first word is the       *)
(* journal's magic number, Zapped the same payload with that word zeroed,  *)
(* Junk whatever a reader finds where nothing meaningful was written.      *)
(***************************************************************************)
EXTENDS Integers, Sequences, FiniteSets

CONSTANTS FsBlock,              \* file-system blocks a transaction may touch
          Value,                \* payloads of a block
          Magic, Zapped, Junk,  \* the three special payloads
          First, Total          \* s_first and s_maxlen

ASSUME GeometryAssumption ==
  /\ First \in Nat \ {0}
  /\ Total \in Nat
  /\ First < Total

ASSUME ValueAssumption == {Magic, Zapped, Junk} \subseteq Value

JBlock == First .. (Total - 1)

Write == [blk : FsBlock, val : Value]
Tag   == [blk : FsBlock, escape : BOOLEAN]
Kind  == {"blank", "descriptor", "data", "commit", "revoke"}

\* One journal block; the fields its kind does not use hold a default.
Entry == [kind : Kind, seq : Nat, tags : Seq(Tag), blks : SUBSET FsBlock, val : Value]

Blank             == [kind |-> "blank", seq |-> 0, tags |-> <<>>, blks |-> {}, val |-> Junk]
Descriptor(s, ts) == [Blank EXCEPT !.kind = "descriptor", !.seq = s, !.tags = ts]
Data(v)           == [Blank EXCEPT !.kind = "data", !.val = v]
CommitBlock(s)    == [Blank EXCEPT !.kind = "commit", !.seq = s]
Revoke(s, bs)     == [Blank EXCEPT !.kind = "revoke", !.seq = s, !.blks = bs]

-----------------------------------------------------------------------------
(* Walking the log. *)

\* Mutant of advance_jblock: one block past the end of the log.
advance_jblock_late(j) == IF j + 1 > Total THEN First ELSE j + 1

advance_jblock(j) == IF j + 1 >= Total THEN First ELSE j + 1

\* k steps of advance_jblock from j (lemma AdvanceByStep of JournalProofs).
AdvanceBy(j, k) == First + ((j - First + k) % (Total - First))

\* The header test of the scanning loop: magic, sequence and type agree.
HasHeader(e, kind, s) == e.kind = kind /\ e.seq = s

\* A tag list ends at its first LAST_TAG, so it is never empty on disk; the
\* commit block is looked for right after the data blocks of the tags.
CommitPosition(lg, j) == AdvanceBy(j, Len(lg[j].tags) + 1)

-----------------------------------------------------------------------------
(* Payloads. *)

\* What a journal block gives when it is read as a data block, with the
\* reader's ESCAPE treatment.
Payload(e, escape) ==
  IF e.kind # "data" THEN Junk
  ELSE IF escape /\ e.val = Zapped THEN Magic
  ELSE e.val

\* parse_descriptor_block: the writes the descriptor at j stands for.  The
\* revoked ones are dropped by the caller, see Skipped in JournalReplay.
parse_descriptor_block(lg, j) ==
  [i \in 1 .. Len(lg[j].tags) |->
     [blk |-> lg[j].tags[i].blk,
      val |-> Payload(lg[AdvanceBy(j, i)], lg[j].tags[i].escape)]]

-----------------------------------------------------------------------------
(* What a commit puts into the log. *)

Escape(v) == IF v = Magic THEN Zapped ELSE v

\* The journal blocks of one transaction, in the order they are written:
\* revoke block, descriptor, data, commit block.  A data block that starts with
\* the magic number has it zeroed; flagged says whether its tag tells so.
TransactionBlocks(revoked, writes, s, flagged) ==
  LET tags == [i \in DOMAIN writes |->
                 [blk |-> writes[i].blk, escape |-> flagged /\ writes[i].val = Magic]]
      data == [i \in DOMAIN writes |-> Data(Escape(writes[i].val))]
  IN  (IF revoked = {} THEN <<>> ELSE <<Revoke(s, revoked)>>)
      \o (IF writes = <<>> THEN <<>> ELSE <<Descriptor(s, tags)>> \o data)
      \o <<CommitBlock(s)>>

=============================================================================
