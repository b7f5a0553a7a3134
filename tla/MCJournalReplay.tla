-------------------------- MODULE MCJournalReplay --------------------------
(***************************************************************************)
(* Volumes for JournalReplay: logs as a jbd2 user leaves them when it      *)
(* stops without unmounting.  Whole transactions follow one another from   *)
(* s_start round the circle; then comes the point where the user stopped.  *)
(***************************************************************************)
EXTENDS JournalReplay, TLC, SequencesExt

CONSTANTS a, b, c, v1, v2

W(blk, val) == [blk |-> blk, val |-> val]
Txn(r, ws)  == [revoked |-> r, writes |-> ws]

Store == (a :> v1) @@ (b :> v1) @@ (c :> v1)

\* Few transactions, chosen to write one block twice, in both orders, to hold
\* an escaped payload, to be empty, and to revoke a block the log never writes.
Small  == { Txn({}, <<>>), Txn({}, <<W(a, v2)>>), Txn({}, <<W(a, v1)>>),
            Txn({}, <<W(a, Magic), W(b, v2)>>), Txn({}, <<W(b, v1), W(a, v2)>>),
            Txn({c}, <<W(b, v2)>>) }

Lists == {<<>>} \cup { <<t>> : t \in Small } \cup { <<t, u>> : t, u \in Small }
         \cup [1 .. 3 -> {Txn({}, <<>>), Txn({}, <<W(a, v2)>>), Txn({}, <<W(a, v1)>>)}]
         \cup { [i \in 1 .. (Total - First) |-> Txn({}, <<>>)] }

FirstSeq == 2

LogOf(ts) == FlattenSeq([i \in DOMAIN ts |->
               TransactionBlocks(ts[i].revoked, ts[i].writes, FirstSeq + i - 1, TRUE)])

WalOf(ts) == FlattenSeq([i \in DOMAIN ts |-> ts[i].writes])

\* Where the other user stopped: nothing of the next transaction, its
\* descriptor alone, all but its commit block, or a commit block that never
\* got its turn because it belongs to an older lap of the log.
Tails(n) ==
  LET t == TransactionBlocks({}, <<W(b, v2)>>, FirstSeq + n, TRUE)
  IN  { <<>>, SubSeq(t, 1, 1), SubSeq(t, 1, 2),
        SubSeq(t, 1, 2) \o <<CommitBlock(FirstSeq - 1)>> }

Circle(entries, start, rest) ==
  [j \in JBlock |->
     LET i == ((j - start) % (Total - First)) + 1
     IN  IF i <= Len(entries) THEN entries[i] ELSE rest]

Image(ts, start, entries, rest, cached) ==
  [fs  |-> Store, cached |-> cached,
   log |-> Circle(entries, start, rest),
   jsb |-> [start |-> start, seq |-> FirstSeq, errno |-> FALSE],
   wal |-> WalOf(ts), txns |-> ts,
   at |-> [i \in 0 .. Len(ts) |-> AdvanceBy(start, Len(LogOf(SubSeq(ts, 1, i))))],
   done |-> [i \in 0 .. Len(ts) |-> Len(WalOf(SubSeq(ts, 1, i)))]]

Fits(entries) == Len(entries) <= Total - First

\* Where the log starts, what fills the rest of the circle, and the device: one
\* that writes through or, with less variety, one that buffers.
Layouts ==
  ({First, Total - 2} \X {Blank, CommitBlock(FirstSeq - 1), Revoke(FirstSeq - 1, {c})} \X {FALSE})
  \cup {<<Total - 2, Blank, TRUE>>}

DirtyLogs ==
  UNION { { Image(ts, l[1], LogOf(ts) \o tail, l[2], l[3]) :
              l \in Layouts, tail \in { t \in Tails(Len(ts)) : Fits(LogOf(ts) \o t) } }
          : ts \in { x \in Lists : Fits(LogOf(x)) } }

CleanLogs ==
  { [Image(<<>>, First, LogOf(<<>>), CommitBlock(FirstSeq - 1), FALSE)
       EXCEPT !.jsb = [start |-> 0, seq |-> FirstSeq, errno |-> e]] : e \in BOOLEAN }

MCImages == DirtyLogs \cup CleanLogs

=============================================================================
