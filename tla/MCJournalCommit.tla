-------------------------- MODULE MCJournalCommit --------------------------
(* Small volumes and transactions for JournalCommit. *)
EXTENDS JournalCommit, TLC

CONSTANTS a, b, c, e, v1, v2, Buffering

W(blk, val) == [blk |-> blk, val |-> val]
Txn(r, ws)  == [revoked |-> r, writes |-> ws]

Store == [x \in FsBlock |-> v1]

BlankLog == [j \in JBlock |-> Blank]

\* A clean journal, and one with a committed transaction of an earlier user
\* near the end of the log area, so that the commits to come wrap around it.
CleanImage(ca) ==
  [cached |-> ca, fs |-> Store, log |-> BlankLog, wal |-> <<>>,
   txns |-> <<>>, at |-> [i \in {0} |-> First], done |-> [i \in {0} |-> 0],
   jsb |-> [start |-> 0, seq |-> 5, errno |-> FALSE]]

DirtyImage(ca) ==
  [cached |-> ca, fs |-> Store, wal |-> <<W(b, v2)>>, txns |-> <<Txn({}, <<W(b, v2)>>)>>,
   at |-> [i \in 0 .. 1 |-> IF i = 0 THEN Total - 2 ELSE First + 1],
   done |-> [i \in 0 .. 1 |-> i],
   log |-> [BlankLog EXCEPT ![Total - 2] = Descriptor(5, <<[blk |-> b, escape |-> FALSE]>>),
                            ![Total - 1] = Data(v2),
                            ![First] = CommitBlock(5)],
   jsb |-> [start |-> Total - 2, seq |-> 5, errno |-> FALSE]]

MCImages == { CleanImage(ca) : ca \in Buffering } \cup { DirtyImage(ca) : ca \in Buffering }

\* One and two blocks, a revoke, an empty transaction, more tags than a
\* descriptor holds.
MCTransactions ==
  { Txn({}, <<W(a, v2)>>), Txn({}, <<W(b, v1), W(a, v1)>>), Txn({c}, <<W(b, v2)>>),
    Txn({}, <<>>), Txn({c}, <<W(a, v1), W(b, v1), W(c, v2)>>) }

\* Two blocks in one transaction, the smallest case in which one of them can
\* be in place without the other.
Pair == { Txn({}, <<W(b, v2), W(a, v2)>>) }

=============================================================================
