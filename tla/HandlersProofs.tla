--------------------------- MODULE HandlersProofs ---------------------------
(***************************************************************************)
(* That the dispatcher threads never all wait for one another, and what    *)
(* their transactions keep of the tree, for any number of threads, inodes  *)
(* and names.  The first invariant says where in its program a call has    *)
(* which lock; that the programs keep to it is read off Program, one       *)
(* operation after another, in Steps and Ends, and nothing below them      *)
(* looks into Program again.                                               *)
(*                                                                         *)
(* The second one says what a call still knows at each place of what it    *)
(* read before it had the journal lock.  It rests on what an edit makes of *)
(* the names of each inode, on what it keeps of the names of other calls,  *)
(* and on what it makes of a tree when nothing came in between.            *)
(***************************************************************************)
EXTENDS Handlers, FiniteSetTheorems, TLAPS

\* The places of each program at which its call has the journal lock.
JournalHeld ==
  [create |-> 4 .. 6, rename |-> 4 .. 6, delete |-> 4 .. 6, rmdir |-> 7 .. 10, write |-> 2 .. 5,
   set_size |-> 3 .. 6, set_info |-> 2 .. 4, flush |-> {}, list |-> {}]

\* The places at which it has the group lock.
GroupsHeld ==
  [create |-> {5}, rename |-> {5}, delete |-> {5}, rmdir |-> 8 .. 10, write |-> {4},
   set_size |-> {4}, set_info |-> {3}, flush |-> {}, list |-> {}]

\* The places between a transaction's edit and its commit.
Edited ==
  [create |-> {6}, rename |-> {6}, delete |-> {6}, rmdir |-> {9, 10}, write |-> {5},
   set_size |-> {5, 6}, set_info |-> {4}, flush |-> {}, list |-> {}]

\* The calls WinFsp's guard is for.
Guarded == {"create", "rename", "delete", "rmdir", "list"}

\* The operations one by one.
LEMMA Operation ==
  ASSUME NEW op \in DOMAIN Program
  PROVE  op \in Guarded \cup {"write", "set_size", "set_info", "flush"}
BY DEF Program, Guarded

\* What each step of a program does to the locks.
LEMMA Steps ==
  ASSUME NEW op \in DOMAIN Program, NEW k \in 1 .. Len(Program[op])
  PROVE  LET s == Program[op][k] IN
    /\ Len(Program[op]) \in Nat \ {0} /\ DOMAIN Program[op] = 1 .. Len(Program[op])
    /\ s = "journal" => k \notin JournalHeld[op] /\ k + 1 \in JournalHeld[op]
    /\ s # "journal" /\ k \notin JournalHeld[op] => k + 1 \notin JournalHeld[op]
    /\ s # "commit" /\ k \in JournalHeld[op] => k + 1 \in JournalHeld[op]
    /\ s = "commit" => k \in JournalHeld[op] /\ k + 1 \notin JournalHeld[op]
    /\ s = "gdt" => k \notin GroupsHeld[op] /\ k + 1 \in GroupsHeld[op]
    /\ s # "gdt" /\ k \notin GroupsHeld[op] => k + 1 \notin GroupsHeld[op]
    /\ s \in {"edit", "remove"} => k \in GroupsHeld[op]
    /\ s \in {"edit", "commit"} => k + 1 \notin GroupsHeld[op]
    /\ s \notin {"edit", "commit"} /\ k \in GroupsHeld[op] => k + 1 \in GroupsHeld[op]
    /\ k \in GroupsHeld[op] => k \in JournalHeld[op] /\ s \in {"edit", "remove", "read", "commit"}
    /\ k \in JournalHeld[op] => s \notin {"journal", "sync", "shared", "exclusive", "look", "check", "leave"}
    /\ s \in {"edit", "remove"} => k \notin Edited[op] /\ k + 1 \in Edited[op]
    /\ s \notin {"edit", "remove"} /\ k \notin Edited[op] => k + 1 \notin Edited[op]
    /\ s # "commit" /\ k \in Edited[op] => k + 1 \in Edited[op]
    /\ s = "commit" => k \in Edited[op] /\ k + 1 \notin Edited[op]
    /\ k \in Edited[op] => k \in JournalHeld[op]
    /\ s = "look" => op \in {"create", "rename", "delete", "rmdir"} /\ k < Len(Program[op])
    /\ s \in {"shared", "exclusive", "leave", "check", "look"} => op \in Guarded
    /\ s # "leave" /\ k < Len(Program[op]) => Program[op][k + 1] \notin {"shared", "exclusive"}
<1> USE DEF Program, JournalHeld, GroupsHeld, Edited, Guarded
<1>1. CASE op = "create"   BY <1>1
<1>2. CASE op = "rename"   BY <1>2
<1>3. CASE op = "delete"   BY <1>3
<1>4. CASE op = "rmdir"    BY <1>4
<1>5. CASE op = "write"    BY <1>5
<1>6. CASE op = "set_size" BY <1>6
<1>7. CASE op = "set_info" BY <1>7
<1>8. CASE op = "flush"    BY <1>8
<1>9. CASE op = "list"     BY <1>9
<1> QED
  BY <1>1, <1>2, <1>3, <1>4, <1>5, <1>6, <1>7, <1>8, <1>9, Operation

\* The ends of a program.
LEMMA Ends ==
  ASSUME NEW op \in DOMAIN Program
  PROVE  LET n == Len(Program[op]) IN
    /\ n \in Nat \ {0}
    /\ 1 \notin JournalHeld[op] /\ 1 \notin GroupsHeld[op] /\ 1 \notin Edited[op]
    /\ n \notin JournalHeld[op] /\ n \notin GroupsHeld[op] /\ n \notin Edited[op]
    /\ n + 1 \notin JournalHeld[op] /\ n + 1 \notin GroupsHeld[op] /\ n + 1 \notin Edited[op]
    /\ op \in Guarded <=> Program[op][n] = "leave"
<1> USE DEF Program, JournalHeld, GroupsHeld, Edited, Guarded
<1>1. CASE op = "create"   BY <1>1
<1>2. CASE op = "rename"   BY <1>2
<1>3. CASE op = "delete"   BY <1>3
<1>4. CASE op = "rmdir"    BY <1>4
<1>5. CASE op = "write"    BY <1>5
<1>6. CASE op = "set_size" BY <1>6
<1>7. CASE op = "set_info" BY <1>7
<1>8. CASE op = "flush"    BY <1>8
<1>9. CASE op = "list"     BY <1>9
<1> QED
  BY <1>1, <1>2, <1>3, <1>4, <1>5, <1>6, <1>7, <1>8, <1>9, Operation

-----------------------------------------------------------------------------
(* Who holds a lock is where the program holds it. *)

\* The operation a thread is in, and what it has there by its program.
Op(t) == call[t].op

InJournal(t) == call[t] # Idle /\ at[t] \in JournalHeld[Op(t)]
InGroups(t) == call[t] # Idle /\ at[t] \in GroupsHeld[Op(t)]
InEdited(t) == call[t] # Idle /\ at[t] \in Edited[Op(t)]

\* Every call is at a step of its program.
CallsInPlace ==
  /\ call \in [Thread -> Call \cup {Idle}] /\ at \in [Thread -> Nat]
  /\ \A t \in Thread : call[t] # Idle => at[t] \in 1 .. Len(Program[Op(t)])

\* A mutex is held by exactly the thread that is where its program holds it.
MutexesInPlace ==
  /\ journal \in Thread \cup {None} /\ gdt \in Thread \cup {None}
  /\ \A t \in Thread : (journal = t <=> InJournal(t)) /\ (gdt = t <=> InGroups(t))

\* Who is inside WinFsp's guard makes a call that uses it, and does not wait for it.
GuardInPlace ==
  /\ writer \in Thread \cup {None} /\ readers \subseteq Thread
  /\ \A t \in Thread : writer = t \/ t \in readers =>
       call[t] # Idle /\ Op(t) \in Guarded /\ Step(t) \notin {"shared", "exclusive"}

\* A transaction is open only between its edit and its commit.
TreesInPlace ==
  /\ ns \in Tree
  /\ txn = None \/ \E t \in Thread : InEdited(t)
  /\ \A t \in Thread : InEdited(t) => txn \in Tree

HandlersInv == CallsInPlace /\ MutexesInPlace /\ GuardInPlace /\ TreesInPlace

\* What a call is made of.
LEMMA CallFields ==
  ASSUME NEW c \in Call
  PROVE  /\ c.op \in DOMAIN Program /\ c # Idle
         /\ c.op = "create" => c.d \in Inode /\ c.n \in Name /\ c.kind \in {"file", "dir"} /\ c.links \in Nat
         /\ c.op = "rename" => c.d \in Inode /\ c.n \in Name /\ c.dd \in Inode /\ c.dn \in Name
         /\ c.op \in {"delete", "rmdir"} => c.d \in Inode /\ c.n \in Name /\ c.i \in Inode /\ c.links \in Nat
BY HandlersAssumption DEF Call, Program

\* The step a thread is at, and what it holds there.
LEMMA StepFacts ==
  ASSUME HandlersInv, NEW t \in Thread, call[t] # Idle
  PROVE  /\ call[t] \in Call /\ Op(t) \in DOMAIN Program
         /\ at[t] \in 1 .. Len(Program[Op(t)]) /\ Step(t) = Program[Op(t)][at[t]]
         /\ Step(t) = "journal" => ~InJournal(t)
         /\ Step(t) = "commit" => InJournal(t) /\ InEdited(t)
         /\ Step(t) = "gdt" => ~InGroups(t)
         /\ Step(t) \in {"edit", "remove"} => InGroups(t) /\ ~InEdited(t)
         /\ InGroups(t) => InJournal(t) /\ Step(t) \in {"edit", "remove", "read", "commit"}
         /\ InJournal(t) => Step(t) \notin {"journal", "sync", "shared", "exclusive", "look", "check", "leave"}
         /\ InEdited(t) => InJournal(t)
         /\ Step(t) \in {"shared", "exclusive", "leave", "check", "look"} => Op(t) \in Guarded
<1>1. call[t] \in Call /\ at[t] \in 1 .. Len(Program[Op(t)]) /\ Step(t) = Program[Op(t)][at[t]]
  BY DEF HandlersInv, CallsInPlace, Step, Op
<1>2. Op(t) \in DOMAIN Program
  BY <1>1, CallFields DEF Op
<1> QED
  BY <1>1, <1>2, Steps DEF InJournal, InGroups, InEdited

-----------------------------------------------------------------------------
(* How far a thread gets in a step. *)

\* The other threads do not move.
Others(t) ==
  /\ \A u \in Thread \ {t} : call'[u] = call[u] /\ at'[u] = at[u]
  /\ call' \in [Thread -> Call \cup {Idle}] /\ at' \in [Thread -> Nat]

\* The thread goes on to its next step, or ends its call.
Proceeds(t) ==
  /\ Others(t)
  /\ \/ /\ call'[t] \in Call /\ call'[t].op = Op(t)
        /\ at'[t] = at[t] + 1 /\ at[t] < Len(Program[Op(t)])
     \/ call'[t] = Idle /\ at[t] = Len(Program[Op(t)])

\* The thread gives its call up: it leaves the guard or returns.
Stops(t) ==
  /\ Others(t)
  /\ \/ /\ call'[t] = call[t] /\ at'[t] = Len(Program[Op(t)])
        /\ Program[Op(t)][Len(Program[Op(t)])] = "leave"
     \/ call'[t] = Idle /\ Op(t) \notin Guarded

\* Advance is a step within the program, or its end.
LEMMA AdvanceProceeds ==
  ASSUME HandlersInv, NEW t \in Thread, call[t] # Idle, Advance(t)
  PROVE  Proceeds(t)
<1>1. /\ call[t] \in Call /\ at[t] \in 1 .. Len(Program[Op(t)]) /\ Len(Program[Op(t)]) \in Nat
  BY StepFacts, Ends
<1>2. call \in [Thread -> Call \cup {Idle}] /\ at \in [Thread -> Nat]
  BY DEF HandlersInv, CallsInPlace
<1> QED
  BY <1>1, <1>2 DEF Advance, Proceeds, Others, Op

\* GiveUp is a step to the end of the program.
LEMMA GiveUpStops ==
  ASSUME HandlersInv, NEW t \in Thread, call[t] # Idle, GiveUp(t)
  PROVE  Stops(t)
<1>1. /\ Op(t) \in DOMAIN Program /\ Len(Program[Op(t)]) \in Nat
      /\ Op(t) \in Guarded <=> Program[Op(t)][Len(Program[Op(t)])] = "leave"
  BY StepFacts, Ends
<1>2. call \in [Thread -> Call \cup {Idle}] /\ at \in [Thread -> Nat]
  BY DEF HandlersInv, CallsInPlace
<1> QED
  BY <1>1, <1>2 DEF GiveUp, Stops, Others, Op

\* The others stay where they are.
LEMMA OthersStay ==
  ASSUME HandlersInv, NEW t \in Thread, Others(t), NEW u \in Thread \ {t}
  PROVE  /\ InJournal(u)' <=> InJournal(u)
         /\ InGroups(u)' <=> InGroups(u)
         /\ InEdited(u)' <=> InEdited(u)
         /\ call'[u] = call[u] /\ Op(u)' = Op(u)
         /\ call[u] # Idle => Step(u)' = Step(u)
BY DEF Others, InJournal, InGroups, InEdited, Op, Step

\* What a thread holds behind a step it has taken, by the step it was.
LEMMA ProceedsTo ==
  ASSUME HandlersInv, NEW t \in Thread, call[t] # Idle, Proceeds(t)
  PROVE  /\ CallsInPlace'
         /\ InJournal(t)' <=> Step(t) = "journal" \/ (InJournal(t) /\ Step(t) # "commit")
         /\ InGroups(t)' <=> Step(t) = "gdt" \/ (InGroups(t) /\ Step(t) \notin {"edit", "commit"})
         /\ InEdited(t)' <=> Step(t) \in {"edit", "remove"} \/ (InEdited(t) /\ Step(t) # "commit")
         /\ \/ /\ call'[t] # Idle /\ Op(t)' = Op(t)
               /\ Step(t) # "leave" => Step(t)' \notin {"shared", "exclusive"}
            \/ call'[t] = Idle /\ (Op(t) \in Guarded => Step(t) = "leave")
<1> DEFINE op == Op(t)
           k == at[t]
           n == Len(Program[op])
           s == Step(t)
<1>1. op \in DOMAIN Program /\ k \in 1 .. n /\ n \in Nat /\ s = Program[op][k]
  BY StepFacts, Ends
<1>2. CASE /\ call'[t] \in Call /\ call'[t].op = op
           /\ at'[t] = k + 1 /\ k < n
  <2>1. call'[t] # Idle /\ Op(t)' = op /\ Step(t)' = Program[op][k + 1] /\ k + 1 \in 1 .. n
    BY <1>1, <1>2, CallFields DEF Op, Step
  <2>2. CallsInPlace'
    BY <1>1, <1>2, <2>1 DEF HandlersInv, CallsInPlace, Proceeds, Others, Op
  <2> HIDE DEF op, k, n, s
  <2>3. /\ k + 1 \in JournalHeld[op] <=> s = "journal" \/ (k \in JournalHeld[op] /\ s # "commit")
        /\ k + 1 \in GroupsHeld[op] <=> s = "gdt" \/ (k \in GroupsHeld[op] /\ s \notin {"edit", "commit"})
        /\ k + 1 \in Edited[op] <=> s \in {"edit", "remove"} \/ (k \in Edited[op] /\ s # "commit")
        /\ s # "leave" => Program[op][k + 1] \notin {"shared", "exclusive"}
    BY <1>1, <1>2, Steps DEF n
  <2> QED
    BY <1>2, <2>1, <2>2, <2>3 DEF InJournal, InGroups, InEdited, op, k, n, s
<1>3. CASE call'[t] = Idle /\ k = n
  <2>1. CallsInPlace'
    BY <1>3 DEF HandlersInv, CallsInPlace, Proceeds, Others, Op
  <2> HIDE DEF op, k, n, s
  <2>2. /\ s \notin {"journal", "gdt", "edit", "remove"} /\ k \notin JournalHeld[op]
        /\ k \notin GroupsHeld[op] /\ k \notin Edited[op]
    BY <1>1, <1>3, Steps, Ends DEF n
  <2>3. op \in Guarded => s = "leave"
    BY <1>1, <1>3, Ends DEF n
  <2> QED
    BY <1>3, <2>1, <2>2, <2>3 DEF InJournal, InGroups, InEdited, op, k, n, s
<1> QED
  BY <1>2, <1>3 DEF Proceeds

\* A thread that has given up holds neither mutex.
LEMMA StopsAt ==
  ASSUME HandlersInv, NEW t \in Thread, call[t] # Idle, Stops(t)
  PROVE  /\ CallsInPlace'
         /\ ~InJournal(t)' /\ ~InGroups(t)' /\ ~InEdited(t)'
         /\ \/ call'[t] # Idle /\ Op(t)' = Op(t) /\ Step(t)' = "leave"
            \/ call'[t] = Idle /\ Op(t) \notin Guarded
<1>1. /\ Op(t) \in DOMAIN Program /\ Len(Program[Op(t)]) \in Nat \ {0}
      /\ Len(Program[Op(t)]) \notin JournalHeld[Op(t)] /\ Len(Program[Op(t)]) \notin GroupsHeld[Op(t)]
      /\ Len(Program[Op(t)]) \notin Edited[Op(t)]
  BY StepFacts, Ends
<1>2. CASE call'[t] = Idle /\ Op(t) \notin Guarded
  BY <1>2 DEF HandlersInv, CallsInPlace, Stops, Others, Op, InJournal, InGroups, InEdited
<1>3. CASE /\ call'[t] = call[t] /\ at'[t] = Len(Program[Op(t)])
           /\ Program[Op(t)][Len(Program[Op(t)])] = "leave"
  BY <1>1, <1>3 DEF HandlersInv, CallsInPlace, Stops, Others, Op, Step, InJournal, InGroups, InEdited
<1> QED
  BY <1>2, <1>3 DEF Stops

-----------------------------------------------------------------------------
(* What the operators of Namespace make of a tree is a tree. *)

\* What can be reached is an inode.
LEMMA ReachableAreInodes == ASSUME NEW tree PROVE Reachable(tree) \subseteq Inode
BY DEF Reachable, ReachableFrom

\* What a tree is made of.
LEMMA TreeFields ==
  ASSUME NEW tree \in Tree
  PROVE  /\ tree.entries \in [Inode -> [Name -> Inode \cup {None}]] /\ tree.kind \in [Inode -> Kind]
         /\ tree.links \in [Inode -> Nat] /\ tree.up \in [Inode -> Inode] /\ tree.lost \in SUBSET Inode
BY DEF Tree

\* A tree without one entry is a tree.
LEMMA WithoutEntryTree ==
  ASSUME NEW tree \in Tree, NEW d \in Inode, NEW n \in Name
  PROVE  WithoutEntry(tree, d, n) \in Tree
BY DEF WithoutEntry, Tree

\* A tree with another link count is a tree.
LEMMA WithLinks ==
  ASSUME NEW tree \in Tree, NEW i \in Inode, NEW v \in Nat
  PROVE  [tree EXCEPT !.links[i] = v] \in Tree
BY DEF Tree

\* create_handle makes a tree of a tree.
LEMMA CreateTree ==
  ASSUME NEW tree \in Tree, NEW d \in Inode, NEW n \in Name, NEW i \in Inode,
         NEW k \in {"file", "dir"}, NEW links \in Nat
  PROVE  create_handle(tree, d, n, i, k, links) \in Tree
<1>1. NoEntries \in [Name -> Inode \cup {None}]
  BY DEF NoEntries
<1>2. init_inode(tree, i, k) \in Tree
  BY <1>1 DEF init_inode, Tree, Kind
<1> DEFINE start == init_inode(tree, i, k)
           named == [start EXCEPT !.entries[d][n] = i]
<1> HIDE DEF start
<1>3. named \in Tree
  BY <1>2 DEF Tree, start
<1> HIDE DEF named
<1>4. [named EXCEPT !.up[i] = d, !.links[d] = links + 1] \in Tree
  <2>1. links + 1 \in Nat
    OBVIOUS
  <2>2. ASSUME NEW v \in Nat PROVE [named EXCEPT !.up[i] = d, !.links[d] = v] \in Tree
    BY <1>3 DEF Tree
  <2> QED
    BY <2>1, <2>2
<1> QED
  BY <1>3, <1>4 DEF create_handle, named, start

\* So does do_delete: the link count it writes back is no less than zero.
LEMMA DeleteTree ==
  ASSUME NEW tree \in Tree, NEW d \in Inode, NEW n \in Name, NEW i \in Inode, NEW links \in Nat
  PROVE  do_delete(tree, d, n, i, links) \in Tree
<1> DEFINE removed == WithoutEntry(tree, d, n)
<1>1. removed \in Tree
  BY WithoutEntryTree
<1> HIDE DEF removed
<1>2. [removed EXCEPT !.kind[i] = "free", !.links[i] = 0] \in Tree
  BY <1>1 DEF Tree, Kind
<1>3. ASSUME links > 1
      PROVE  [removed EXCEPT !.links[i] = links - 1] \in Tree
  <2>1. links - 1 \in Nat
    BY <1>3
  <2> QED
    BY <1>1, <2>1, WithLinks
<1>4. links <= 1 \/ links > 1
  OBVIOUS
<1> QED
  BY <1>2, <1>3, <1>4 DEF do_delete, removed

\* So does dir_rename where it succeeds, also where it takes the target's place.
LEMMA RenameTree ==
  ASSUME NEW tree \in Tree, NEW sd \in Inode, NEW sn \in Name, NEW dd \in Inode, NEW dn \in Name,
         ~rename_fails(tree, sd, sn, dd, dn)
  PROVE  dir_rename(tree, sd, sn, dd, dn) \in Tree
<1> DEFINE i == tree.entries[sd][sn]
           old == tree.entries[dd][dn]
           bare == WithoutTarget(tree, dd, dn)
           added == [bare EXCEPT !.entries[dd][dn] = i]
           removed == WithoutEntry(added, sd, sn)
           moved == update_dotdot(removed, i, dd)
<1>1. i \in Inode /\ old \in Inode \cup {None}
  BY TreeFields DEF rename_fails
<1>2. bare \in Tree
  <2> DEFINE w == WithoutEntry(tree, dd, dn)
  <2>1. w \in Tree
    BY WithoutEntryTree
  <2> HIDE DEF w
  <2>2. ASSUME old \in Inode
        PROVE  [w EXCEPT !.lost = @ \cup {old}] \in Tree
    BY <2>1, <2>2 DEF Tree
  <2>3. ASSUME old \in Inode, tree.links[old] > 1
        PROVE  [w EXCEPT !.links[old] = @ - 1] \in Tree
    <3>1. w.links = tree.links /\ tree.links[old] \in Nat
      BY <2>3 DEF w, WithoutEntry, Tree
    <3>2. w.links[old] - 1 \in Nat
      BY <2>3, <3>1
    <3> QED
      BY <2>1, <2>3, <3>2, WithLinks
  <2>4. CASE old = None
    BY <2>4 DEF WithoutTarget
  <2>5. CASE old \in Inode
    <3>1. \/ bare = [w EXCEPT !.links[old] = @ - 1] /\ tree.links[old] > 1
          \/ bare = [w EXCEPT !.lost = @ \cup {old}]
      BY <2>5, NamespaceAssumption DEF WithoutTarget, w
    <3> QED
      BY <2>2, <2>3, <2>5, <3>1
  <2> QED
    BY <1>1, <2>4, <2>5
<1> HIDE DEF i, bare, old
<1>3. added \in Tree
  BY <1>1, <1>2 DEF Tree
<1> HIDE DEF added
<1>4. removed \in Tree
  BY <1>3, WithoutEntryTree
<1> HIDE DEF removed
<1>5. moved \in Tree
  <2>1. [n \in Name |-> IF removed.entries[i][n] = i THEN None ELSE removed.entries[i][n]]
          \in [Name -> Inode \cup {None}]
    BY <1>1, <1>4, TreeFields
  <2> QED
    BY <1>1, <1>4, <2>1 DEF update_dotdot, Tree
<1> HIDE DEF moved
<1>6. ASSUME NEW x \in Tree
      PROVE  [x EXCEPT !.lost = @ \cup {i}] \in Tree
  BY <1>1 DEF Tree
<1> QED
  BY <1>4, <1>5, <1>6 DEF dir_rename, i, bare, added, removed, moved

-----------------------------------------------------------------------------
(* The steps. *)

\* A step that goes on in its program keeps the locks where they belong.
LEMMA ProceedingLocks ==
  ASSUME HandlersInv, NEW t \in Thread, call[t] # Idle, Proceeds(t),
         Step(t) = "journal" => journal = None /\ journal' = t,
         Step(t) = "commit" => journal' = None,
         Step(t) \notin {"journal", "commit"} => journal' = journal,
         Step(t) = "gdt" => gdt = None /\ gdt' = t,
         Step(t) = "edit" => gdt' = None,
         Step(t) = "commit" => gdt' = IF gdt = t THEN None ELSE gdt,
         Step(t) \notin {"gdt", "edit", "commit"} => gdt' = gdt
  PROVE  CallsInPlace' /\ MutexesInPlace'
<1>1. CallsInPlace' /\ Others(t)
  BY ProceedsTo DEF Proceeds
<1>2. /\ journal \in Thread \cup {None} /\ gdt \in Thread \cup {None} /\ None \notin Thread
      /\ \A u \in Thread : (journal = u <=> InJournal(u)) /\ (gdt = u <=> InGroups(u))
  BY HandlersAssumption DEF HandlersInv, MutexesInPlace
<1>3. journal' \in Thread \cup {None} /\ gdt' \in Thread \cup {None}
  BY <1>2
<1>4. journal' = t <=> InJournal(t)'
  BY <1>2, ProceedsTo, StepFacts
<1>5. gdt' = t <=> InGroups(t)'
  BY <1>2, ProceedsTo, StepFacts
<1>6. ASSUME NEW u \in Thread \ {t}
      PROVE  (journal' = u <=> InJournal(u)') /\ (gdt' = u <=> InGroups(u)')
  <2>1. (InJournal(u)' <=> InJournal(u)) /\ (InGroups(u)' <=> InGroups(u))
    BY <1>1, OthersStay
  <2> QED
    BY <1>2, <2>1, StepFacts
<1> QED
  BY <1>1, <1>3, <1>4, <1>5, <1>6 DEF MutexesInPlace

\* So does a step that gives up and keeps what it has, where it has nothing.
LEMMA StoppingLocks ==
  ASSUME HandlersInv, NEW t \in Thread, call[t] # Idle, Stops(t),
         \/ UNCHANGED <<journal, gdt>> /\ ~InJournal(t)
         \/ InGroups(t) /\ journal' = None /\ gdt' = None
  PROVE  CallsInPlace' /\ MutexesInPlace'
<1>1. CallsInPlace' /\ Others(t) /\ ~InJournal(t)' /\ ~InGroups(t)'
  BY StopsAt DEF Stops
<1>2. /\ journal \in Thread \cup {None} /\ gdt \in Thread \cup {None} /\ None \notin Thread
      /\ \A u \in Thread : (journal = u <=> InJournal(u)) /\ (gdt = u <=> InGroups(u))
  BY HandlersAssumption DEF HandlersInv, MutexesInPlace
<1>3. InGroups(t) => InJournal(t)
  BY StepFacts
<1>4. ASSUME NEW u \in Thread \ {t}
      PROVE  (InJournal(u)' <=> InJournal(u)) /\ (InGroups(u)' <=> InGroups(u))
  BY <1>1, OthersStay
<1> QED
  BY <1>1, <1>2, <1>3, <1>4 DEF MutexesInPlace

\* A step that is not about WinFsp's guard leaves it where it belongs.
LEMMA GuardKept ==
  ASSUME HandlersInv, NEW t \in Thread, call[t] # Idle, Proceeds(t) \/ Stops(t),
         Step(t) \notin {"shared", "exclusive", "leave"}, UNCHANGED <<writer, readers>>
  PROVE  GuardInPlace'
<1>1. Others(t)
  BY DEF Proceeds, Stops
<1>2. \/ call'[t] # Idle /\ Op(t)' = Op(t) /\ Step(t)' \notin {"shared", "exclusive"}
      \/ call'[t] = Idle /\ Op(t) \notin Guarded
  BY ProceedsTo, StopsAt
<1>3. ASSUME NEW u \in Thread, writer = u \/ u \in readers
      PROVE  call'[u] # Idle /\ Op(u)' \in Guarded /\ Step(u)' \notin {"shared", "exclusive"}
  <2>1. call[u] # Idle /\ Op(u) \in Guarded /\ Step(u) \notin {"shared", "exclusive"}
    BY <1>3 DEF HandlersInv, GuardInPlace
  <2>2. CASE u = t
    BY <1>2, <2>1, <2>2
  <2>3. CASE u # t
    BY <1>1, <2>1, <2>3, OthersStay
  <2> QED
    BY <2>2, <2>3
<1>4. writer \in Thread \cup {None} /\ readers \subseteq Thread
  BY DEF HandlersInv, GuardInPlace
<1> QED
  BY <1>3, <1>4 DEF GuardInPlace

\* A step that neither edits nor commits leaves the transaction as it is.
LEMMA TreesKept ==
  ASSUME HandlersInv, NEW t \in Thread, call[t] # Idle,
         Proceeds(t) \/ (Stops(t) /\ ~InJournal(t)),
         Step(t) \notin {"edit", "remove", "commit"}, UNCHANGED <<ns, txn>>
  PROVE  TreesInPlace'
<1>1. InEdited(t)' <=> InEdited(t)
  BY ProceedsTo, StopsAt, StepFacts
<1>2. \A u \in Thread \ {t} : InEdited(u)' <=> InEdited(u)
  BY OthersStay DEF Proceeds, Stops
<1>3. /\ ns \in Tree /\ (txn = None \/ \E u \in Thread : InEdited(u))
      /\ \A u \in Thread : InEdited(u) => txn \in Tree
  BY DEF HandlersInv, TreesInPlace
<1>4. \A u \in Thread : InEdited(u)' <=> InEdited(u)
  BY <1>1, <1>2
<1> QED
  BY <1>3, <1>4 DEF HandlersInv, TreesInPlace

\* A step that touches neither the mutexes nor the trees.
LEMMA QuietStep ==
  ASSUME HandlersInv, NEW t \in Thread, call[t] # Idle,
         Proceeds(t) \/ (Stops(t) /\ ~InJournal(t)),
         Step(t) \in {"shared", "exclusive", "leave", "read", "sync", "check", "look"},
         UNCHANGED <<ns, txn, journal, gdt>>
  PROVE  CallsInPlace' /\ MutexesInPlace' /\ TreesInPlace'
<1>1. TreesInPlace'
  BY TreesKept
<1>2. CASE Proceeds(t)
  BY <1>1, <1>2, ProceedingLocks
<1>3. CASE Stops(t) /\ ~InJournal(t)
  BY <1>1, <1>3, StoppingLocks
<1> QED
  BY <1>2, <1>3

\* Entering and leaving WinFsp's guard.
LEMMA GuardSteps ==
  ASSUME HandlersInv, NEW t \in Thread, EnterShared(t) \/ EnterExclusive(t) \/ Leave(t)
  PROVE  HandlersInv'
<1>1. /\ call[t] # Idle /\ Advance(t) /\ UNCHANGED <<ns, txn, journal, gdt>>
      /\ Step(t) \in {"shared", "exclusive", "leave"}
  BY DEF EnterShared, EnterExclusive, Leave, Goes, At
<1>2. Proceeds(t) /\ Others(t)
  BY <1>1, AdvanceProceeds DEF Proceeds
<1>3. CallsInPlace' /\ MutexesInPlace' /\ TreesInPlace'
  BY <1>1, <1>2, QuietStep
<1>4. /\ writer \in Thread \cup {None} /\ readers \subseteq Thread
      /\ \A u \in Thread : writer = u \/ u \in readers =>
           call[u] # Idle /\ Op(u) \in Guarded /\ Step(u) \notin {"shared", "exclusive"}
  BY DEF HandlersInv, GuardInPlace
<1>5. \A u \in Thread \ {t} : call'[u] = call[u] /\ Op(u)' = Op(u) /\ (call[u] # Idle => Step(u)' = Step(u))
  BY <1>2, OthersStay
<1>6. CASE EnterShared(t) \/ EnterExclusive(t)
  <2>1. Step(t) \in {"shared", "exclusive"}
    BY <1>6 DEF EnterShared, EnterExclusive, Goes, At
  <2>2. call'[t] # Idle /\ Op(t)' \in Guarded /\ Step(t)' \notin {"shared", "exclusive"}
    BY <1>1, <1>2, <2>1, ProceedsTo, StepFacts
  <2>3. writer' \in {writer, t} /\ readers' \subseteq readers \cup {t}
    BY <1>6 DEF EnterShared, EnterExclusive
  <2>4. GuardInPlace'
    BY <1>4, <1>5, <2>2, <2>3 DEF GuardInPlace
  <2> QED
    BY <1>3, <2>4 DEF HandlersInv
<1>7. CASE Leave(t)
  <2>1. writer' = (IF writer = t THEN None ELSE writer) /\ readers' = readers \ {t}
    BY <1>7 DEF Leave
  <2>2. GuardInPlace'
    BY <1>4, <1>5, <2>1, HandlersAssumption DEF GuardInPlace
  <2> QED
    BY <1>3, <2>2 DEF HandlersInv
<1> QED
  BY <1>6, <1>7

\* Reading an inode, flushing, and the check in front of a deletion.
LEMMA ReadSteps ==
  ASSUME HandlersInv, NEW t \in Thread, ReadInode(t) \/ Sync(t) \/ Check(t)
  PROVE  HandlersInv'
<1>1. /\ call[t] # Idle
      /\ Advance(t) \/ (GiveUp(t) /\ Step(t) = "check")
      /\ Step(t) \in {"read", "sync", "check"}
      /\ UNCHANGED <<ns, txn, journal, gdt, writer, readers>>
  BY DEF ReadInode, Sync, Check, Goes, At, locks
<1>2. Proceeds(t) \/ (Stops(t) /\ ~InJournal(t))
  BY <1>1, AdvanceProceeds, GiveUpStops, StepFacts
<1>3. CallsInPlace' /\ MutexesInPlace' /\ TreesInPlace'
  BY <1>1, <1>2, QuietStep
<1>4. GuardInPlace'
  BY <1>1, <1>2, GuardKept
<1> QED
  BY <1>3, <1>4 DEF HandlersInv

\* What is read in front of the journal lock: the link count is a number.
LEMMA LookStep ==
  ASSUME HandlersInv, NEW t \in Thread, Look(t)
  PROVE  HandlersInv'
<1>1. call[t] # Idle /\ Step(t) = "look" /\ UNCHANGED <<ns, txn, journal, gdt, writer, readers>>
  BY DEF Look, Goes, At, locks
<1>2. /\ call[t] \in Call /\ Op(t) \in {"create", "rename", "delete", "rmdir"}
      /\ at[t] < Len(Program[Op(t)])
  BY <1>1, StepFacts, Steps
<1>3. Proceeds(t) \/ (Stops(t) /\ ~InJournal(t))
  <2>1. CASE GiveUp(t)
    BY <1>1, <2>1, GiveUpStops, StepFacts
  <2>2. CASE /\ at' = [at EXCEPT ![t] = @ + 1]
             /\ call' = IF call[t].op = "rename" THEN call ELSE [call EXCEPT ![t].links = LinksRead(call[t])]
    <3>1. call \in [Thread -> Call \cup {Idle}] /\ at \in [Thread -> Nat]
      BY DEF HandlersInv, CallsInPlace
    <3>2. Op(t) # "rename" => LinksRead(call[t]) \in Nat
      BY <1>2, CallFields, TreeFields DEF HandlersInv, TreesInPlace, LinksRead, Op
    <3>3. ASSUME NEW v \in Nat, Op(t) # "rename"
          PROVE  [call[t] EXCEPT !.links = v] \in Call /\ [call[t] EXCEPT !.links = v].op = Op(t)
      BY <1>2, <3>3 DEF Call, Op
    <3>4. call'[t] \in Call /\ call'[t].op = Op(t)
      BY <1>2, <2>2, <3>1, <3>2, <3>3 DEF Op
    <3>5. call' \in [Thread -> Call \cup {Idle}] /\ at' \in [Thread -> Nat]
          /\ \A u \in Thread \ {t} : call'[u] = call[u] /\ at'[u] = at[u]
      BY <2>2, <3>1, <3>4
    <3> QED
      BY <1>2, <2>2, <3>1, <3>4, <3>5 DEF Proceeds, Others
  <2> QED
    BY <2>1, <2>2 DEF Look
<1>4. CallsInPlace' /\ MutexesInPlace' /\ TreesInPlace'
  BY <1>1, <1>3, QuietStep
<1>5. GuardInPlace'
  BY <1>1, <1>3, GuardKept
<1> QED
  BY <1>4, <1>5 DEF HandlersInv

\* Taking a mutex that is free.
LEMMA LockSteps ==
  ASSUME HandlersInv, NEW t \in Thread, LockJournal(t) \/ LockGroups(t)
  PROVE  HandlersInv'
<1>1. /\ call[t] # Idle /\ Advance(t) /\ UNCHANGED <<ns, txn, writer, readers>>
      /\ \/ Step(t) = "journal" /\ journal = None /\ journal' = t /\ gdt' = gdt
         \/ Step(t) = "gdt" /\ gdt = None /\ gdt' = t /\ journal' = journal
  BY DEF LockJournal, LockGroups, Goes, At, MayGo
<1>2. Proceeds(t)
  BY <1>1, AdvanceProceeds
<1>3. CallsInPlace' /\ MutexesInPlace'
  BY <1>1, <1>2, ProceedingLocks
<1>4. GuardInPlace' /\ TreesInPlace'
  BY <1>1, <1>2, GuardKept, TreesKept
<1> QED
  BY <1>3, <1>4 DEF HandlersInv

\* One transaction at a time.
LEMMA OnlyOneEdited ==
  ASSUME HandlersInv, NEW t \in Thread, InJournal(t), NEW u \in Thread \ {t}
  PROVE  ~InEdited(u)
<1>1. InEdited(u) => InJournal(u)
  BY StepFacts DEF InEdited
<1> QED
  BY <1>1 DEF HandlersInv, MutexesInPlace

\* What an edit leaves is a tree.
LEMMA EditsTyped ==
  ASSUME ns \in Tree, NEW c \in Call
  PROVE  Edits(ns, c) \subseteq Tree
<1>1. CASE c.op = "create"
  BY <1>1, CallFields, CreateTree DEF Edits
<1>2. CASE c.op = "rename"
  BY <1>2, CallFields, RenameTree DEF Edits
<1>3. CASE c.op \in {"delete", "rmdir"}
  BY <1>3, CallFields, DeleteTree DEF Edits
<1>4. CASE c.op \notin {"create", "rename", "delete", "rmdir"}
  BY <1>4 DEF Edits
<1> QED
  BY <1>1, <1>2, <1>3, <1>4

\* An edit opens the transaction, or fails and gives both mutexes back.
LEMMA EditStep ==
  ASSUME HandlersInv, NEW t \in Thread, Edit(t)
  PROVE  HandlersInv'
<1>1. call[t] # Idle /\ Step(t) \in {"edit", "remove"} /\ UNCHANGED <<ns, writer, readers>>
  BY DEF Edit
<1>2. InGroups(t) /\ InJournal(t) /\ ~InEdited(t) /\ call[t] \in Call
  BY <1>1, StepFacts
<1>3. ns \in Tree /\ (txn = None \/ \E u \in Thread : InEdited(u))
  BY DEF HandlersInv, TreesInPlace
<1>4. CASE /\ \E new \in Edits(ns, call[t]) : txn' = new
           /\ gdt' = IF Step(t) = "edit" THEN None ELSE gdt
           /\ Advance(t)
           /\ UNCHANGED journal
  <2>1. Proceeds(t)
    BY <1>1, <1>4, AdvanceProceeds
  <2>2. CallsInPlace' /\ MutexesInPlace'
    BY <1>1, <1>4, <2>1, ProceedingLocks
  <2>3. GuardInPlace'
    BY <1>1, <2>1, GuardKept
  <2>4. txn' \in Tree
    BY <1>2, <1>3, <1>4, EditsTyped
  <2>5. InEdited(t)'
    BY <1>1, <2>1, ProceedsTo
  <2>6. TreesInPlace'
    BY <1>1, <1>3, <2>4, <2>5 DEF TreesInPlace
  <2> QED
    BY <2>2, <2>3, <2>6 DEF HandlersInv
<1>5. CASE gdt' = None /\ journal' = None /\ GiveUp(t) /\ UNCHANGED txn
  <2>1. Stops(t) /\ Others(t)
    BY <1>1, <1>5, GiveUpStops DEF Stops
  <2>2. CallsInPlace' /\ MutexesInPlace'
    BY <1>1, <1>2, <1>5, <2>1, StoppingLocks
  <2>3. GuardInPlace'
    BY <1>1, <2>1, GuardKept
  <2>4. \A u \in Thread : ~InEdited(u)
    BY <1>1, <1>2, OnlyOneEdited
  <2>5. \A u \in Thread : ~InEdited(u)'
    BY <1>1, <2>1, <2>4, OthersStay, StopsAt
  <2>6. TreesInPlace'
    BY <1>1, <1>3, <1>5, <2>4, <2>5 DEF TreesInPlace
  <2> QED
    BY <2>2, <2>3, <2>6 DEF HandlersInv
<1> QED
  BY <1>4, <1>5 DEF Edit

\* What the transaction has becomes the tree, and no transaction is left.
LEMMA CommitStep ==
  ASSUME HandlersInv, NEW t \in Thread, Commit(t)
  PROVE  HandlersInv'
<1>1. /\ call[t] # Idle /\ Step(t) = "commit" /\ Advance(t)
      /\ ns' = txn /\ txn' = None /\ journal' = None
      /\ gdt' = IF gdt = t THEN None ELSE gdt
      /\ UNCHANGED <<writer, readers>>
  BY DEF Commit, Goes, At
<1>2. InJournal(t) /\ InEdited(t)
  BY <1>1, StepFacts
<1>3. Proceeds(t) /\ Others(t)
  BY <1>1, AdvanceProceeds DEF Proceeds
<1>4. CallsInPlace' /\ MutexesInPlace'
  BY <1>1, <1>3, ProceedingLocks
<1>5. GuardInPlace'
  BY <1>1, <1>3, GuardKept
<1>6. ~InEdited(t)'
  BY <1>1, <1>3, ProceedsTo
<1>7. \A u \in Thread \ {t} : ~InEdited(u)'
  BY <1>2, <1>3, OnlyOneEdited, OthersStay
<1>8. txn \in Tree
  BY <1>2 DEF HandlersInv, TreesInPlace
<1>9. TreesInPlace'
  BY <1>1, <1>6, <1>7, <1>8 DEF TreesInPlace
<1> QED
  BY <1>4, <1>5, <1>9 DEF HandlersInv

\* What a thread may ask for is a call.
LEMMA CallsTyped ==
  ASSUME ns \in Tree, NEW t \in Thread
  PROVE  Calls(t) \subseteq Call
<1>1. Reachable(ns) \subseteq Inode
  BY ReachableAreInodes
<1>2. \A d \in Inode, n \in Name : ns.entries[d][n] # None => ns.entries[d][n] \in Inode
  BY TreeFields
<1> QED
  BY <1>1, <1>2 DEF Calls, Creations, Renamings, Deletions, Call

\* A call begins with nothing held.
LEMMA BeginStep ==
  ASSUME HandlersInv, NEW t \in Thread, Begin(t)
  PROVE  HandlersInv'
<1>1. /\ call[t] = Idle /\ at' = [at EXCEPT ![t] = 1]
      /\ UNCHANGED <<ns, txn, journal, gdt, writer, readers>>
  BY DEF Begin, locks
<1>2. call \in [Thread -> Call \cup {Idle}] /\ at \in [Thread -> Nat] /\ ns \in Tree
  BY DEF HandlersInv, CallsInPlace, TreesInPlace
<1>3. PICK c \in Call : call' = [call EXCEPT ![t] = c]
  BY <1>2, CallsTyped DEF Begin
<1>4. Others(t) /\ call'[t] = c /\ at'[t] = 1
  BY <1>1, <1>2, <1>3 DEF Others
<1>5. c.op \in DOMAIN Program /\ Len(Program[c.op]) \in Nat \ {0} /\ c # Idle
  BY CallFields, Ends
<1>6. CallsInPlace'
  <2> SUFFICES ASSUME NEW u \in Thread, call'[u] # Idle
               PROVE  at'[u] \in 1 .. Len(Program[Op(u)'])
    BY <1>4 DEF CallsInPlace, Others
  <2>1. CASE u = t
    BY <1>4, <1>5, <2>1 DEF Op
  <2>2. CASE u # t
    BY <1>4, <2>2 DEF HandlersInv, CallsInPlace, Others, Op
  <2> QED
    BY <2>1, <2>2
<1>7. ~InJournal(t)' /\ ~InGroups(t)' /\ ~InEdited(t)'
  BY <1>4, <1>5, Ends DEF InJournal, InGroups, InEdited, Op
<1>8. ~InJournal(t) /\ ~InGroups(t) /\ ~InEdited(t)
  BY <1>1 DEF InJournal, InGroups, InEdited
<1>9. \A u \in Thread : /\ InJournal(u)' <=> InJournal(u)
                        /\ InGroups(u)' <=> InGroups(u)
                        /\ InEdited(u)' <=> InEdited(u)
  BY <1>4, <1>7, <1>8, OthersStay
<1>10. MutexesInPlace' /\ TreesInPlace'
  BY <1>1, <1>9 DEF HandlersInv, MutexesInPlace, TreesInPlace
<1>11. GuardInPlace'
  BY <1>1, <1>4, OthersStay DEF HandlersInv, GuardInPlace
<1> QED
  BY <1>6, <1>10, <1>11 DEF HandlersInv

-----------------------------------------------------------------------------
(* The invariant, and what follows from it. *)

\* Initially no call is made and no lock is held.
LEMMA InitHandlers == ASSUME Init PROVE HandlersInv
<1> USE HandlersAssumption DEF Init
<1>1. CallsInPlace
  BY DEF CallsInPlace
<1>2. MutexesInPlace
  BY DEF MutexesInPlace, InJournal, InGroups
<1>3. GuardInPlace
  BY DEF GuardInPlace
<1>4. TreesInPlace
  BY DEF TreesInPlace, InEdited
<1> QED
  BY <1>1, <1>2, <1>3, <1>4 DEF HandlersInv

\* Every step keeps the invariant.
LEMMA HandlersStep == ASSUME HandlersInv, [Next]_vars PROVE HandlersInv'
<1>1. CASE UNCHANGED vars
  BY <1>1 DEF vars, locks, HandlersInv, CallsInPlace, MutexesInPlace, GuardInPlace, TreesInPlace,
              InJournal, InGroups, InEdited, Op, Step
<1>2. CASE \E t \in Thread : Begin(t)
  BY <1>2, BeginStep
<1>3. CASE \E t \in Thread : StepOf(t)
  <2>1. PICK t \in Thread : StepOf(t)
    BY <1>3
  <2>2. CASE EnterShared(t) \/ EnterExclusive(t) \/ Leave(t)
    BY <2>2, GuardSteps
  <2>3. CASE ReadInode(t) \/ Sync(t) \/ Check(t)
    BY <2>3, ReadSteps
  <2>4. CASE Look(t)
    BY <2>4, LookStep
  <2>5. CASE LockJournal(t) \/ LockGroups(t)
    BY <2>5, LockSteps
  <2>6. CASE Edit(t)
    BY <2>6, EditStep
  <2>7. CASE Commit(t)
    BY <2>7, CommitStep
  <2> QED
    BY <2>1, <2>2, <2>3, <2>4, <2>5, <2>6, <2>7 DEF StepOf
<1> QED
  BY <1>1, <1>2, <1>3 DEF Next

\* Every lock is held by the thread whose call is where its program holds it,
\* and by no other; a transaction is open only under the journal lock.
THEOREM HandlersInvariant == Spec => []HandlersInv
<1>1. Init => HandlersInv
  BY InitHandlers
<1>2. HandlersInv /\ [Next]_vars => HandlersInv'
  BY HandlersStep
<1> QED
  BY <1>1, <1>2, PTL DEF Spec

\* Calls, trees and locks have their types, and who holds a lock makes a call:
\* a call that returns or fails has given back what it took.
THEOREM HandlersTypeTheorem == Spec => []HandlersTypeOK
<1>1. ASSUME HandlersInv PROVE HandlersTypeOK
  <2>1. CallsInPlace /\ MutexesInPlace /\ GuardInPlace /\ TreesInPlace
    BY <1>1 DEF HandlersInv
  <2>2. \A t \in Thread : /\ InGroups(t) => InJournal(t)
                          /\ InEdited(t) => InJournal(t)
    BY <1>1, StepFacts DEF InGroups, InEdited
  <2>3. txn # None => txn \in Tree /\ journal # None
    BY <2>1, <2>2, HandlersAssumption DEF TreesInPlace, MutexesInPlace
  <2>4. \A t \in Thread : call[t] # Idle => at[t] \in DOMAIN Program[call[t].op]
    <3> SUFFICES ASSUME NEW t \in Thread, call[t] # Idle
                 PROVE  at[t] \in DOMAIN Program[call[t].op]
      OBVIOUS
    <3>1. call[t].op \in DOMAIN Program /\ at[t] \in 1 .. Len(Program[call[t].op])
      BY <1>1, StepFacts DEF Op
    <3> QED
      BY <3>1, Steps
  <2>5. {journal, gdt, writer} \cap Thread \subseteq Calling /\ readers \subseteq Calling
    BY <2>1 DEF MutexesInPlace, GuardInPlace, InJournal, InGroups, Calling
  <2>6. gdt # None => journal = gdt
    BY <2>1, <2>2 DEF MutexesInPlace
  <2> QED
    BY <2>1, <2>3, <2>4, <2>5, <2>6 DEF HandlersTypeOK, CallsInPlace, TreesInPlace
<1> QED
  BY <1>1, HandlersInvariant, PTL

\* Whatever the number of threads, the calls and the tree: the calls never all
\* wait for one another.  Who has the group lock waits for nothing but that
\* lock; else who has the journal goes on; else who has WinFsp's guard.
THEOREM NoDeadlockTheorem == Spec => []NoDeadlock
<1>1. ASSUME HandlersInv PROVE NoDeadlock
  <2> SUFFICES ASSUME ~Hung, NEW c \in Thread, call[c] # Idle
               PROVE  \E t \in Thread : call[t] # Idle /\ MayGo(t)
    BY DEF NoDeadlock, Calling
  <2>1. MutexesInPlace /\ GuardInPlace
    BY <1>1 DEF HandlersInv
  <2>2. CASE gdt # None
    <3>1. gdt \in Thread /\ InGroups(gdt) /\ call[gdt] # Idle
      BY <2>1, <2>2 DEF MutexesInPlace, InGroups
    <3>2. Step(gdt) \in {"edit", "remove", "commit"}
      BY <1>1, <3>1, StepFacts DEF Hung, At
    <3> QED
      BY <3>1, <3>2 DEF MayGo
  <2>3. CASE gdt = None /\ journal # None
    <3>1. journal \in Thread /\ InJournal(journal) /\ call[journal] # Idle
      BY <2>1, <2>3 DEF MutexesInPlace, InJournal
    <3>2. Step(journal) \notin {"journal", "sync", "shared", "exclusive"}
      BY <1>1, <3>1, StepFacts
    <3> QED
      BY <2>3, <3>1, <3>2 DEF MayGo
  <2>4. CASE /\ gdt = None /\ journal = None
             /\ \E t \in Thread : writer = t \/ t \in readers
    <3>1. PICK t \in Thread : writer = t \/ t \in readers
      BY <2>4
    <3>2. call[t] # Idle /\ Step(t) \notin {"shared", "exclusive"}
      BY <2>1, <3>1 DEF GuardInPlace
    <3> QED
      BY <2>4, <3>2 DEF MayGo
  <2>5. CASE /\ gdt = None /\ journal = None
             /\ ~\E t \in Thread : writer = t \/ t \in readers
    <3>1. writer = None /\ readers = {}
      BY <2>1, <2>5 DEF GuardInPlace
    <3> QED
      BY <2>5, <3>1 DEF MayGo
  <2> QED
    BY <2>2, <2>3, <2>4, <2>5
<1> QED
  BY <1>1, HandlersInvariant, PTL

-----------------------------------------------------------------------------
(* What the operators of Namespace make of the names. *)

\* The names of an inode are finitely many.
LEMMA NamesOfInode ==
  ASSUME NEW tree \in Tree, NEW i \in Inode
  PROVE  /\ IsFiniteSet(Names(tree, i)) /\ Cardinality(Names(tree, i)) \in Nat
         /\ Names(tree, i) \subseteq Inode \X Name
         /\ \A d \in Inode, n \in Name :
              <<d, n>> \in Names(tree, i) <=> tree.kind[d] = "dir" /\ tree.entries[d][n] = i
<1>1. IsFiniteSet(Inode \X Name)
  BY NamespaceAssumption, FS_Product
<1>2. Names(tree, i) \in SUBSET (Inode \X Name)
  BY DEF Names
<1>3. IsFiniteSet(Names(tree, i))
  BY <1>1, <1>2, FS_Subset
<1>4. Cardinality(Names(tree, i)) \in Nat
  BY <1>3, FS_CardinalityType
<1>5. \A d \in Inode, n \in Name :
        <<d, n>> \in Names(tree, i) <=> tree.kind[d] = "dir" /\ tree.entries[d][n] = i
  BY DEF Names
<1> QED
  BY <1>2, <1>3, <1>4, <1>5

\* One name more or less.
LEMMA OneName ==
  ASSUME NEW S, NEW e, IsFiniteSet(S)
  PROVE  /\ IsFiniteSet(S \ {e}) /\ IsFiniteSet(S \cup {e})
         /\ Cardinality(S) \in Nat
         /\ e \in S => Cardinality(S \ {e}) = Cardinality(S) - 1 /\ Cardinality(S) >= 1
         /\ e \notin S => Cardinality(S \ {e}) = Cardinality(S)
                          /\ Cardinality(S \cup {e}) = Cardinality(S) + 1
         /\ Cardinality(S) <= 1 /\ e \in S => S = {e}
<1>1. IsFiniteSet(S \ {e}) /\ Cardinality(S) \in Nat /\ Cardinality(S \ {e}) \in Nat
  BY FS_RemoveElement, FS_CardinalityType
<1>2. Cardinality(S \ {e}) = IF e \in S THEN Cardinality(S) - 1 ELSE Cardinality(S)
  BY FS_RemoveElement
<1>3. IsFiniteSet(S \cup {e}) /\ Cardinality(S \cup {e}) = IF e \in S THEN Cardinality(S) ELSE Cardinality(S) + 1
  BY FS_AddElement
<1>4. ASSUME Cardinality(S) <= 1, e \in S PROVE S = {e}
  <2>1. Cardinality(S \ {e}) = 0
    BY <1>1, <1>2, <1>4
  <2>2. S \ {e} = {}
    BY <1>1, <2>1, FS_EmptySet
  <2> QED
    BY <1>4, <2>2
<1> QED
  BY <1>1, <1>2, <1>3, <1>4

\* A tree as far as every call keeps it, with WinFsp's guard or without.
Live(tree) ==
  /\ tree \in Tree
  /\ tree.kind[Root] = "dir" /\ Names(tree, Root) = {}
  /\ LinksCoverNames(tree)

\* What an edit leaves of the names it is not about: directories stay, and what
\* another name stands for is still a file, with no more names than before.
Keeps(old, new, own) ==
  /\ \A d \in Inode : old.kind[d] = "dir" => new.kind[d] = "dir"
  /\ \A d \in Inode, n \in Name :
       <<d, n>> \notin own /\ old.kind[d] = "dir" /\ old.entries[d][n] # None
         /\ old.kind[old.entries[d][n]] = "file" =>
           LET j == old.entries[d][n] IN
             /\ new.entries[d][n] = j /\ new.kind[j] = "file"
             /\ Cardinality(Names(new, j)) <= Cardinality(Names(old, j))

\* What create_handle makes of a tree.
LEMMA CreateFields ==
  ASSUME NEW tree \in Tree, NEW d \in Inode, NEW n \in Name, NEW i \in Inode,
         NEW k \in {"file", "dir"}, NEW links \in Nat, i # d
  PROVE  LET new == create_handle(tree, d, n, i, k, links) IN
    /\ new \in Tree
    /\ \A x \in Inode : new.kind[x] = IF x = i THEN k ELSE tree.kind[x]
    /\ \A x \in Inode, m \in Name :
         new.entries[x][m] = IF x = d /\ m = n THEN i ELSE IF x = i THEN None ELSE tree.entries[x][m]
    /\ new.links[i] = 1
    /\ \A x \in Inode \ {i, d} : new.links[x] = tree.links[x]
    /\ new.lost = tree.lost
    /\ \A x \in Inode : new.up[x] = IF x = i /\ k = "dir" THEN d ELSE tree.up[x]
<1> DEFINE new == create_handle(tree, d, n, i, k, links)
           start == init_inode(tree, i, k)
           named == [start EXCEPT !.entries[d][n] = i]
<1>1. new \in Tree
  BY CreateTree
<1>2. NoEntries \in [Name -> Inode \cup {None}] /\ \A m \in Name : NoEntries[m] = None
  BY DEF NoEntries
<1>3. /\ start \in Tree
      /\ start.kind = [tree.kind EXCEPT ![i] = k]
      /\ start.entries = [tree.entries EXCEPT ![i] = NoEntries]
      /\ start.links = [tree.links EXCEPT ![i] = 1]
      /\ start.lost = tree.lost /\ start.up = tree.up
  BY <1>2 DEF init_inode, Tree, Kind
<1> HIDE DEF start
<1>4. /\ named.kind = start.kind /\ named.links = start.links /\ named.lost = start.lost
      /\ named.up = start.up /\ named.entries = [start.entries EXCEPT ![d][n] = i]
      /\ named \in Tree
  BY <1>3 DEF Tree, named
<1> HIDE DEF named
<1>5. \A x \in Inode, m \in Name :
        named.entries[x][m] = IF x = d /\ m = n THEN i ELSE IF x = i THEN None ELSE tree.entries[x][m]
  <2> SUFFICES ASSUME NEW x \in Inode, NEW m \in Name
               PROVE  named.entries[x][m] = IF x = d /\ m = n THEN i ELSE IF x = i THEN None ELSE tree.entries[x][m]
    OBVIOUS
  <2>1. start.entries[x][m] = IF x = i THEN None ELSE tree.entries[x][m]
    BY <1>2, <1>3, TreeFields
  <2>2. start.entries \in [Inode -> [Name -> Inode \cup {None}]]
    BY <1>3, TreeFields
  <2>3. named.entries[x][m] = IF x = d /\ m = n THEN i ELSE start.entries[x][m]
    BY <1>4, <2>2
  <2> QED
    BY <2>1, <2>3
<1>6. new = IF k = "file" THEN named ELSE [named EXCEPT !.up[i] = d, !.links[d] = links + 1]
  BY DEF create_handle, named, start
<1>7. /\ new.kind = named.kind /\ new.entries = named.entries /\ new.lost = named.lost
      /\ new.links = (IF k = "file" THEN named.links ELSE [named.links EXCEPT ![d] = links + 1])
      /\ new.up = (IF k = "file" THEN named.up ELSE [named.up EXCEPT ![i] = d])
  BY <1>4, <1>6 DEF Tree
<1> HIDE DEF new
<1>8. \A x \in Inode : new.kind[x] = IF x = i THEN k ELSE tree.kind[x]
  BY <1>3, <1>4, <1>7, TreeFields
<1>9. new.links[i] = 1 /\ \A x \in Inode \ {i, d} : new.links[x] = tree.links[x]
  BY <1>3, <1>4, <1>7, TreeFields
<1>10. \A x \in Inode : new.up[x] = IF x = i /\ k = "dir" THEN d ELSE tree.up[x]
  BY <1>3, <1>4, <1>7, TreeFields
<1> QED
  BY <1>1, <1>3, <1>4, <1>5, <1>7, <1>8, <1>9, <1>10 DEF new

\* What do_delete makes of it.
LEMMA DeleteFields ==
  ASSUME NEW tree \in Tree, NEW d \in Inode, NEW n \in Name, NEW i \in Inode, NEW links \in Nat
  PROVE  LET new == do_delete(tree, d, n, i, links) IN
    /\ new \in Tree
    /\ \A x \in Inode : new.kind[x] = IF x = i /\ links <= 1 THEN "free" ELSE tree.kind[x]
    /\ \A x \in Inode, m \in Name : new.entries[x][m] = IF x = d /\ m = n THEN None ELSE tree.entries[x][m]
    /\ \A x \in Inode : new.links[x] = IF x = i THEN (IF links <= 1 THEN 0 ELSE links - 1) ELSE tree.links[x]
    /\ new.lost = tree.lost /\ new.up = tree.up
<1> DEFINE new == do_delete(tree, d, n, i, links)
           removed == WithoutEntry(tree, d, n)
<1>1. new \in Tree
  BY DeleteTree
<1>2. /\ removed.kind = tree.kind /\ removed.links = tree.links /\ removed.lost = tree.lost
      /\ removed.up = tree.up /\ removed.entries = [tree.entries EXCEPT ![d][n] = None]
      /\ removed \in Tree
  BY DEF WithoutEntry, Tree
<1>3. new = IF links <= 1 THEN [removed EXCEPT !.kind[i] = "free", !.links[i] = 0]
            ELSE [removed EXCEPT !.links[i] = links - 1]
  BY DEF do_delete
<1> HIDE DEF removed
<1>4. /\ new.entries = removed.entries /\ new.lost = removed.lost /\ new.up = removed.up
      /\ new.kind = (IF links <= 1 THEN [removed.kind EXCEPT ![i] = "free"] ELSE removed.kind)
      /\ new.links = (IF links <= 1 THEN [removed.links EXCEPT ![i] = 0]
                      ELSE [removed.links EXCEPT ![i] = links - 1])
  BY <1>2, <1>3 DEF Tree
<1> HIDE DEF new
<1>5. \A x \in Inode, m \in Name : new.entries[x][m] = IF x = d /\ m = n THEN None ELSE tree.entries[x][m]
  BY <1>2, <1>4, TreeFields
<1>6. \A x \in Inode : new.kind[x] = IF x = i /\ links <= 1 THEN "free" ELSE tree.kind[x]
  BY <1>2, <1>4, TreeFields
<1>7. \A x \in Inode : new.links[x] = IF x = i THEN (IF links <= 1 THEN 0 ELSE links - 1) ELSE tree.links[x]
  BY <1>2, <1>4, TreeFields
<1> QED
  BY <1>1, <1>2, <1>4, <1>5, <1>6, <1>7 DEF new

\* The directory update_dotdot is called for.
Moves(tree, sd, i, dd) == tree.kind[i] = "dir" /\ sd # dd

\* The target keeps its inode's last link.
Drops(tree, j) == j # None /\ tree.kind[j] = "file" /\ tree.links[j] > 1

\* What dir_rename makes of it where it succeeds.
LEMMA RenameFields ==
  ASSUME NEW tree \in Tree, NEW sd \in Inode, NEW sn \in Name, NEW dd \in Inode, NEW dn \in Name,
         ~rename_fails(tree, sd, sn, dd, dn)
  PROVE  LET new == dir_rename(tree, sd, sn, dd, dn)
             i == tree.entries[sd][sn]
             j == tree.entries[dd][dn]
         IN
    /\ new \in Tree /\ i \in Inode /\ j \in Inode \cup {None}
    /\ new.kind = tree.kind
    /\ \A x \in Inode, m \in Name :
         new.entries[x][m] =
           IF x = sd /\ m = sn THEN None
           ELSE IF x = dd /\ m = dn THEN (IF Moves(tree, sd, i, dd) /\ i = dd THEN None ELSE i)
           ELSE IF Moves(tree, sd, i, dd) /\ i = dd /\ x = i /\ tree.entries[x][m] = i THEN None
           ELSE tree.entries[x][m]
    /\ \A x \in Inode : new.links[x] = IF Drops(tree, j) /\ x = j THEN tree.links[x] - 1 ELSE tree.links[x]
    /\ new.lost = tree.lost \cup (IF j = None \/ Drops(tree, j) THEN {} ELSE {j})
                            \cup (IF MovesBelowItself(tree, sd, sn, dd) THEN {i} ELSE {})
    /\ \A x \in Inode : new.up[x] = IF x = i /\ Moves(tree, sd, i, dd) THEN dd ELSE tree.up[x]
<1> DEFINE new == dir_rename(tree, sd, sn, dd, dn)
           i == tree.entries[sd][sn]
           j == tree.entries[dd][dn]
           below == MovesBelowItself(tree, sd, sn, dd)
           bare == WithoutTarget(tree, dd, dn)
           added == [bare EXCEPT !.entries[dd][dn] = i]
           removed == WithoutEntry(added, sd, sn)
           moved == update_dotdot(removed, i, dd)
           before == IF Moves(tree, sd, i, dd) THEN moved ELSE removed
<1>1. i \in Inode /\ j \in Inode \cup {None} /\ new \in Tree
  BY TreeFields, RenameTree DEF rename_fails
<1>2. new = IF below THEN [before EXCEPT !.lost = @ \cup {i}] ELSE before
  BY DEF dir_rename, Moves
<1> HIDE DEF new, below
<1>3. /\ bare.kind = tree.kind /\ bare.up = tree.up
      /\ j = None => bare = tree
      /\ j # None => bare.entries = [tree.entries EXCEPT ![dd][dn] = None]
      /\ bare.links = IF Drops(tree, j) THEN [tree.links EXCEPT ![j] = @ - 1] ELSE tree.links
      /\ bare.lost = IF j = None \/ Drops(tree, j) THEN tree.lost ELSE tree.lost \cup {j}
      /\ DOMAIN bare = DOMAIN tree
  <2> DEFINE w == WithoutEntry(tree, dd, dn)
  <2>1. /\ w.kind = tree.kind /\ w.up = tree.up /\ w.links = tree.links /\ w.lost = tree.lost
        /\ w.entries = [tree.entries EXCEPT ![dd][dn] = None] /\ DOMAIN w = DOMAIN tree
        /\ w \in Tree
    BY DEF WithoutEntry, Tree
  <2>2. bare = IF j = None THEN tree
               ELSE IF Drops(tree, j) THEN [w EXCEPT !.links[j] = @ - 1] ELSE [w EXCEPT !.lost = @ \cup {j}]
    BY DEF WithoutTarget, Drops
  <2> HIDE DEF w, bare, i, j
  <2>3. CASE j = None
    BY <2>2, <2>3 DEF Drops
  <2>4. CASE j # None /\ Drops(tree, j)
    BY <2>1, <2>2, <2>4 DEF Tree
  <2>5. CASE j # None /\ ~Drops(tree, j)
    BY <2>1, <2>2, <2>5 DEF Tree
  <2> QED
    BY <2>3, <2>4, <2>5
<1>4. DOMAIN tree = {"entries", "kind", "links", "up", "lost"}
      /\ tree.entries \in [Inode -> [Name -> Inode \cup {None}]] /\ tree.kind \in [Inode -> Kind]
      /\ tree.links \in [Inode -> Nat] /\ tree.up \in [Inode -> Inode] /\ tree.lost \in SUBSET Inode
  BY DEF Tree
<1> HIDE DEF bare, i, j
<1>5. bare.entries \in [Inode -> [Name -> Inode \cup {None}]]
  <2>1. [tree.entries EXCEPT ![dd][dn] = None] \in [Inode -> [Name -> Inode \cup {None}]]
    BY <1>4
  <2> QED
    BY <1>3, <1>4, <2>1
<1>6. \A x \in Inode, m \in Name : x # dd \/ m # dn => bare.entries[x][m] = tree.entries[x][m]
  BY <1>3, <1>4
<1>7. /\ added.entries = [bare.entries EXCEPT ![dd][dn] = i]
      /\ added.kind = bare.kind /\ added.links = bare.links /\ added.lost = bare.lost /\ added.up = bare.up
      /\ DOMAIN added = DOMAIN tree
  BY <1>3, <1>4
<1> HIDE DEF added
<1>8. /\ removed.entries = [added.entries EXCEPT ![sd][sn] = None]
      /\ removed.kind = tree.kind /\ removed.links = bare.links /\ removed.lost = bare.lost
      /\ removed.up = tree.up /\ DOMAIN removed = DOMAIN tree
  BY <1>3, <1>4, <1>7 DEF WithoutEntry
<1> HIDE DEF removed
<1>9. /\ moved.up = [tree.up EXCEPT ![i] = dd]
      /\ moved.entries = [removed.entries EXCEPT ![i] =
           IF i = dd THEN [n \in Name |-> IF @[n] = i THEN None ELSE @[n]] ELSE @]
      /\ moved.kind = tree.kind /\ moved.links = bare.links /\ moved.lost = bare.lost
      /\ DOMAIN moved = DOMAIN tree
  BY <1>4, <1>8 DEF update_dotdot
<1> HIDE DEF moved
<1>10. /\ before.kind = tree.kind /\ before.links = bare.links /\ before.lost = bare.lost
       /\ DOMAIN before = DOMAIN tree
       /\ before.up = IF Moves(tree, sd, i, dd) THEN moved.up ELSE removed.up
       /\ before.entries = IF Moves(tree, sd, i, dd) THEN moved.entries ELSE removed.entries
  BY <1>8, <1>9
<1> HIDE DEF before
<1>11. /\ new.kind = tree.kind /\ new.links = bare.links /\ new.up = before.up /\ new.entries = before.entries
       /\ new.lost = bare.lost \cup (IF below THEN {i} ELSE {})
  BY <1>2, <1>4, <1>10
<1>12. added.entries \in [Inode -> [Name -> Inode \cup {None}]]
  BY <1>1, <1>5, <1>7
<1>13. removed.entries \in [Inode -> [Name -> Inode \cup {None}]]
  BY <1>8, <1>12
<1>14. \A x \in Inode, m \in Name :
         removed.entries[x][m] = IF x = sd /\ m = sn THEN None
                                 ELSE IF x = dd /\ m = dn THEN i ELSE tree.entries[x][m]
  BY <1>5, <1>6, <1>7, <1>8, <1>12
<1>15. ASSUME NEW x \in Inode, NEW m \in Name
       PROVE  new.entries[x][m] =
           IF x = sd /\ m = sn THEN None
           ELSE IF x = dd /\ m = dn THEN (IF Moves(tree, sd, i, dd) /\ i = dd THEN None ELSE i)
           ELSE IF Moves(tree, sd, i, dd) /\ i = dd /\ x = i /\ tree.entries[x][m] = i THEN None
           ELSE tree.entries[x][m]
  <2>1. CASE ~(Moves(tree, sd, i, dd) /\ i = dd /\ x = i)
    <3>1. Moves(tree, sd, i, dd) => moved.entries[x][m] = removed.entries[x][m]
      BY <1>1, <1>9, <1>13, <2>1
    <3> QED
      BY <1>10, <1>11, <1>14, <2>1, <3>1
  <2>2. CASE Moves(tree, sd, i, dd) /\ i = dd /\ x = i
    <3>1. moved.entries[x][m] = IF removed.entries[x][m] = i THEN None ELSE removed.entries[x][m]
      BY <1>1, <1>9, <1>13, <2>2
    <3> QED
      BY <1>10, <1>11, <1>14, <2>2, <3>1, NamespaceAssumption
  <2> QED
    BY <2>1, <2>2
<1>16. \A x \in Inode : new.links[x] = IF Drops(tree, j) /\ x = j THEN tree.links[x] - 1 ELSE tree.links[x]
  BY <1>3, <1>4, <1>11
<1>17. \A x \in Inode : new.up[x] = IF x = i /\ Moves(tree, sd, i, dd) THEN dd ELSE tree.up[x]
  BY <1>1, <1>4, <1>8, <1>9, <1>10, <1>11
<1>18. new.lost = tree.lost \cup (IF j = None \/ Drops(tree, j) THEN {} ELSE {j}) \cup (IF below THEN {i} ELSE {})
  BY <1>3, <1>11
<1> QED
  BY <1>1, <1>11, <1>15, <1>16, <1>17, <1>18 DEF new, i, j, below

\* Two sets of names with the same names are one.
LEMMA SamePairs ==
  ASSUME NEW S \in SUBSET (Inode \X Name), NEW T \in SUBSET (Inode \X Name),
         \A x \in Inode, m \in Name : <<x, m>> \in S <=> <<x, m>> \in T
  PROVE  S = T
OBVIOUS

\* create_handle gives a new inode its one name.
LEMMA CreateNames ==
  ASSUME NEW tree, Live(tree), NEW d \in Inode, NEW n \in Name, NEW i \in Inode,
         NEW k \in {"file", "dir"}, NEW links \in Nat,
         tree.kind[d] = "dir", tree.kind[i] = "free", tree.entries[d][n] = None
  PROVE  LET new == create_handle(tree, d, n, i, k, links) IN
    /\ Names(tree, i) = {} /\ Names(new, i) = {<<d, n>>}
    /\ \A j \in Inode \ {i} : Names(new, j) = Names(tree, j)
    /\ Live(new) /\ Keeps(tree, new, {})
<1> DEFINE new == create_handle(tree, d, n, i, k, links)
<1>1. tree \in Tree /\ i # d /\ None \notin Inode /\ i # Root
  BY NamespaceAssumption DEF Live
<1>2. /\ new \in Tree
      /\ \A x \in Inode : new.kind[x] = IF x = i THEN k ELSE tree.kind[x]
      /\ \A x \in Inode, m \in Name :
           new.entries[x][m] = IF x = d /\ m = n THEN i ELSE IF x = i THEN None ELSE tree.entries[x][m]
      /\ new.links[i] = 1
      /\ \A x \in Inode \ {i, d} : new.links[x] = tree.links[x]
  <2>1. new.links[i] = 1
    BY <1>1, CreateFields
  <2>2. new \in Tree
    BY <1>1, CreateFields
  <2>3. \A x \in Inode : new.kind[x] = IF x = i THEN k ELSE tree.kind[x]
    BY <1>1, CreateFields
  <2>4. \A x \in Inode \ {i, d} : new.links[x] = tree.links[x]
    BY <1>1, CreateFields
  <2>5. \A x \in Inode, m \in Name :
          new.entries[x][m] = IF x = d /\ m = n THEN i ELSE IF x = i THEN None ELSE tree.entries[x][m]
    BY <1>1, CreateFields
  <2> HIDE DEF new
  <2> QED
    BY <2>1, <2>2, <2>3, <2>4, <2>5
<1> HIDE DEF new
<1>3. Names(tree, i) = {}
  BY DEF Live, LinksCoverNames
<1>4. ASSUME NEW j \in Inode, NEW x \in Inode, NEW m \in Name
      PROVE  <<x, m>> \in Names(new, j) <=> IF x = d /\ m = n THEN j = i ELSE <<x, m>> \in Names(tree, j)
  <2>1. <<x, m>> \in Names(new, j) <=> new.kind[x] = "dir" /\ new.entries[x][m] = j
    BY <1>2, NamesOfInode
  <2>2. <<x, m>> \in Names(tree, j) <=> tree.kind[x] = "dir" /\ tree.entries[x][m] = j
    BY <1>1, NamesOfInode
  <2> QED
    BY <1>1, <1>2, <2>1, <2>2
<1>5. \A j \in Inode : Names(new, j) \subseteq Inode \X Name /\ Names(tree, j) \subseteq Inode \X Name
  BY <1>1, <1>2, NamesOfInode
<1>6. Names(new, i) = {<<d, n>>}
  <2>1. \A x \in Inode, m \in Name : <<x, m>> \in Names(new, i) <=> x = d /\ m = n
    BY <1>3, <1>4
  <2> QED
    BY <1>5, <2>1
<1>7. ASSUME NEW j \in Inode \ {i} PROVE Names(new, j) = Names(tree, j)
  <2>1. <<d, n>> \notin Names(tree, j)
    BY <1>1, NamesOfInode
  <2>2. \A x \in Inode, m \in Name : <<x, m>> \in Names(new, j) <=> <<x, m>> \in Names(tree, j)
    BY <1>4, <2>1
  <2> QED
    BY <1>5, <2>2, SamePairs
<1>8. Live(new)
  <2>1. new.kind[Root] = "dir" /\ Names(new, Root) = {}
    BY <1>1, <1>2, <1>7, NamespaceAssumption DEF Live
  <2>2. ASSUME NEW j \in Inode
        PROVE  /\ Names(new, j) # {} => new.kind[j] # "free"
               /\ new.kind[j] = "file" => Cardinality(Names(new, j)) <= new.links[j]
    <3>1. CASE j = i
      <4>1. Cardinality({<<d, n>>}) = 1
        BY FS_Singleton
      <4> QED
        <5>1. Cardinality(Names(new, j)) = 1
          BY <1>6, <3>1, <4>1
        <5>2. new.kind[j] = k /\ new.links[j] = 1
          BY <1>2, <3>1
        <5> QED
          BY <5>1, <5>2
    <3>2. CASE j # i
      <4>1. new.kind[j] = tree.kind[j] /\ Names(new, j) = Names(tree, j)
        BY <1>2, <1>7, <3>2
      <4>2. new.kind[j] = "file" => new.links[j] = tree.links[j]
        BY <1>2, <3>2, <4>1
      <4> QED
        BY <4>1, <4>2 DEF Live, LinksCoverNames
    <3> QED
      BY <3>1, <3>2
  <2> QED
    BY <1>2, <2>1, <2>2 DEF Live, LinksCoverNames
<1>9. Keeps(tree, new, {})
  <2>1. \A x \in Inode : tree.kind[x] = "dir" => new.kind[x] = "dir"
    BY <1>2
  <2>2. ASSUME NEW x \in Inode, NEW m \in Name, tree.kind[x] = "dir", tree.entries[x][m] # None,
               tree.kind[tree.entries[x][m]] = "file"
        PROVE  LET j == tree.entries[x][m] IN
                 /\ new.entries[x][m] = j /\ new.kind[j] = "file"
                 /\ Cardinality(Names(new, j)) <= Cardinality(Names(tree, j))
    <3> DEFINE j == tree.entries[x][m]
    <3>1. j \in Inode \ {i}
      BY <1>1, <2>2, TreeFields
    <3>2. new.entries[x][m] = j /\ new.kind[j] = "file"
      BY <1>1, <1>2, <2>2, <3>1
    <3>3. Names(new, j) = Names(tree, j) /\ Cardinality(Names(tree, j)) \in Nat
      BY <1>1, <1>7, <3>1, NamesOfInode
    <3> QED
      BY <3>2, <3>3
  <2> QED
    BY <2>1, <2>2 DEF Keeps
<1> QED
  BY <1>3, <1>6, <1>7, <1>8, <1>9 DEF new

\* An edit that takes the name e from the inode i.
LosesName(old, new, i, e) ==
  /\ e \in Names(old, i) /\ Names(new, i) = Names(old, i) \ {e}
  /\ \A j \in Inode \ {i} : Names(new, j) = Names(old, j)

\* do_delete takes one name of a file, and the inode with its last.
LEMMA DeleteNames ==
  ASSUME NEW tree, Live(tree), NEW d \in Inode, NEW n \in Name, NEW i \in Inode, NEW links \in Nat,
         tree.kind[d] = "dir", tree.entries[d][n] = i, tree.kind[i] = "file",
         Cardinality(Names(tree, i)) <= links
  PROVE  LET new == do_delete(tree, d, n, i, links) IN
    /\ LosesName(tree, new, i, <<d, n>>)
    /\ links <= 1 => Names(new, i) = {}
    /\ Live(new) /\ Keeps(tree, new, {<<d, n>>})
<1> DEFINE new == do_delete(tree, d, n, i, links)
<1>1. tree \in Tree /\ i # d /\ None \notin Inode /\ i # Root
  BY NamespaceAssumption DEF Live
<1>2. /\ new \in Tree
      /\ \A x \in Inode : new.kind[x] = IF x = i /\ links <= 1 THEN "free" ELSE tree.kind[x]
      /\ \A x \in Inode, m \in Name : new.entries[x][m] = IF x = d /\ m = n THEN None ELSE tree.entries[x][m]
      /\ \A x \in Inode : new.links[x] = IF x = i THEN (IF links <= 1 THEN 0 ELSE links - 1) ELSE tree.links[x]
  BY <1>1, DeleteFields
<1> HIDE DEF new
<1>3. <<d, n>> \in Names(tree, i) /\ IsFiniteSet(Names(tree, i))
  BY <1>1, NamesOfInode
<1>4. ASSUME NEW j \in Inode, NEW x \in Inode, NEW m \in Name
      PROVE  <<x, m>> \in Names(new, j) <=> ~(x = d /\ m = n) /\ <<x, m>> \in Names(tree, j)
  <2>1. <<x, m>> \in Names(new, j) <=> new.kind[x] = "dir" /\ new.entries[x][m] = j
    BY <1>2, NamesOfInode
  <2>2. <<x, m>> \in Names(tree, j) <=> tree.kind[x] = "dir" /\ tree.entries[x][m] = j
    BY <1>1, NamesOfInode
  <2> QED
    BY <1>1, <1>2, <2>1, <2>2
<1>5. \A j \in Inode : Names(new, j) \subseteq Inode \X Name /\ Names(tree, j) \subseteq Inode \X Name
  BY <1>1, <1>2, NamesOfInode
<1>6. Names(new, i) = Names(tree, i) \ {<<d, n>>}
  <2>1. \A x \in Inode, m \in Name : <<x, m>> \in Names(new, i) <=> <<x, m>> \in Names(tree, i) \ {<<d, n>>}
    BY <1>4
  <2> QED
    BY <1>5, <2>1
<1>7. ASSUME NEW j \in Inode \ {i} PROVE Names(new, j) = Names(tree, j)
  <2>1. <<d, n>> \notin Names(tree, j)
    BY <1>1, NamesOfInode
  <2>2. \A x \in Inode, m \in Name : <<x, m>> \in Names(new, j) <=> <<x, m>> \in Names(tree, j)
    BY <1>4, <2>1
  <2> QED
    BY <1>5, <2>2, SamePairs
<1>8. /\ Cardinality(Names(tree, i)) \in Nat
      /\ Cardinality(Names(new, i)) = Cardinality(Names(tree, i)) - 1
      /\ Cardinality(Names(tree, i)) <= 1 => Names(tree, i) = {<<d, n>>}
  <2> DEFINE S == Names(tree, i)
             e == <<d, n>>
  <2> HIDE DEF S, e
  <2>1. e \in S /\ IsFiniteSet(S) /\ Names(new, i) = S \ {e}
    BY <1>3, <1>6 DEF S, e
  <2>2. /\ Cardinality(S) \in Nat /\ Cardinality(S \ {e}) = Cardinality(S) - 1
        /\ Cardinality(S) <= 1 => S = {e}
    BY <2>1, OneName
  <2> QED
    BY <2>1, <2>2 DEF S, e
<1>9. links <= 1 => Names(tree, i) = {<<d, n>>} /\ Names(new, i) = {}
  BY <1>6, <1>8
<1>10. Live(new)
  <2>1. new.kind[Root] = "dir" /\ Names(new, Root) = {}
    BY <1>1, <1>2, <1>7, NamespaceAssumption DEF Live
  <2>2. ASSUME NEW j \in Inode
        PROVE  /\ Names(new, j) # {} => new.kind[j] # "free"
               /\ new.kind[j] = "file" => Cardinality(Names(new, j)) <= new.links[j]
    <3>1. CASE j = i
      BY <1>2, <1>8, <1>9, <3>1
    <3>2. CASE j # i
      <4>1. new.kind[j] = tree.kind[j] /\ Names(new, j) = Names(tree, j) /\ new.links[j] = tree.links[j]
        BY <1>2, <1>7, <3>2
      <4> QED
        BY <4>1 DEF Live, LinksCoverNames
    <3> QED
      BY <3>1, <3>2
  <2> QED
    BY <1>2, <2>1, <2>2 DEF Live, LinksCoverNames
<1>11. Keeps(tree, new, {<<d, n>>})
  <2>1. \A x \in Inode : tree.kind[x] = "dir" => new.kind[x] = "dir"
    BY <1>2
  <2>2. ASSUME NEW x \in Inode, NEW m \in Name, <<x, m>> \notin {<<d, n>>}, tree.kind[x] = "dir",
               tree.entries[x][m] # None, tree.kind[tree.entries[x][m]] = "file"
        PROVE  LET j == tree.entries[x][m] IN
                 /\ new.entries[x][m] = j /\ new.kind[j] = "file"
                 /\ Cardinality(Names(new, j)) <= Cardinality(Names(tree, j))
    <3> DEFINE j == tree.entries[x][m]
    <3>1. j \in Inode
      BY <1>1, <2>2, TreeFields
    <3>2. new.entries[x][m] = j
      BY <1>2, <2>2
    <3>3. <<x, m>> \in Names(tree, j)
      BY <1>1, <2>2, <3>1, NamesOfInode
    <3>4. new.kind[j] = "file"
      BY <1>2, <1>9, <2>2, <3>1, <3>3
    <3>5. Cardinality(Names(tree, j)) \in Nat
      BY <1>1, <3>1, NamesOfInode
    <3>6. Cardinality(Names(new, j)) <= Cardinality(Names(tree, j))
      BY <1>7, <1>8, <3>1, <3>5
    <3> QED
      BY <3>2, <3>4, <3>6
  <2> QED
    BY <2>1, <2>2 DEF Keeps
<1> QED
  BY <1>3, <1>6, <1>7, <1>9, <1>10, <1>11 DEF new, LosesName

\* One name for another.
LEMMA OtherName ==
  ASSUME NEW S, NEW s, NEW g, IsFiniteSet(S), s \in S
  PROVE  /\ g \in S => Cardinality((S \ {s}) \cup {g}) = IF s = g THEN Cardinality(S) ELSE Cardinality(S) - 1
         /\ g \notin S => Cardinality((S \ {s}) \cup {g}) = Cardinality(S)
<1>1. IsFiniteSet(S \ {s}) /\ Cardinality(S \ {s}) = Cardinality(S) - 1 /\ Cardinality(S) \in Nat
  BY OneName
<1>2. CASE g \in S /\ s # g
  <2>1. (S \ {s}) \cup {g} = S \ {s}
    BY <1>2
  <2> QED
    BY <1>1, <1>2, <2>1
<1>3. CASE s = g
  <2>1. (S \ {s}) \cup {g} = S
    BY <1>3
  <2> QED
    BY <1>3, <2>1
<1>4. CASE g \notin S
  <2>1. g \notin S \ {s}
    BY <1>4
  <2>2. Cardinality((S \ {s}) \cup {g}) = Cardinality(S \ {s}) + 1
    BY <1>1, <2>1, OneName
  <2> QED
    BY <1>1, <1>4, <2>2
<1> QED
  BY <1>2, <1>3, <1>4

\* What a rename of s to g makes of the names, where s stands for i, g for j,
\* and i goes into itself or not.
Renamed(old, new, i, j, s, g, into) ==
  /\ new \in Tree /\ new.kind = old.kind
  /\ i \in Inode \ {Root} /\ j \in Inode \cup {None} /\ old.kind[i] # "free" /\ s \in Names(old, i)
  /\ \A x \in Inode : g \in Names(old, x) <=> x = j
  /\ \A x \in Inode \ {i} : Names(new, x) = Names(old, x) \ {g}
  /\ s = g => ~into /\ Names(new, i) = Names(old, i) \ {s}
  /\ into => Names(new, i) \subseteq Names(old, i) \ {s}
  /\ s # g /\ ~into => Names(new, i) = (Names(old, i) \ {s}) \cup {g}

\* dir_rename gives the inode another name, and takes it from whom had it.
LEMMA RenameNames ==
  ASSUME NEW tree, Live(tree), NEW sd \in Inode, NEW sn \in Name, NEW dd \in Inode, NEW dn \in Name,
         tree.kind[sd] = "dir", tree.kind[dd] = "dir", ~rename_fails(tree, sd, sn, dd, dn)
  PROVE  Renamed(tree, dir_rename(tree, sd, sn, dd, dn), tree.entries[sd][sn], tree.entries[dd][dn],
                 <<sd, sn>>, <<dd, dn>>, Moves(tree, sd, tree.entries[sd][sn], dd) /\ tree.entries[sd][sn] = dd)
<1> DEFINE new == dir_rename(tree, sd, sn, dd, dn)
           i == tree.entries[sd][sn]
           j == tree.entries[dd][dn]
           s == <<sd, sn>>
           g == <<dd, dn>>
           into == Moves(tree, sd, i, dd) /\ i = dd
<1>1. tree \in Tree /\ None \notin Inode
  BY NamespaceAssumption DEF Live
<1>2. new \in Tree /\ i \in Inode /\ j \in Inode \cup {None} /\ new.kind = tree.kind
  BY <1>1, RenameFields
<1>3. \A x \in Inode, m \in Name :
         new.entries[x][m] =
           IF x = sd /\ m = sn THEN None
           ELSE IF x = dd /\ m = dn THEN (IF into THEN None ELSE i)
           ELSE IF into /\ x = i /\ tree.entries[x][m] = i THEN None
           ELSE tree.entries[x][m]
  BY <1>1, RenameFields
<1>4. s \in Names(tree, i) /\ \A x \in Inode : g \in Names(tree, x) <=> x = j
  BY <1>1, <1>2, NamesOfInode
<1>5. i # Root /\ tree.kind[i] # "free"
  BY <1>2, <1>4 DEF Live, LinksCoverNames
<1> HIDE DEF new, i, j, into
<1>6. ASSUME NEW y \in Inode, NEW x \in Inode, NEW m \in Name
      PROVE  <<x, m>> \in Names(new, y) <=>
               IF x = sd /\ m = sn THEN FALSE
               ELSE IF x = dd /\ m = dn THEN ~into /\ y = i
               ELSE ~(into /\ x = i /\ y = i) /\ <<x, m>> \in Names(tree, y)
  <2>1. <<x, m>> \in Names(new, y) <=> new.kind[x] = "dir" /\ new.entries[x][m] = y
    BY <1>2, NamesOfInode
  <2>2. <<x, m>> \in Names(tree, y) <=> tree.kind[x] = "dir" /\ tree.entries[x][m] = y
    BY <1>1, NamesOfInode
  <2> QED
    BY <1>1, <1>2, <1>3, <2>1, <2>2
<1>7. \A y \in Inode : Names(new, y) \subseteq Inode \X Name /\ Names(tree, y) \subseteq Inode \X Name
  BY <1>1, <1>2, NamesOfInode
<1>8. ASSUME NEW y \in Inode \ {i} PROVE Names(new, y) = Names(tree, y) \ {g}
  <2>1. s \notin Names(tree, y)
    BY <1>1, NamesOfInode DEF i
  <2>2. \A x \in Inode, m \in Name : <<x, m>> \in Names(new, y) <=> <<x, m>> \in Names(tree, y) \ {g}
    BY <1>6, <2>1
  <2>3. Names(tree, y) \ {g} \in SUBSET (Inode \X Name) /\ Names(new, y) \in SUBSET (Inode \X Name)
    BY <1>7
  <2> QED
    BY <2>2, <2>3, SamePairs
<1>9. ASSUME into PROVE Names(new, i) \subseteq Names(tree, i) \ {s}
  <2>1. \A x \in Inode, m \in Name : <<x, m>> \in Names(new, i) => <<x, m>> \in Names(tree, i) \ {s}
    BY <1>2, <1>6, <1>9
  <2> QED
    BY <1>2, <1>7, <2>1
<1>10. ASSUME s # g, ~into PROVE Names(new, i) = (Names(tree, i) \ {s}) \cup {g}
  <2>1. \A x \in Inode, m \in Name : <<x, m>> \in Names(new, i) <=> <<x, m>> \in (Names(tree, i) \ {s}) \cup {g}
    BY <1>2, <1>6, <1>10
  <2>2. (Names(tree, i) \ {s}) \cup {g} \in SUBSET (Inode \X Name) /\ Names(new, i) \in SUBSET (Inode \X Name)
    BY <1>2, <1>7
  <2> QED
    BY <2>1, <2>2, SamePairs
<1>11. ASSUME s = g PROVE ~into /\ Names(new, i) = Names(tree, i) \ {s}
  <2>1. sd = dd /\ sn = dn /\ ~into
    BY <1>11 DEF into, Moves
  <2>2. \A x \in Inode, m \in Name : <<x, m>> \in Names(new, i) <=> <<x, m>> \in Names(tree, i) \ {s}
    BY <1>2, <1>6, <2>1
  <2>3. Names(tree, i) \ {s} \in SUBSET (Inode \X Name) /\ Names(new, i) \in SUBSET (Inode \X Name)
    BY <1>2, <1>7
  <2> QED
    BY <2>1, <2>2, <2>3, SamePairs
<1> QED
  BY <1>2, <1>4, <1>5, <1>8, <1>9, <1>10, <1>11 DEF Renamed, new, i, j, into

\* A file has as many names as before, but for the target's.
LEMMA RenamedCount ==
  ASSUME NEW old \in Tree, NEW new, NEW i, NEW j, NEW s, NEW g, NEW into,
         Renamed(old, new, i, j, s, g, into), NEW x \in Inode, old.kind[x] = "file", into => x # i
  PROVE  LET c == Cardinality(Names(old, x)) IN
           c \in Nat /\ Cardinality(Names(new, x)) = IF x = j THEN c - 1 ELSE c
<1>1. /\ s \in Names(old, i) /\ (g \in Names(old, x) <=> x = j)
      /\ x # i => Names(new, x) = Names(old, x) \ {g}
      /\ s = g => Names(new, i) = Names(old, i) \ {s}
      /\ s # g /\ ~into => Names(new, i) = (Names(old, i) \ {s}) \cup {g}
  BY DEF Renamed
<1>2. IsFiniteSet(Names(old, x)) /\ Cardinality(Names(old, x)) \in Nat
  BY NamesOfInode
<1>3. CASE x # i
  <2>1. /\ g \in Names(old, x) => Cardinality(Names(old, x) \ {g}) = Cardinality(Names(old, x)) - 1
        /\ g \notin Names(old, x) => Cardinality(Names(old, x) \ {g}) = Cardinality(Names(old, x))
    BY <1>2, OneName
  <2> QED
    BY <1>1, <1>2, <1>3, <2>1
<1>4. CASE x = i /\ s = g
  <2>1. Cardinality(Names(old, i) \ {s}) = Cardinality(Names(old, i)) - 1
    BY <1>1, <1>2, <1>4, OneName
  <2> QED
    BY <1>1, <1>2, <1>4, <2>1
<1>5. CASE x = i /\ s # g
  <2>1. Names(new, i) = (Names(old, i) \ {s}) \cup {g}
    BY <1>1, <1>5
  <2>2. /\ g \in Names(old, i) => Cardinality(Names(new, i)) = Cardinality(Names(old, i)) - 1
        /\ g \notin Names(old, i) => Cardinality(Names(new, i)) = Cardinality(Names(old, i))
    BY <1>1, <1>2, <1>5, <2>1, OtherName
  <2> QED
    BY <1>1, <1>2, <1>5, <2>2
<1> QED
  BY <1>3, <1>4, <1>5

\* It keeps what every call keeps.
LEMMA RenameKeeps ==
  ASSUME NEW tree, Live(tree), NEW sd \in Inode, NEW sn \in Name, NEW dd \in Inode, NEW dn \in Name,
         tree.kind[sd] = "dir", tree.kind[dd] = "dir", ~rename_fails(tree, sd, sn, dd, dn)
  PROVE  LET new == dir_rename(tree, sd, sn, dd, dn) IN
    Live(new) /\ Keeps(tree, new, {<<sd, sn>>, <<dd, dn>>})
<1> DEFINE new == dir_rename(tree, sd, sn, dd, dn)
           i == tree.entries[sd][sn]
           j == tree.entries[dd][dn]
           s == <<sd, sn>>
           g == <<dd, dn>>
           into == Moves(tree, sd, i, dd) /\ i = dd
<1>1. tree \in Tree /\ None \notin Inode
  BY NamespaceAssumption DEF Live
<1>2. Renamed(tree, new, i, j, s, g, into)
  BY RenameNames
<1>5. \A x \in Inode : new.links[x] = IF Drops(tree, j) /\ x = j THEN tree.links[x] - 1 ELSE tree.links[x]
  BY <1>1, RenameFields
<1>6. \A x \in Inode, m \in Name : <<x, m>> \notin {s, g} =>
        new.entries[x][m] = IF into /\ x = i /\ tree.entries[x][m] = i THEN None ELSE tree.entries[x][m]
  BY <1>1, RenameFields
<1>7. tree.kind[i] = "file" => ~into
  BY DEF Moves
<1> HIDE DEF new, i, j, into, s, g
<1>3. /\ new \in Tree /\ new.kind = tree.kind
      /\ i \in Inode \ {Root} /\ j \in Inode \cup {None} /\ tree.kind[i] # "free" /\ s \in Names(tree, i)
      /\ \A x \in Inode : g \in Names(tree, x) <=> x = j
      /\ \A x \in Inode \ {i} : Names(new, x) = Names(tree, x) \ {g}
  BY <1>2 DEF Renamed
<1>8. \A x \in Inode : /\ IsFiniteSet(Names(tree, x)) /\ Cardinality(Names(tree, x)) \in Nat
                       /\ tree.links[x] \in Nat
  BY <1>1, NamesOfInode, TreeFields
<1>9. ASSUME NEW x \in Inode, tree.kind[x] = "file"
       PROVE  /\ Cardinality(Names(new, x)) <= Cardinality(Names(tree, x))
              /\ Cardinality(Names(new, x)) <= new.links[x]
  <2>1. new \in Tree /\ Cardinality(Names(new, x)) \in Nat
    BY <1>3, NamesOfInode
  <2>2. Cardinality(Names(new, x)) = IF x = j THEN Cardinality(Names(tree, x)) - 1 ELSE Cardinality(Names(tree, x))
    BY <1>1, <1>2, <1>7, <1>9, RenamedCount
  <2>3. Cardinality(Names(tree, x)) <= tree.links[x]
    BY <1>9 DEF Live, LinksCoverNames
  <2> QED
    BY <1>5, <1>8, <2>1, <2>2, <2>3
<1>10. Live(new)
  <2>1. new.kind[Root] = "dir" /\ Names(new, Root) = {}
    BY <1>3, <1>3, NamespaceAssumption DEF Live
  <2>2. ASSUME NEW x \in Inode, Names(new, x) # {} PROVE new.kind[x] # "free"
    <3>1. CASE x = i
      BY <1>3, <3>1
    <3>2. CASE x # i
      <4>1. Names(tree, x) # {}
        BY <1>3, <2>2, <3>2
      <4> QED
        BY <1>3, <4>1 DEF Live, LinksCoverNames
    <3> QED
      BY <3>1, <3>2
  <2> QED
    BY <1>3, <1>9, <2>1, <2>2 DEF Live, LinksCoverNames
<1>11. Keeps(tree, new, {s, g})
  <2>1. ASSUME NEW x \in Inode, NEW m \in Name, <<x, m>> \notin {s, g}, tree.kind[x] = "dir",
               tree.entries[x][m] # None, tree.kind[tree.entries[x][m]] = "file"
        PROVE  LET y == tree.entries[x][m] IN
                 /\ new.entries[x][m] = y /\ new.kind[y] = "file"
                 /\ Cardinality(Names(new, y)) <= Cardinality(Names(tree, y))
    <3>1. tree.entries[x][m] \in Inode
      BY <1>1, <2>1, TreeFields
    <3>2. new.entries[x][m] = tree.entries[x][m]
      BY <1>6, <1>7, <2>1
    <3> QED
      BY <1>3, <1>9, <2>1, <3>1, <3>2
  <2> QED
    BY <1>3, <2>1 DEF Keeps
<1> QED
  BY <1>10, <1>11 DEF new, s, g

-----------------------------------------------------------------------------
(* What they make of the tree, where nothing comes between what a call reads *)
(* and its edit.                                                             *)

\* A lost inode is a directory, or a file without a name.
LostHaveNoUse(tree) ==
  \A i \in tree.lost : tree.kind[i] = "dir" \/ (tree.kind[i] = "file" /\ Names(tree, i) = {})

Sound(tree) == IsATree(tree) /\ LostHaveNoUse(tree)

\* A set of inodes that has those of D and the directories in it.
Closed(tree, D, S) == S \in SUBSET Inode /\ D \cup Subdirectories(tree, S) \subseteq S

\* What can be reached is in every closed set, and only that.
LEMMA ReachedFrom ==
  ASSUME NEW tree, NEW D, NEW i \in Inode
  PROVE  i \in ReachableFrom(tree, D) <=> \A S : Closed(tree, D, S) => i \in S
BY DEF ReachableFrom, Closed

\* What is in a directory of a closed set is in the set.
LEMMA ClosedHas ==
  ASSUME NEW tree, NEW D, NEW S, Closed(tree, D, S), NEW d \in S, NEW n \in Name, NEW i \in Inode,
         tree.kind[i] = "dir", tree.entries[d][n] = i
  PROVE  i \in S
BY DEF Closed, Subdirectories

\* Only directories can be reached from the root.
LEMMA ReachedAreDirectories ==
  ASSUME NEW tree, tree.kind[Root] = "dir", NEW i \in Reachable(tree)
  PROVE  i \in Inode /\ tree.kind[i] = "dir"
<1> DEFINE S == {x \in Inode : tree.kind[x] = "dir"}
<1>1. Closed(tree, {Root}, S)
  BY NamespaceAssumption DEF Closed, Subdirectories
<1> QED
  BY <1>1, ReachedFrom DEF Reachable, ReachableFrom

\* create_handle.
LEMMA CreateSound ==
  ASSUME NEW tree, Live(tree), Sound(tree), NEW d \in Inode, NEW n \in Name, NEW i \in Inode,
         NEW k \in {"file", "dir"}, NEW links \in Nat,
         tree.kind[d] = "dir", tree.kind[i] = "free", tree.entries[d][n] = None
  PROVE  Sound(create_handle(tree, d, n, i, k, links))
<1> DEFINE new == create_handle(tree, d, n, i, k, links)
<1>1. tree \in Tree /\ i # d /\ None \notin Inode /\ i # Root
  BY NamespaceAssumption DEF Live
<1>2. new \in Tree /\ \A x \in Inode : new.kind[x] = IF x = i THEN k ELSE tree.kind[x]
  BY <1>1, CreateFields
<1>3. \A x \in Inode, m \in Name :
        new.entries[x][m] = IF x = d /\ m = n THEN i ELSE IF x = i THEN None ELSE tree.entries[x][m]
  BY <1>1, CreateFields
<1>4. new.links[i] = 1
  BY <1>1, CreateFields
<1>5. \A x \in Inode \ {i, d} : new.links[x] = tree.links[x]
  BY <1>1, CreateFields
<1>6. new.lost = tree.lost
  BY <1>1, CreateFields
<1>7. \A x \in Inode : new.up[x] = IF x = i /\ k = "dir" THEN d ELSE tree.up[x]
  BY <1>1, CreateFields
<1>8. Names(new, i) = {<<d, n>>} /\ \A j \in Inode \ {i} : Names(new, j) = Names(tree, j)
  BY CreateNames
<1> HIDE DEF new
<1>9. i \notin tree.lost /\ tree.lost \subseteq Inode
  BY <1>1, TreeFields DEF Sound, LostHaveNoUse
<1>10. ASSUME NEW x \in Inode, new.kind[x] = "file", x \notin new.lost
       PROVE  Cardinality(Names(new, x)) = new.links[x]
  <2>1. CASE x = i
    <3>1. Cardinality({<<d, n>>}) = 1
      BY FS_Singleton
    <3> QED
      BY <1>4, <1>8, <2>1, <3>1
  <2>2. CASE x # i
    BY <1>2, <1>5, <1>6, <1>8, <1>10, <2>2 DEF Sound, IsATree
  <2> QED
    BY <2>1, <2>2
<1>11. ASSUME NEW x \in Inode, new.kind[x] = "dir", x \notin new.lost \cup {Root}
       PROVE  \E m \in Name : Names(new, x) = {<<new.up[x], m>>}
  <2>1. CASE x = i
    BY <1>2, <1>7, <1>8, <1>11, <2>1
  <2>2. CASE x # i
    <3>1. PICK m \in Name : Names(tree, x) = {<<tree.up[x], m>>}
      BY <1>2, <1>6, <1>11, <2>2 DEF Sound, IsATree
    <3> QED
      BY <1>7, <1>8, <2>2, <3>1
  <2> QED
    BY <2>1, <2>2
<1>12. ASSUME NEW x \in Inode, new.kind[x] = "dir"
       PROVE  x \in ReachableFrom(new, {Root} \cup new.lost)
  <2> SUFFICES ASSUME NEW S, Closed(new, {Root} \cup new.lost, S)
               PROVE  x \in S
    BY ReachedFrom
  <2> DEFINE T == S \ {i}
  <2>1. Closed(tree, {Root} \cup tree.lost, T)
    <3>1. {Root} \cup tree.lost \subseteq T /\ T \in SUBSET Inode
      BY <1>1, <1>6, <1>9 DEF Closed
    <3>2. ASSUME NEW y \in Inode, tree.kind[y] = "dir", NEW e \in T, NEW m \in Name, tree.entries[e][m] = y
          PROVE  y \in T
      <4>1. y # i /\ e # i /\ new.kind[y] = "dir" /\ e \in Inode
        BY <1>2, <3>1, <3>2
      <4>2. new.entries[e][m] = y
        BY <1>1, <1>3, <3>2, <4>1
      <4> QED
        BY <3>2, <4>1, <4>2, ClosedHas
    <3> QED
      BY <3>1, <3>2 DEF Closed, Subdirectories
  <2>2. \A y \in Inode : tree.kind[y] = "dir" => y \in T
    BY <2>1, ReachedFrom DEF Sound, IsATree
  <2>3. CASE x # i
    BY <1>2, <1>12, <2>2, <2>3
  <2>4. CASE x = i
    <3>1. d \in S /\ new.entries[d][n] = i
      BY <1>3, <2>2
    <3> QED
      BY <1>12, <2>4, <3>1, ClosedHas
  <2> QED
    BY <2>3, <2>4
<1>13. LostHaveNoUse(new)
  BY <1>2, <1>6, <1>8, <1>9 DEF Sound, LostHaveNoUse
<1> QED
  BY <1>10, <1>11, <1>12, <1>13 DEF Sound, IsATree, new

\* do_delete of a file whose links are those it has read.
LEMMA DeleteSound ==
  ASSUME NEW tree, Live(tree), Sound(tree), NEW d \in Inode, NEW n \in Name, NEW i \in Inode,
         tree.kind[d] = "dir", tree.entries[d][n] = i, tree.kind[i] = "file"
  PROVE  Sound(do_delete(tree, d, n, i, tree.links[i]))
<1> DEFINE links == tree.links[i]
           new == do_delete(tree, d, n, i, links)
<1>1. tree \in Tree /\ links \in Nat /\ Cardinality(Names(tree, i)) <= links
  BY TreeFields DEF Live, LinksCoverNames
<1>2. /\ new \in Tree
      /\ \A x \in Inode : new.kind[x] = IF x = i /\ links <= 1 THEN "free" ELSE tree.kind[x]
      /\ \A x \in Inode, m \in Name : new.entries[x][m] = IF x = d /\ m = n THEN None ELSE tree.entries[x][m]
      /\ \A x \in Inode : new.links[x] = IF x = i THEN (IF links <= 1 THEN 0 ELSE links - 1) ELSE tree.links[x]
      /\ new.lost = tree.lost /\ new.up = tree.up
  BY <1>1, DeleteFields
<1> DEFINE e == <<d, n>>
<1>10. LosesName(tree, new, i, e)
  BY <1>1, DeleteNames
<1>11. links = tree.links[i]
  OBVIOUS
<1> HIDE DEF new, e, links
<1>3. e \in Names(tree, i) /\ Names(new, i) = Names(tree, i) \ {e}
  BY <1>10 DEF LosesName
<1>4. \A j \in Inode \ {i} : Names(new, j) = Names(tree, j)
  BY <1>10 DEF LosesName
<1>5. i \notin tree.lost /\ tree.lost \subseteq Inode
  BY <1>1, <1>3, TreeFields DEF Sound, LostHaveNoUse
<1>6. ASSUME NEW x \in Inode, new.kind[x] = "file", x \notin new.lost
      PROVE  Cardinality(Names(new, x)) = new.links[x]
  <2>1. CASE x = i
    <3>1. Cardinality(Names(tree, i)) = links /\ links > 1
      <4>1. Cardinality(Names(tree, i)) = tree.links[i]
        BY <1>2, <1>5, <1>6, <2>1 DEF Sound, IsATree
      <4>2. ~(links <= 1)
        BY <1>2, <1>6, <2>1
      <4> QED
        BY <1>1, <1>11, <4>1, <4>2
    <3>2. IsFiniteSet(Names(tree, i))
      BY <1>1, NamesOfInode
    <3>3. Cardinality(Names(tree, i) \ {e}) = Cardinality(Names(tree, i)) - 1
      BY <1>3, <3>2, OneName
    <3>4. new.links[i] = links - 1
      BY <1>1, <1>2, <3>1
    <3> QED
      BY <1>3, <2>1, <3>1, <3>3, <3>4
  <2>2. CASE x # i
    BY <1>2, <1>4, <1>6, <2>2 DEF Sound, IsATree
  <2> QED
    BY <2>1, <2>2
<1>7. ASSUME NEW x \in Inode, new.kind[x] = "dir", x \notin new.lost \cup {Root}
      PROVE  \E m \in Name : Names(new, x) = {<<new.up[x], m>>}
  <2>1. x # i /\ tree.kind[x] = "dir"
    BY <1>2, <1>7
  <2>2. PICK m \in Name : Names(tree, x) = {<<tree.up[x], m>>}
    BY <1>2, <1>7, <2>1 DEF Sound, IsATree
  <2> QED
    BY <1>2, <1>4, <2>1, <2>2
<1>8. ASSUME NEW x \in Inode, new.kind[x] = "dir"
      PROVE  x \in ReachableFrom(new, {Root} \cup new.lost)
  <2> SUFFICES ASSUME NEW S, Closed(new, {Root} \cup new.lost, S)
               PROVE  x \in S
    BY ReachedFrom
  <2>1. S \in SUBSET Inode /\ {Root} \cup tree.lost \subseteq S
    BY <1>2 DEF Closed
  <2>2. ASSUME NEW y \in Inode, tree.kind[y] = "dir", NEW x2 \in S, NEW m \in Name, tree.entries[x2][m] = y
        PROVE  y \in S
    <3>1. y # i /\ new.kind[y] = "dir" /\ x2 \in Inode
      BY <1>2, <2>1, <2>2
    <3>2. new.entries[x2][m] = y
      BY <1>2, <2>2, <3>1
    <3> QED
      BY <2>2, <3>1, <3>2, ClosedHas
  <2>3. Closed(tree, {Root} \cup tree.lost, S)
    BY <2>1, <2>2 DEF Closed, Subdirectories
  <2>4. tree.kind[x] = "dir"
    BY <1>2, <1>8
  <2> QED
    BY <2>3, <2>4, ReachedFrom DEF Sound, IsATree
<1>9. LostHaveNoUse(new)
  BY <1>2, <1>4, <1>5 DEF Sound, LostHaveNoUse
<1> QED
  BY <1>6, <1>7, <1>8, <1>9 DEF Sound, IsATree, new, links

\* What is left when a name is taken, of what can be reached from the root.
LEMMA ReachedWithout ==
  ASSUME NEW tree, Live(tree), NEW d \in Inode, NEW n \in Name, NEW i \in Inode \ {Root},
         tree.entries[d][n] = i
  PROVE  /\ tree.kind[i] # "dir" => Reachable(WithoutEntry(tree, d, n)) = Reachable(tree)
         /\ Names(tree, i) = {<<d, n>>} => i \notin Reachable(WithoutEntry(tree, d, n))
<1> DEFINE w == WithoutEntry(tree, d, n)
<1>1. tree \in Tree /\ None \notin Inode
  BY NamespaceAssumption DEF Live
<1>2. w.kind = tree.kind /\ w.entries = [tree.entries EXCEPT ![d][n] = None]
  BY <1>1 DEF WithoutEntry, Tree
<1>3. \A x \in Inode, m \in Name : w.entries[x][m] = IF x = d /\ m = n THEN None ELSE tree.entries[x][m]
  BY <1>1, <1>2, TreeFields
<1> HIDE DEF w
<1>4. ASSUME tree.kind[i] # "dir" PROVE Reachable(w) = Reachable(tree)
  <2>1. ASSUME NEW S \in SUBSET Inode PROVE Subdirectories(w, S) = Subdirectories(tree, S)
    <3>1. ASSUME NEW y \in Inode, tree.kind[y] = "dir", NEW e \in S, NEW m \in Name
          PROVE  w.entries[e][m] = y <=> tree.entries[e][m] = y
      BY <1>1, <1>3, <1>4, <3>1
    <3> QED
      BY <1>2, <3>1 DEF Subdirectories
  <2> QED
    BY <2>1 DEF Reachable, ReachableFrom
<1>5. ASSUME Names(tree, i) = {<<d, n>>} PROVE i \notin Reachable(w)
  <2> DEFINE S == {x \in Inode \ {i} : tree.kind[x] = "dir"}
  <2>1. S \in SUBSET Inode /\ Root \in S
    BY NamespaceAssumption DEF Live
  <2>2. ASSUME NEW y \in Inode, w.kind[y] = "dir", NEW e \in S, NEW m \in Name, w.entries[e][m] = y
        PROVE  y \in S
    <3>1. y # i
      <4>1. SUFFICES ASSUME y = i PROVE FALSE
        OBVIOUS
      <4>2. tree.entries[e][m] = i /\ ~(e = d /\ m = n)
        BY <1>1, <1>3, <2>2, <4>1
      <4>3. <<e, m>> \in Names(tree, i)
        BY <1>1, <4>2, NamesOfInode
      <4> QED
        BY <1>5, <4>2, <4>3
    <3> QED
      BY <1>2, <2>2, <3>1
  <2>3. Closed(w, {Root}, S)
    BY <2>1, <2>2 DEF Closed, Subdirectories
  <2>4. i \notin S
    OBVIOUS
  <2> QED
    BY <2>3, <2>4, ReachedFrom DEF Reachable
<1> QED
  BY <1>4, <1>5 DEF w

\* dir_rename between directories that can be reached.
LEMMA RenameSound ==
  ASSUME NEW tree, Live(tree), Sound(tree), NEW sd \in Inode, NEW sn \in Name, NEW dd \in Inode, NEW dn \in Name,
         sd \in Reachable(tree), dd \in Reachable(tree), ~rename_fails(tree, sd, sn, dd, dn)
  PROVE  Sound(dir_rename(tree, sd, sn, dd, dn))
<1> DEFINE new == dir_rename(tree, sd, sn, dd, dn)
           i == tree.entries[sd][sn]
           j == tree.entries[dd][dn]
           s == <<sd, sn>>
           g == <<dd, dn>>
           moves == Moves(tree, sd, i, dd)
           into == moves /\ i = dd
           below == MovesBelowItself(tree, sd, sn, dd)
           drops == Drops(tree, j)
<1>1. /\ tree \in Tree /\ None \notin Inode /\ Root \in Inode
      /\ tree.kind[Root] = "dir" /\ tree.kind[sd] = "dir" /\ tree.kind[dd] = "dir"
  BY NamespaceAssumption, ReachedAreDirectories DEF Live
<1>2. Renamed(tree, new, i, j, s, g, into)
  BY <1>1, RenameNames
<1>3. \A x \in Inode, m \in Name :
         new.entries[x][m] =
           IF x = sd /\ m = sn THEN None
           ELSE IF x = dd /\ m = dn THEN (IF into THEN None ELSE i)
           ELSE IF into /\ x = i /\ tree.entries[x][m] = i THEN None
           ELSE tree.entries[x][m]
  BY <1>1, RenameFields
<1>4. \A x \in Inode : new.links[x] = IF drops /\ x = j THEN tree.links[x] - 1 ELSE tree.links[x]
  BY <1>1, RenameFields
<1>5. new.lost = tree.lost \cup (IF j = None \/ drops THEN {} ELSE {j}) \cup (IF below THEN {i} ELSE {})
  BY <1>1, RenameFields
<1>6. \A x \in Inode : new.up[x] = IF x = i /\ moves THEN dd ELSE tree.up[x]
  BY <1>1, RenameFields
<1>7. (moves <=> tree.kind[i] = "dir" /\ sd # dd) /\ (into <=> moves /\ i = dd)
      /\ (drops <=> j # None /\ tree.kind[j] = "file" /\ tree.links[j] > 1)
      /\ (below <=> dd \notin Reachable(WithoutEntry(tree, sd, sn)))
      /\ tree.entries[sd][sn] = i /\ tree.entries[dd][dn] = j
  BY DEF Moves, Drops, MovesBelowItself
<1> HIDE DEF new, i, j, moves, into, below, drops
<1>8. /\ new \in Tree /\ new.kind = tree.kind
      /\ i \in Inode \ {Root} /\ j \in Inode \cup {None} /\ tree.kind[i] # "free" /\ s \in Names(tree, i)
      /\ \A x \in Inode : g \in Names(tree, x) <=> x = j
  BY <1>2 DEF Renamed
<1>9. \A x \in Inode \ {i} : Names(new, x) = Names(tree, x) \ {g}
  BY <1>2 DEF Renamed
<1>10. /\ s = g => ~into /\ Names(new, i) = Names(tree, i) \ {s}
       /\ s # g /\ ~into => Names(new, i) = (Names(tree, i) \ {s}) \cup {g}
  BY <1>2 DEF Renamed
<1>11. s = g <=> sd = dd /\ sn = dn
  OBVIOUS
<1>12. s = g => i = j
  BY <1>7, <1>11
<1> HIDE DEF s, g
<1>13. /\ tree.kind[i] # "dir" => ~below
       /\ Names(tree, i) = {s} => i \notin Reachable(WithoutEntry(tree, sd, sn))
  BY <1>7, <1>8, ReachedWithout DEF s
<1>14. ASSUME NEW x \in Inode, new.kind[x] = "file", x \notin new.lost
       PROVE  Cardinality(Names(new, x)) = new.links[x]
  <2>1. tree.kind[x] = "file" /\ (into => x # i)
    BY <1>7, <1>8, <1>14
  <2>2. Cardinality(Names(tree, x)) = tree.links[x]
    BY <1>5, <1>14, <2>1 DEF Sound, IsATree
  <2>3. Cardinality(Names(new, x)) = IF x = j THEN Cardinality(Names(tree, x)) - 1 ELSE Cardinality(Names(tree, x))
    BY <1>1, <1>2, <2>1, RenamedCount
  <2>4. x = j => drops
    BY <1>1, <1>5, <1>14
  <2> QED
    BY <1>4, <2>2, <2>3, <2>4
<1>15. ASSUME NEW x \in Inode, new.kind[x] = "dir", x \notin new.lost \cup {Root}
       PROVE  \E m \in Name : Names(new, x) = {<<new.up[x], m>>}
  <2>1. x # j
    BY <1>1, <1>5, <1>7, <1>8, <1>15
  <2>2. PICK m \in Name : Names(tree, x) = {<<tree.up[x], m>>}
    BY <1>5, <1>8, <1>15 DEF Sound, IsATree
  <2>3. CASE x # i
    <3>1. Names(new, x) = Names(tree, x)
      BY <1>8, <1>9, <2>1, <2>3
    <3> QED
      BY <1>6, <2>2, <2>3, <3>1
  <2>4. CASE x = i
    <3>1. Names(tree, i) = {s} /\ tree.up[i] = sd
      BY <1>8, <2>2, <2>4 DEF s
    <3>2. ~below
      BY <1>5, <1>15, <2>4
    <3>3. i # dd
      BY <1>7, <1>13, <3>1, <3>2
    <3>4. s # g /\ ~into
      BY <1>7, <1>12, <2>1, <2>4, <3>3
    <3>5. Names(new, i) = {g}
      BY <1>10, <3>1, <3>4
    <3>6. new.up[i] = dd
      BY <1>6, <1>7, <1>8, <1>15, <2>4, <3>1
    <3> QED
      BY <2>4, <3>5, <3>6 DEF g
  <2> QED
    BY <2>3, <2>4
<1>16. ASSUME NEW x \in Inode, new.kind[x] = "dir"
       PROVE  x \in ReachableFrom(new, {Root} \cup new.lost)
  <2> SUFFICES ASSUME NEW S, Closed(new, {Root} \cup new.lost, S)
               PROVE  x \in S
    BY ReachedFrom
  <2>1. S \in SUBSET Inode /\ Root \in S /\ tree.lost \subseteq S
        /\ (j \in Inode /\ tree.kind[j] = "dir" => j \in S) /\ (below => i \in S)
    BY <1>1, <1>5, <1>7 DEF Closed
  <2>2. ASSUME NEW y \in Inode, tree.kind[y] = "dir", NEW e \in S, NEW m \in Name, tree.entries[e][m] = y
        PROVE  y \in S \/ (y = i /\ e = sd /\ m = sn)
    <3>1. CASE e = dd /\ m = dn
      BY <1>7, <2>1, <2>2, <3>1
    <3>2. CASE into /\ e = i /\ y = i
      BY <2>2, <3>2
    <3>3. CASE ~(e = sd /\ m = sn) /\ ~(e = dd /\ m = dn) /\ ~(into /\ e = i /\ y = i)
      <4>1. new.entries[e][m] = y
        BY <1>3, <2>1, <2>2, <3>3
      <4> QED
        BY <1>8, <2>2, <4>1, ClosedHas
    <3> QED
      BY <1>7, <2>2, <3>1, <3>2, <3>3
  <2>3. ASSUME tree.kind[i] = "dir" PROVE i \in S
    <3>1. CASE below
      BY <2>1, <3>1
    <3>2. CASE ~below
      <4> DEFINE w == WithoutEntry(tree, sd, sn)
      <4>1. w.kind = tree.kind /\ w.entries = [tree.entries EXCEPT ![sd][sn] = None]
        BY <1>1 DEF WithoutEntry, Tree
      <4>2. dd \in Reachable(w)
        BY <1>7, <3>2
      <4>3. \A e \in Inode, m \in Name : w.entries[e][m] = IF e = sd /\ m = sn THEN None ELSE tree.entries[e][m]
        BY <1>1, <4>1, TreeFields
      <4> HIDE DEF w
      <4>4. ASSUME NEW y \in Inode, w.kind[y] = "dir", NEW e \in S, NEW m \in Name, w.entries[e][m] = y
            PROVE  y \in S
        <5>1. ~(e = sd /\ m = sn) /\ tree.entries[e][m] = y
          BY <1>1, <2>1, <4>3, <4>4
        <5> QED
          BY <2>2, <4>1, <4>4, <5>1
      <4>5. Closed(w, {Root}, S)
        BY <2>1, <4>4 DEF Closed, Subdirectories
      <4>6. dd \in S
        BY <4>2, <4>5, ReachedFrom DEF Reachable
      <4>7. CASE into \/ s = g
        BY <1>7, <1>8, <1>12, <2>1, <2>3, <4>6, <4>7
      <4>8. CASE ~into /\ s # g
        <5>1. new.entries[dd][dn] = i
          BY <1>3, <1>11, <4>8 DEF s, g
        <5> QED
          BY <1>8, <2>3, <4>6, <5>1, ClosedHas
      <4> QED
        BY <4>7, <4>8
    <3> QED
      BY <3>1, <3>2
  <2>4. Closed(tree, {Root} \cup tree.lost, S)
    BY <2>1, <2>2, <2>3 DEF Closed, Subdirectories
  <2> QED
    BY <1>8, <1>16, <2>4, ReachedFrom DEF Sound, IsATree
<1>17. LostHaveNoUse(new)
  <2> SUFFICES ASSUME NEW x \in new.lost
               PROVE  new.kind[x] = "dir" \/ (new.kind[x] = "file" /\ Names(new, x) = {})
    BY DEF LostHaveNoUse
  <2>1. CASE x \in tree.lost
    <3>1. x \in Inode /\ (tree.kind[x] = "dir" \/ (tree.kind[x] = "file" /\ Names(tree, x) = {}))
      BY <1>1, <2>1, TreeFields DEF Sound, LostHaveNoUse
    <3>2. tree.kind[x] = "file" => x # i /\ Names(new, x) = {}
      BY <1>8, <1>9, <3>1
    <3> QED
      BY <1>8, <3>1, <3>2
  <2>2. CASE below /\ x = i
    BY <1>8, <1>13, <2>2
  <2>3. CASE j # None /\ ~drops /\ x = j
    <3>1. j \in Inode /\ g \in Names(tree, j)
      BY <1>8, <2>3
    <3>2. tree.kind[j] \in {"file", "dir"}
      BY <1>1, <3>1, TreeFields DEF Live, LinksCoverNames, Kind
    <3>3. ASSUME tree.kind[j] = "file" PROVE Names(new, j) = {}
      <4>1. ~(tree.links[j] > 1) /\ tree.links[j] \in Nat
        BY <1>1, <1>7, <2>3, <3>1, <3>3, TreeFields
      <4>2. Cardinality(Names(tree, j)) <= tree.links[j]
        BY <3>1, <3>3 DEF Live, LinksCoverNames
      <4>3. IsFiniteSet(Names(tree, j)) /\ Cardinality(Names(tree, j)) \in Nat
        BY <1>1, <3>1, NamesOfInode
      <4>4. Cardinality(Names(tree, j)) <= 1
        BY <4>1, <4>2, <4>3
      <4>5. Names(tree, j) = {g}
        BY <3>1, <4>3, <4>4, OneName
      <4>6. CASE j # i
        BY <1>9, <3>1, <4>5, <4>6
      <4>7. CASE j = i
        <5>1. s = g
          BY <1>8, <4>5, <4>7
        <5> QED
          BY <1>10, <4>5, <4>7, <5>1
      <4> QED
        BY <4>6, <4>7
    <3> QED
      BY <1>8, <2>3, <3>2, <3>3
  <2> QED
    BY <1>5, <2>1, <2>2, <2>3
<1> QED
  BY <1>14, <1>15, <1>16, <1>17 DEF Sound, IsATree, new

-----------------------------------------------------------------------------
(* What a call knows of the tree. *)

\* The places of each program at which the call has WinFsp's guard to itself,
\* but for its last step, which gives it back.
GuardHeld ==
  [create |-> 2 .. 7, rename |-> 2 .. 6, delete |-> 2 .. 6, rmdir |-> 5 .. 10, write |-> {},
   set_size |-> {}, set_info |-> {}, flush |-> {}, list |-> {}]

\* The places between what a call reads in front of the journal lock and its commit.
Looked ==
  [create |-> 3 .. 6, rename |-> 3 .. 6, delete |-> 3 .. 6, rmdir |-> {}, write |-> {},
   set_size |-> {}, set_info |-> {}, flush |-> {}, list |-> {}]

\* What a call at place k can rely on, whoever else is at work: directories stay,
\* the file to be deleted is still there by its name, and has no more names
\* than it had links when they were read.  A directory's deletion is never
\* committed.
Knows(c, k, tree) ==
  /\ c.op = "rmdir" => k # 10
  /\ c.op = "create" => tree.kind[c.d] = "dir"
  /\ c.op = "rename" => tree.kind[c.d] = "dir" /\ tree.kind[c.dd] = "dir"
  /\ c.op = "delete" /\ k \in 1 .. 6 =>
       tree.kind[c.d] = "dir" /\ tree.entries[c.d][c.n] = c.i /\ tree.kind[c.i] = "file"
  /\ c.op = "delete" /\ k \in Looked[c.op] => Cardinality(Names(tree, c.i)) <= c.links

\* What it can rely on besides, behind WinFsp's guard.
KnowsAlone(c, k, tree) ==
  /\ c.op = "delete" /\ k \in Looked[c.op] => c.links = tree.links[c.i]
  /\ c.op = "rename" /\ k \in Looked[c.op] => c.d \in Reachable(tree) /\ c.dd \in Reachable(tree)

\* What holds of a thread and its call: it knows the above, has the guard where its
\* program has it, and has made of the transaction what its edit makes.
CallSound(t, c, k, tree, made_of_it, holder, guard) ==
  c # Idle =>
    /\ Knows(c, k, tree)
    /\ guard => KnowsAlone(c, k, tree) /\ (k \in GuardHeld[c.op] => holder = t)
    /\ c.op # "rmdir" /\ k \in Edited[c.op] => made_of_it \in Edits(tree, c)

\* No name is deleted or renamed by two calls.
NamesApart == \A t, u \in Thread : t # u => NamesOf(call[t]) \cap NamesOf(call[u]) = {}

NamespaceInv ==
  /\ Live(ns) /\ (guarded => Sound(ns))
  /\ NamesApart
  /\ \A t \in Thread : CallSound(t, call[t], at[t], ns, txn, writer, guarded)

\* What a step of a program does to what a call knows.
LEMMA KnowingSteps ==
  ASSUME NEW op \in DOMAIN Program, NEW k \in 1 .. Len(Program[op])
  PROVE  LET s == Program[op][k] IN
    /\ k + 1 \in GuardHeld[op] => s = "exclusive" \/ k \in GuardHeld[op]
    /\ s = "leave" => k + 1 \notin GuardHeld[op]
    /\ k + 1 \in Looked[op] => s = "look" \/ k \in Looked[op]
    /\ k \in Looked[op] => k \in GuardHeld[op]
    /\ s \in {"look", "edit", "commit"} /\ op \in {"create", "rename", "delete"} => k \in GuardHeld[op]
    /\ op = "delete" /\ k + 1 \in 1 .. 6 => k \in 1 .. 6 /\ s # "commit"
    /\ op \in {"create", "rename", "delete"} /\ k \in Edited[op] => k \in Looked[op]
    /\ s = "commit" => k + 1 \notin Looked[op] /\ (op = "rmdir" => k = 10)
    /\ op = "rmdir" /\ k + 1 = 10 => s = "read" /\ k \in GroupsHeld[op]
    /\ op # "rmdir" => s # "remove"
    /\ s = "exclusive" => k + 1 \notin Looked[op]
    /\ s = "look" /\ op = "delete" => k \in 1 .. 6
<1> USE DEF Program, GuardHeld, Looked, Edited, GroupsHeld
<1>1. CASE op = "create"   BY <1>1
<1>2. CASE op = "rename"   BY <1>2
<1>3. CASE op = "delete"   BY <1>3
<1>4. CASE op = "rmdir"    BY <1>4
<1>5. CASE op = "write"    BY <1>5
<1>6. CASE op = "set_size" BY <1>6
<1>7. CASE op = "set_info" BY <1>7
<1>8. CASE op = "flush"    BY <1>8
<1>9. CASE op = "list"     BY <1>9
<1> QED
  BY <1>1, <1>2, <1>3, <1>4, <1>5, <1>6, <1>7, <1>8, <1>9, Operation DEF Guarded

\* At its ends a call has nothing of it.
LEMMA KnowingEnds ==
  ASSUME NEW op \in DOMAIN Program
  PROVE  LET n == Len(Program[op]) IN
    /\ 1 \notin GuardHeld[op] /\ 1 \notin Looked[op] /\ n \notin GuardHeld[op] /\ n \notin Looked[op]
    /\ op = "rmdir" => n # 10
    /\ op = "delete" => n \notin 1 .. 6
<1> USE DEF Program, GuardHeld, Looked
<1>1. CASE op = "create"   BY <1>1
<1>2. CASE op = "rename"   BY <1>2
<1>3. CASE op = "delete"   BY <1>3
<1>4. CASE op = "rmdir"    BY <1>4
<1>5. CASE op = "write"    BY <1>5
<1>6. CASE op = "set_size" BY <1>6
<1>7. CASE op = "set_info" BY <1>7
<1>8. CASE op = "flush"    BY <1>8
<1>9. CASE op = "list"     BY <1>9
<1> QED
  BY <1>1, <1>2, <1>3, <1>4, <1>5, <1>6, <1>7, <1>8, <1>9, Operation DEF Guarded

\* A call that goes on, other than by looking or committing.
LEMMA CallGoesOn ==
  ASSUME NEW t, NEW c \in Call, NEW k \in 1 .. Len(Program[c.op]), NEW tree,
         NEW tx, NEW tx2, NEW w, NEW w2, NEW g, CallSound(t, c, k, tree, tx, w, g),
         Program[c.op][k] \notin {"look", "commit"},
         Program[c.op][k] = "exclusive" /\ g => w2 = t,
         Program[c.op][k] \notin {"exclusive", "leave"} => w2 = w,
         Program[c.op][k] \in {"edit", "remove"} => tx2 \in Edits(tree, c),
         Program[c.op][k] \notin {"edit", "remove"} => tx2 = tx,
         ~(c.op = "rmdir" /\ k + 1 = 10)
  PROVE  CallSound(t, c, k + 1, tree, tx2, w2, g)
<1>1. c.op \in DOMAIN Program /\ c # Idle
  BY CallFields
<1>2. /\ Knows(c, k, tree)
      /\ g => KnowsAlone(c, k, tree) /\ (k \in GuardHeld[c.op] => w = t)
      /\ c.op # "rmdir" /\ k \in Edited[c.op] => tx \in Edits(tree, c)
  BY <1>1 DEF CallSound
<1> DEFINE op == c.op
           s == Program[op][k]
<1>3. /\ k + 1 \in GuardHeld[op] => s = "exclusive" \/ k \in GuardHeld[op]
      /\ s = "leave" => k + 1 \notin GuardHeld[op]
      /\ k + 1 \in Looked[op] => s = "look" \/ k \in Looked[op]
      /\ op = "delete" /\ k + 1 \in 1 .. 6 => k \in 1 .. 6
  BY <1>1, KnowingSteps
<1>4. k + 1 \in Edited[op] => s \in {"edit", "remove"} \/ k \in Edited[op]
  BY <1>1, Steps
<1> HIDE DEF op, s
<1>5. Knows(c, k + 1, tree)
  BY <1>2, <1>3 DEF Knows, op, s
<1>6. g => KnowsAlone(c, k + 1, tree)
  BY <1>2, <1>3 DEF KnowsAlone, op, s
<1>7. g /\ k + 1 \in GuardHeld[c.op] => w2 = t
  BY <1>2, <1>3 DEF op, s
<1>8. c.op # "rmdir" /\ k + 1 \in Edited[c.op] => tx2 \in Edits(tree, c)
  BY <1>2, <1>4 DEF op, s
<1> QED
  BY <1>5, <1>6, <1>7, <1>8 DEF CallSound

\* A call that gives up.
LEMMA CallStops ==
  ASSUME NEW t, NEW c \in Call, NEW k, NEW tree, NEW tx, NEW tx2, NEW w, NEW w2, NEW g,
         CallSound(t, c, k, tree, tx, w, g)
  PROVE  CallSound(t, c, Len(Program[c.op]), tree, tx2, w2, g)
<1>1. c.op \in DOMAIN Program /\ c # Idle
  BY CallFields
<1> DEFINE n == Len(Program[c.op])
<1>2. /\ n \notin GuardHeld[c.op] /\ n \notin Looked[c.op] /\ n \notin Edited[c.op]
      /\ c.op = "rmdir" => n # 10
      /\ c.op = "delete" => n \notin 1 .. 6
  BY <1>1, KnowingEnds, Ends
<1> HIDE DEF n
<1>3. Knows(c, n, tree) /\ KnowsAlone(c, n, tree)
  BY <1>1, <1>2 DEF CallSound, Knows, KnowsAlone
<1> QED
  BY <1>2, <1>3 DEF CallSound, n

\* An edit that has what it relies on keeps what every call relies on; one that is
\* about no name leaves the tree alone.
LEMMA EditKeeps ==
  ASSUME NEW tree, Live(tree), NEW c \in Call, c.op # "rmdir", NEW k \in Edited[c.op],
         Knows(c, k, tree), NEW new \in Edits(tree, c)
  PROVE  /\ Live(new) /\ Keeps(tree, new, NamesOf(c))
         /\ c.op \notin {"create", "rename", "delete"} => new = tree
<1>1. c.op \in DOMAIN Program /\ c # Idle /\ tree \in Tree
  BY CallFields DEF Live
<1>2. CASE c.op = "create"
  <2>1. NamesOf(c) = {} /\ c.d \in Inode /\ c.n \in Name /\ c.kind \in {"file", "dir"} /\ c.links \in Nat
    BY <1>1, <1>2, CallFields DEF NamesOf
  <2>2. PICK i \in Inode : /\ tree.kind[i] = "free" /\ tree.entries[c.d][c.n] = None
                           /\ new = create_handle(tree, c.d, c.n, i, c.kind, c.links)
    BY <1>2 DEF Edits
  <2>3. tree.kind[c.d] = "dir"
    BY <1>2 DEF Knows
  <2>4. Live(new) /\ Keeps(tree, new, {})
    BY <2>1, <2>2, <2>3, CreateNames
  <2> QED
    BY <1>2, <2>1, <2>4
<1>3. CASE c.op = "rename"
  <2>1. NamesOf(c) = {<<c.d, c.n>>, <<c.dd, c.dn>>}
        /\ c.d \in Inode /\ c.n \in Name /\ c.dd \in Inode /\ c.dn \in Name
    BY <1>1, <1>3, CallFields DEF NamesOf
  <2>2. ~rename_fails(tree, c.d, c.n, c.dd, c.dn) /\ new = dir_rename(tree, c.d, c.n, c.dd, c.dn)
    BY <1>3 DEF Edits
  <2>3. tree.kind[c.d] = "dir" /\ tree.kind[c.dd] = "dir"
    BY <1>3 DEF Knows
  <2>4. Live(new) /\ Keeps(tree, new, {<<c.d, c.n>>, <<c.dd, c.dn>>})
    BY <2>1, <2>2, <2>3, RenameKeeps
  <2> QED
    BY <1>3, <2>1, <2>4
<1>4. CASE c.op = "delete"
  <2>1. NamesOf(c) = {<<c.d, c.n>>} /\ c.d \in Inode /\ c.n \in Name /\ c.i \in Inode /\ c.links \in Nat
    BY <1>1, <1>4, CallFields DEF NamesOf
  <2>2. new = do_delete(tree, c.d, c.n, c.i, c.links)
    BY <1>4 DEF Edits
  <2>3. k \in 1 .. 6 /\ k \in Looked[c.op]
    BY <1>4 DEF Edited, Looked
  <2>4. /\ tree.kind[c.d] = "dir" /\ tree.entries[c.d][c.n] = c.i /\ tree.kind[c.i] = "file"
        /\ Cardinality(Names(tree, c.i)) <= c.links
    BY <1>4, <2>3 DEF Knows
  <2>5. Live(new) /\ Keeps(tree, new, {<<c.d, c.n>>})
    BY <2>1, <2>2, <2>4, DeleteNames
  <2> QED
    BY <1>4, <2>1, <2>5
<1>5. CASE c.op \notin {"create", "rename", "delete"}
  <2>1. new = tree
    BY <1>5 DEF Edits
  <2>2. Keeps(tree, tree, NamesOf(c))
    <3>1. ASSUME NEW d \in Inode, NEW n \in Name, tree.entries[d][n] # None
          PROVE  /\ Cardinality(Names(tree, tree.entries[d][n])) \in Nat
                 /\ tree.entries[d][n] \in Inode
      BY <1>1, <3>1, TreeFields, NamesOfInode
    <3> QED
      BY <3>1 DEF Keeps
  <2> QED
    BY <1>5, <2>1, <2>2
<1> QED
  BY <1>2, <1>3, <1>4, <1>5

\* Behind WinFsp's guard it keeps the tree sound.
LEMMA EditSound ==
  ASSUME NEW tree, Live(tree), Sound(tree), NEW c \in Call, c.op # "rmdir", NEW k \in Edited[c.op],
         Knows(c, k, tree), KnowsAlone(c, k, tree), NEW new \in Edits(tree, c)
  PROVE  Sound(new)
<1>1. c.op \in DOMAIN Program /\ c # Idle /\ tree \in Tree
  BY CallFields DEF Live
<1>2. CASE c.op = "create"
  <2>1. c.d \in Inode /\ c.n \in Name /\ c.kind \in {"file", "dir"} /\ c.links \in Nat
    BY <1>2, CallFields
  <2>2. PICK i \in Inode : /\ tree.kind[i] = "free" /\ tree.entries[c.d][c.n] = None
                           /\ new = create_handle(tree, c.d, c.n, i, c.kind, c.links)
    BY <1>2 DEF Edits
  <2>3. tree.kind[c.d] = "dir"
    BY <1>2 DEF Knows
  <2> QED
    BY <2>1, <2>2, <2>3, CreateSound
<1>3. CASE c.op = "rename"
  <2>1. c.d \in Inode /\ c.n \in Name /\ c.dd \in Inode /\ c.dn \in Name
    BY <1>3, CallFields
  <2>2. ~rename_fails(tree, c.d, c.n, c.dd, c.dn) /\ new = dir_rename(tree, c.d, c.n, c.dd, c.dn)
    BY <1>3 DEF Edits
  <2>3. c.d \in Reachable(tree) /\ c.dd \in Reachable(tree)
    BY <1>3 DEF KnowsAlone, Edited, Looked
  <2> QED
    BY <2>1, <2>2, <2>3, RenameSound
<1>4. CASE c.op = "delete"
  <2>1. c.d \in Inode /\ c.n \in Name /\ c.i \in Inode
    BY <1>4, CallFields
  <2>2. k \in 1 .. 6 /\ k \in Looked[c.op]
    BY <1>4 DEF Edited, Looked
  <2>3. tree.kind[c.d] = "dir" /\ tree.entries[c.d][c.n] = c.i /\ tree.kind[c.i] = "file"
    BY <1>4, <2>2 DEF Knows
  <2>4. new = do_delete(tree, c.d, c.n, c.i, tree.links[c.i])
    BY <1>4, <2>2 DEF Edits, KnowsAlone
  <2> QED
    BY <2>1, <2>3, <2>4, DeleteSound
<1>5. CASE c.op \notin {"create", "rename", "delete"}
  BY <1>5 DEF Edits
<1> QED
  BY <1>2, <1>3, <1>4, <1>5

\* What another thread's commit leaves a call with: its own names are not the
\* commit's, and behind WinFsp's guard the commit leaves the tree alone.
LEMMA CallBesideCommit ==
  ASSUME NEW t, NEW c \in Call, NEW k, NEW old \in Tree, NEW new \in Tree, NEW own,
         NEW tx, NEW tx2, NEW w, NEW g, CallSound(t, c, k, old, tx, w, g),
         Keeps(old, new, own), own \cap NamesOf(c) = {}, k \notin Edited[c.op],
         new = old \/ (g => k \notin GuardHeld[c.op])
  PROVE  CallSound(t, c, k, new, tx2, w, g)
<1>1. c.op \in DOMAIN Program /\ c # Idle
  BY CallFields
<1>2. /\ Knows(c, k, old)
      /\ g => KnowsAlone(c, k, old) /\ (k \in GuardHeld[c.op] => w = t)
  BY <1>1 DEF CallSound
<1>3. c.op = "create" => new.kind[c.d] = "dir"
  BY <1>2, CallFields DEF Knows, Keeps
<1>4. c.op = "rename" => new.kind[c.d] = "dir" /\ new.kind[c.dd] = "dir"
  BY <1>2, CallFields DEF Knows, Keeps
<1>5. ASSUME c.op = "delete", k \in 1 .. 6
      PROVE  /\ new.kind[c.d] = "dir" /\ new.entries[c.d][c.n] = c.i /\ new.kind[c.i] = "file"
             /\ k \in Looked[c.op] => Cardinality(Names(new, c.i)) <= c.links
  <2>1. c.d \in Inode /\ c.n \in Name /\ c.i \in Inode /\ c.links \in Nat /\ <<c.d, c.n>> \notin own
    BY <1>1, <1>5, CallFields DEF NamesOf
  <2>2. old.kind[c.d] = "dir" /\ old.entries[c.d][c.n] = c.i /\ old.kind[c.i] = "file" /\ c.i # None
    BY <1>2, <1>5, <2>1, NamespaceAssumption DEF Knows
  <2>3. /\ new.kind[c.d] = "dir" /\ new.entries[c.d][c.n] = c.i /\ new.kind[c.i] = "file"
        /\ Cardinality(Names(new, c.i)) <= Cardinality(Names(old, c.i))
    BY <2>1, <2>2 DEF Keeps
  <2>4. Cardinality(Names(new, c.i)) \in Nat /\ Cardinality(Names(old, c.i)) \in Nat
    BY <2>1, NamesOfInode
  <2>5. k \in Looked[c.op] => Cardinality(Names(old, c.i)) <= c.links
    BY <1>2, <1>5 DEF Knows
  <2> QED
    BY <2>1, <2>3, <2>4, <2>5
<1>6. Knows(c, k, new)
  <2>1. c.op = "delete" /\ k \in Looked[c.op] => k \in 1 .. 6
    BY DEF Looked
  <2> QED
    BY <1>2, <1>3, <1>4, <1>5, <2>1 DEF Knows
<1>7. g => KnowsAlone(c, k, new)
  <2>1. c.op \in {"rename", "delete"} /\ k \in Looked[c.op] => k \in GuardHeld[c.op]
    BY DEF Looked, GuardHeld
  <2> QED
    BY <1>2, <2>1 DEF KnowsAlone
<1> QED
  BY <1>2, <1>6, <1>7 DEF CallSound

-----------------------------------------------------------------------------
(* The steps, each for the call of its own thread and for the others'. *)

\* A step that commits nothing, and gives WinFsp's guard to nobody else.
LEMMA OthersSound ==
  ASSUME HandlersInv, NamespaceInv, NEW t \in Thread, Others(t), UNCHANGED <<ns, guarded>>,
         txn' = txn \/ InJournal(t),
         \A u \in Thread \ {t} : writer' = u => writer = u,
         \A u \in Thread \ {t} : writer = u => writer' = u,
         \A u \in Thread \ {t} : NamesOf(call'[t]) \cap NamesOf(call[u]) = {},
         CallSound(t, call'[t], at'[t], ns, txn', writer', guarded)
  PROVE  NamespaceInv'
<1>1. ASSUME NEW u \in Thread \ {t}
      PROVE  CallSound(u, call'[u], at'[u], ns, txn', writer', guarded)
  <2>1. call'[u] = call[u] /\ at'[u] = at[u] /\ (writer = u => writer' = u)
    BY DEF Others
  <2>2. CallSound(u, call[u], at[u], ns, txn, writer, guarded)
    BY DEF NamespaceInv
  <2>3. txn' = txn \/ call[u] = Idle \/ at[u] \notin Edited[call[u].op]
    BY OnlyOneEdited DEF InEdited, Op
  <2> QED
    BY <2>1, <2>2, <2>3 DEF CallSound
<1>2. \A u \in Thread : CallSound(u, call'[u], at'[u], ns', txn', writer', guarded')
  BY <1>1
<1>3. NamesApart'
  <2>1. \A u, v \in Thread : u # v => NamesOf(call[u]) \cap NamesOf(call[v]) = {}
    BY DEF NamespaceInv, NamesApart
  <2>2. \A u \in Thread \ {t} : call'[u] = call[u]
    BY DEF Others
  <2>3. \A u, v \in Thread : u # v => NamesOf(call'[u]) \cap NamesOf(call'[v]) = {}
    BY <2>1, <2>2
  <2> QED
    BY <2>3 DEF NamesApart
<1>4. Live(ns') /\ (guarded' => Sound(ns'))
  BY DEF NamespaceInv
<1> QED
  BY <1>2, <1>3, <1>4 DEF NamespaceInv

\* What a call has once it returns or goes on with the same names.
LEMMA NamesKept ==
  ASSUME NamespaceInv, NEW t \in Thread,
         call'[t] = Idle \/ NamesOf(call'[t]) = NamesOf(call[t])
  PROVE  \A u \in Thread \ {t} : NamesOf(call'[t]) \cap NamesOf(call[u]) = {}
<1>1. NamesOf(Idle) = {}
  BY DEF NamesOf
<1>2. \A u \in Thread \ {t} : NamesOf(call[t]) \cap NamesOf(call[u]) = {}
  BY DEF NamespaceInv, NamesApart
<1> QED
  BY <1>1, <1>2

\* Advance, other than by a commit.
LEMMA AdvanceSound ==
  ASSUME HandlersInv, NamespaceInv, NEW t \in Thread, call[t] # Idle, Advance(t), UNCHANGED <<ns, guarded>>,
         Step(t) \notin {"look", "commit"},
         Step(t) = "exclusive" /\ guarded => writer = None /\ writer' = t,
         Step(t) = "exclusive" /\ ~guarded => writer' = writer,
         Step(t) = "leave" => writer' = (IF writer = t THEN None ELSE writer),
         Step(t) \notin {"exclusive", "leave"} => writer' = writer,
         Step(t) \in {"edit", "remove"} => txn' \in Edits(ns, call[t]),
         Step(t) \notin {"edit", "remove"} => txn' = txn,
         Step(t) = "read" => gdt = None
  PROVE  NamespaceInv'
<1>1. /\ call[t] \in Call /\ Op(t) \in DOMAIN Program /\ at[t] \in 1 .. Len(Program[Op(t)])
      /\ Step(t) = Program[Op(t)][at[t]] /\ Op(t) = call[t].op
  BY StepFacts DEF Op
<1>2. Proceeds(t) /\ Others(t)
  BY AdvanceProceeds DEF Proceeds
<1>3. txn' = txn \/ InJournal(t)
  BY StepFacts
<1>4. \A u \in Thread \ {t} : (writer' = u => writer = u) /\ (writer = u => writer' = u)
  BY HandlersAssumption
<1>5. ~(Op(t) = "rmdir" /\ at[t] + 1 = 10)
  <2>1. Op(t) = "rmdir" /\ at[t] + 1 = 10 => Step(t) = "read" /\ InGroups(t)
    BY <1>1, KnowingSteps DEF InGroups
  <2> QED
    BY <2>1, HandlersAssumption DEF HandlersInv, MutexesInPlace
<1>6. CallSound(t, call[t], at[t], ns, txn, writer, guarded)
  BY DEF NamespaceInv
<1>7. CallSound(t, call[t], at[t] + 1, ns, txn', writer', guarded)
  BY <1>1, <1>5, <1>6, CallGoesOn
<1>8. \/ call'[t] = call[t] /\ at'[t] = at[t] + 1
      \/ call'[t] = Idle
  <2>1. call \in [Thread -> Call \cup {Idle}] /\ at \in [Thread -> Nat]
    BY DEF HandlersInv, CallsInPlace
  <2> QED
    BY <2>1 DEF Advance
<1>9. CallSound(t, call'[t], at'[t], ns, txn', writer', guarded)
  BY <1>7, <1>8 DEF CallSound
<1>10. \A u \in Thread \ {t} : NamesOf(call'[t]) \cap NamesOf(call[u]) = {}
  BY <1>8, NamesKept
<1> QED
  BY <1>2, <1>3, <1>4, <1>9, <1>10, OthersSound

\* Giving up.
LEMMA GiveUpSound ==
  ASSUME HandlersInv, NamespaceInv, NEW t \in Thread, call[t] # Idle, GiveUp(t),
         UNCHANGED <<ns, txn, writer, guarded>>
  PROVE  NamespaceInv'
<1>1. call[t] \in Call /\ Op(t) = call[t].op
  BY StepFacts DEF Op
<1>2. Stops(t) /\ Others(t)
  BY GiveUpStops DEF Stops
<1>3. CallSound(t, call[t], at[t], ns, txn, writer, guarded)
  BY DEF NamespaceInv
<1>4. CallSound(t, call[t], Len(Program[call[t].op]), ns, txn', writer', guarded)
  BY <1>1, <1>3, CallStops
<1>5. \/ call'[t] = call[t] /\ at'[t] = Len(Program[call[t].op])
      \/ call'[t] = Idle
  BY <1>1, <1>2 DEF Stops
<1>6. CallSound(t, call'[t], at'[t], ns, txn', writer', guarded)
  BY <1>4, <1>5 DEF CallSound
<1>7. \A u \in Thread \ {t} : NamesOf(call'[t]) \cap NamesOf(call[u]) = {}
  BY <1>5, NamesKept
<1> QED
  BY <1>2, <1>6, <1>7, OthersSound

\* The steps that are about the locks or read what nobody goes by.
LEMMA LockingSound ==
  ASSUME HandlersInv, NamespaceInv, NEW t \in Thread,
         \/ EnterShared(t) \/ EnterExclusive(t) \/ Leave(t)
         \/ ReadInode(t) \/ Sync(t) \/ Check(t)
         \/ LockJournal(t) \/ LockGroups(t)
  PROVE  NamespaceInv'
<1>1. CASE EnterShared(t)
  BY <1>1, AdvanceSound DEF EnterShared, Goes, At
<1>2. CASE EnterExclusive(t)
  BY <1>2, AdvanceSound DEF EnterExclusive, Goes, At, MayGo
<1>3. CASE Leave(t)
  BY <1>3, AdvanceSound DEF Leave, Goes, At
<1>4. CASE ReadInode(t)
  BY <1>4, AdvanceSound DEF ReadInode, Goes, At, MayGo, locks
<1>5. CASE Sync(t)
  BY <1>5, AdvanceSound DEF Sync, Goes, At, locks
<1>6. CASE Check(t)
  BY <1>6, AdvanceSound, GiveUpSound DEF Check, Goes, At, locks
<1>7. CASE LockJournal(t)
  BY <1>7, AdvanceSound DEF LockJournal, Goes, At
<1>8. CASE LockGroups(t)
  BY <1>8, AdvanceSound DEF LockGroups, Goes, At
<1> QED
  BY <1>1, <1>2, <1>3, <1>4, <1>5, <1>6, <1>7, <1>8

\* An edit makes of the transaction what it says, or the call gives up.
LEMMA EditingSound ==
  ASSUME HandlersInv, NamespaceInv, NEW t \in Thread, Edit(t)
  PROVE  NamespaceInv'
<1>1. call[t] # Idle /\ Step(t) \in {"edit", "remove"} /\ UNCHANGED <<ns, writer, guarded>>
  BY DEF Edit
<1>2. CASE txn' \in Edits(ns, call[t]) /\ Advance(t)
  BY <1>1, <1>2, AdvanceSound
<1>3. CASE GiveUp(t) /\ UNCHANGED txn
  BY <1>1, <1>3, GiveUpSound
<1> QED
  BY <1>2, <1>3 DEF Edit

\* What a call reads in front of the journal lock is so when it is read: the links
\* of a file are no fewer than its names.
LEMMA LookingSound ==
  ASSUME HandlersInv, NamespaceInv, NEW t \in Thread, Look(t)
  PROVE  NamespaceInv'
<1> DEFINE c == call[t]
           k == at[t]
<1>1. c # Idle /\ Step(t) = "look" /\ UNCHANGED <<ns, txn, writer, guarded>>
  BY DEF Look, Goes, At, locks
<1>2. /\ c \in Call /\ c.op \in {"create", "rename", "delete", "rmdir"} /\ c.op \in DOMAIN Program
      /\ k \in 1 .. Len(Program[c.op]) /\ Program[c.op][k] = "look"
      /\ k < Len(Program[c.op])
  BY <1>1, StepFacts, Steps DEF Op
<1>3. call \in [Thread -> Call \cup {Idle}] /\ at \in [Thread -> Nat] /\ ns \in Tree /\ Live(ns)
  BY DEF HandlersInv, CallsInPlace, TreesInPlace, NamespaceInv
<1>4. CASE GiveUp(t)
  BY <1>1, <1>4, GiveUpSound
<1>5. CASE /\ Allowed(c)
           /\ at' = [at EXCEPT ![t] = @ + 1]
           /\ call' = IF c.op = "rename" THEN call ELSE [call EXCEPT ![t].links = LinksRead(c)]
  <2> DEFINE c2 == IF c.op = "rename" THEN c ELSE [c EXCEPT !.links = LinksRead(c)]
  <2>1. call'[t] = c2 /\ at'[t] = k + 1 /\ \A u \in Thread \ {t} : call'[u] = call[u] /\ at'[u] = at[u]
    BY <1>3, <1>5
  <2>2. c.op # "rename" => LinksRead(c) \in Nat
    BY <1>2, <1>3, CallFields, TreeFields DEF LinksRead
  <2>3. /\ c2 \in Call /\ c2.op = c.op /\ c2.d = c.d /\ c2.n = c.n
        /\ c.op = "rename" => c2 = c
        /\ c.op \in {"delete", "rmdir"} => c2.i = c.i
        /\ c.op # "rename" => c2.links = LinksRead(c)
    <3>1. CASE c.op = "rename"
      BY <1>2, <3>1
    <3>2. CASE c.op = "create"
      BY <1>2, <2>2, <3>2 DEF Call
    <3>3. CASE c.op \in {"delete", "rmdir"}
      BY <1>2, <2>2, <3>3 DEF Call
    <3> QED
      BY <1>2, <3>1, <3>2, <3>3
  <2>4. call' \in [Thread -> Call \cup {Idle}] /\ at' \in [Thread -> Nat]
    BY <1>3, <1>5, <2>1, <2>3
  <2>5. CallSound(t, c, k, ns, txn, writer, guarded)
    BY DEF NamespaceInv
  <2> HIDE DEF c, k, c2
  <2>6. c # Idle /\ c2 # Idle
    BY <1>1, <2>3, CallFields
  <2>7. /\ Knows(c, k, ns)
        /\ guarded => KnowsAlone(c, k, ns) /\ (k \in GuardHeld[c.op] => writer = t)
    BY <2>5, <2>6 DEF CallSound
  <2>8. /\ k + 1 \in GuardHeld[c.op] => k \in GuardHeld[c.op]
        /\ c.op = "rmdir" => k + 1 # 10
        /\ c.op = "delete" => k \in 1 .. 6
        /\ k + 1 \notin Edited[c.op]
    BY <1>2, KnowingSteps, Steps
  <2>9. Knows(c2, k + 1, ns)
    <3>1. c.op = "delete" => Cardinality(Names(ns, c2.i)) <= c2.links
      <4>1. ASSUME c.op = "delete"
            PROVE  c.i \in Inode /\ ns.kind[c.i] = "file" /\ LinksRead(c) = ns.links[c.i]
        BY <1>2, <2>7, <2>8, <4>1, CallFields DEF Knows, LinksRead
      <4> QED
        BY <1>3, <2>3, <4>1 DEF Live, LinksCoverNames
    <3> QED
      BY <2>3, <2>7, <2>8, <3>1 DEF Knows
  <2>10. KnowsAlone(c2, k + 1, ns)
    <3>1. c.op = "rename" => c.d \in Reachable(ns) /\ c.dd \in Reachable(ns)
      BY <1>5 DEF Allowed, c
    <3>2. c.op = "delete" => LinksRead(c) = ns.links[c.i]
      BY DEF LinksRead
    <3> QED
      BY <2>3, <3>1, <3>2 DEF KnowsAlone
  <2>11. CallSound(t, c2, k + 1, ns, txn, writer, guarded)
    BY <2>3, <2>7, <2>8, <2>9, <2>10 DEF CallSound
  <2>12. NamesOf(c2) = NamesOf(c)
    BY <1>2, <2>3, <2>6 DEF NamesOf
  <2>13. \A u \in Thread \ {t} : NamesOf(call'[t]) \cap NamesOf(call[u]) = {}
    BY <2>1, <2>12, NamesKept DEF c
  <2>14. Others(t)
    BY <2>1, <2>4 DEF Others
  <2>15. CallSound(t, call'[t], at'[t], ns, txn', writer', guarded)
    BY <1>1, <2>1, <2>11
  <2> QED
    BY <1>1, <2>13, <2>14, <2>15, OthersSound
<1> QED
  BY <1>4, <1>5 DEF Look

\* A commit is of an edit that has what it relies on, and takes from no other call
\* what that one relies on.
LEMMA CommitSound ==
  ASSUME HandlersInv, NamespaceInv, NEW t \in Thread, Commit(t)
  PROVE  NamespaceInv'
<1> DEFINE c == call[t]
           k == at[t]
<1>1. /\ c # Idle /\ Step(t) = "commit" /\ Advance(t) /\ ns' = txn
      /\ UNCHANGED <<writer, guarded>>
  BY DEF Commit, Goes, At
<1>2. /\ c \in Call /\ c.op \in DOMAIN Program
      /\ k \in 1 .. Len(Program[c.op]) /\ Program[c.op][k] = "commit"
      /\ InJournal(t) /\ k \in Edited[c.op]
  BY <1>1, StepFacts DEF Op, InEdited
<1>3. Others(t)
  BY <1>1, AdvanceProceeds DEF Proceeds
<1>4. /\ Live(ns) /\ (guarded => Sound(ns)) /\ NamesApart
      /\ \A u \in Thread : CallSound(u, call[u], at[u], ns, txn, writer, guarded)
  BY DEF NamespaceInv
<1>5. \/ call'[t] = c /\ at'[t] = k + 1
      \/ call'[t] = Idle
  <2>1. call \in [Thread -> Call \cup {Idle}] /\ at \in [Thread -> Nat]
    BY DEF HandlersInv, CallsInPlace
  <2> QED
    BY <1>1, <2>1 DEF Advance
<1>6. CallSound(t, c, k, ns, txn, writer, guarded)
  BY <1>4
<1>7. \A u \in Thread \ {t} : NamesOf(call'[t]) \cap NamesOf(call[u]) = {}
  BY <1>5, NamesKept
<1>8. \A u \in Thread \ {t} : NamesOf(c) \cap NamesOf(call[u]) = {}
  BY <1>4 DEF NamesApart
<1>9. \A u \in Thread \ {t} : call[u] # Idle => at[u] \notin Edited[call[u].op]
  BY <1>2, OnlyOneEdited DEF InEdited, Op
<1>10. \A u \in Thread \ {t} : call[u] # Idle => call[u] \in Call
  BY DEF HandlersInv, CallsInPlace
<1> HIDE DEF c, k
<1>11. /\ Knows(c, k, ns)
       /\ guarded => KnowsAlone(c, k, ns) /\ (k \in GuardHeld[c.op] => writer = t)
       /\ c.op # "rmdir" => txn \in Edits(ns, c)
  BY <1>1, <1>2, <1>6 DEF CallSound
<1>12. c.op # "rmdir"
  BY <1>2, <1>11, KnowingSteps DEF Knows
<1>13. /\ Live(txn) /\ Keeps(ns, txn, NamesOf(c))
       /\ c.op \notin {"create", "rename", "delete"} => txn = ns
  BY <1>2, <1>4, <1>11, <1>12, EditKeeps
<1>14. guarded => Sound(txn)
  BY <1>2, <1>4, <1>11, <1>12, EditSound
<1>15. txn = ns \/ (guarded => writer = t)
  BY <1>2, <1>11, <1>13, KnowingSteps
<1>16. CallSound(t, c, k + 1, txn, txn', writer, guarded)
  <2>1. /\ k + 1 \in GuardHeld[c.op] => k \in GuardHeld[c.op]
        /\ k + 1 \notin Looked[c.op] /\ k + 1 \notin Edited[c.op]
        /\ c.op = "delete" => k + 1 \notin 1 .. 6
    BY <1>2, KnowingSteps, Steps
  <2>2. Knows(c, k + 1, txn)
    <3>1. c.op = "create" => txn.kind[c.d] = "dir"
      BY <1>2, <1>11, <1>13, CallFields DEF Knows, Keeps
    <3>2. c.op = "rename" => txn.kind[c.d] = "dir" /\ txn.kind[c.dd] = "dir"
      BY <1>2, <1>11, <1>13, CallFields DEF Knows, Keeps
    <3> QED
      BY <1>12, <2>1, <3>1, <3>2 DEF Knows
  <2>3. KnowsAlone(c, k + 1, txn)
    BY <2>1 DEF KnowsAlone
  <2> QED
    BY <1>11, <2>1, <2>2, <2>3 DEF CallSound
<1>17. ASSUME NEW u \in Thread \ {t}
       PROVE  CallSound(u, call[u], at[u], txn, txn', writer, guarded)
  <2>1. CASE call[u] = Idle
    BY <2>1 DEF CallSound
  <2>2. CASE call[u] # Idle
    <3>1. CallSound(u, call[u], at[u], ns, txn, writer, guarded)
      BY <1>4
    <3>2. guarded /\ at[u] \in GuardHeld[call[u].op] => writer = u
      BY <2>2, <3>1 DEF CallSound
    <3>3. txn = ns \/ (guarded => at[u] \notin GuardHeld[call[u].op])
      BY <1>15, <3>2
    <3>4. call[u] \in Call /\ at[u] \notin Edited[call[u].op] /\ NamesOf(c) \cap NamesOf(call[u]) = {}
      BY <1>8, <1>9, <1>10, <2>2
    <3>5. ns \in Tree /\ txn \in Tree
      BY <1>4, <1>13 DEF Live
    <3> QED
      BY <1>13, <3>1, <3>3, <3>4, <3>5, CallBesideCommit
  <2> QED
    BY <2>1, <2>2
<1>18. \A u \in Thread : CallSound(u, call'[u], at'[u], ns', txn', writer', guarded')
  <2>1. CallSound(t, call'[t], at'[t], txn, txn', writer, guarded)
    BY <1>5, <1>16 DEF CallSound
  <2>2. \A u \in Thread \ {t} : CallSound(u, call'[u], at'[u], txn, txn', writer, guarded)
    BY <1>3, <1>17 DEF Others
  <2> QED
    BY <1>1, <2>1, <2>2
<1>19. NamesApart'
  <2>1. \A u \in Thread \ {t} : call'[u] = call[u]
    BY <1>3 DEF Others
  <2>2. \A u, v \in Thread : u # v => NamesOf(call'[u]) \cap NamesOf(call'[v]) = {}
    BY <1>4, <1>7, <2>1 DEF NamesApart
  <2> QED
    BY <2>2 DEF NamesApart
<1>20. Live(ns') /\ (guarded' => Sound(ns'))
  BY <1>1, <1>13, <1>14
<1> QED
  BY <1>18, <1>19, <1>20 DEF NamespaceInv

\* What a call asks for is there when it begins, and no other call's.
LEMMA BeginningSound ==
  ASSUME HandlersInv, NamespaceInv, NEW t \in Thread, Begin(t)
  PROVE  NamespaceInv'
<1>1. UNCHANGED <<ns, txn, writer, guarded>> /\ at' = [at EXCEPT ![t] = 1]
  BY DEF Begin, locks
<1>2. call \in [Thread -> Call \cup {Idle}] /\ at \in [Thread -> Nat] /\ ns \in Tree
  BY DEF HandlersInv, CallsInPlace, TreesInPlace
<1>3. PICK c \in Calls(t) : call' = [call EXCEPT ![t] = c]
  BY DEF Begin
<1>4. c \in Call /\ c.op \in DOMAIN Program /\ c # Idle
  BY <1>2, CallsTyped, CallFields
<1>5. Others(t) /\ call'[t] = c /\ at'[t] = 1
  BY <1>1, <1>2, <1>3, <1>4 DEF Others
<1>6. \A i \in Reachable(ns) : ns.kind[i] = "dir"
  BY ReachedAreDirectories DEF NamespaceInv, Live
<1> DEFINE Taken == UNION {NamesOf(call[u]) : u \in Thread \ {t}}
<1>7. /\ c.op = "create" => ns.kind[c.d] = "dir"
      /\ c.op = "rename" => ns.kind[c.d] = "dir" /\ ns.kind[c.dd] = "dir"
      /\ c.op = "delete" => ns.kind[c.d] = "dir" /\ ns.entries[c.d][c.n] = c.i /\ ns.kind[c.i] = "file"
      /\ c.op = "rename" => <<c.d, c.n>> \notin Taken /\ <<c.dd, c.dn>> \notin Taken
      /\ c.op \in {"delete", "rmdir"} => <<c.d, c.n>> \notin Taken
  <2> DEFINE Places == Reachable(ns) \X Name
             Named(k) == {e \in Places : ns.entries[e[1]][e[2]] # None /\ ns.kind[ns.entries[e[1]][e[2]]] = k} \ Taken
  <2>1. /\ \A e \in Places : ns.kind[e[1]] = "dir" /\ e = <<e[1], e[2]>>
        /\ \A k : \A e \in Named(k) : e \in Places /\ e \notin Taken /\ ns.kind[ns.entries[e[1]][e[2]]] = k
    BY <1>6
  <2>2. \/ c \in Creations(Places)
        \/ c \in Renamings(Named("file") \cup Named("dir"), Places \ Taken)
        \/ c \in Deletions("delete", Named("file")) \/ c \in Deletions("rmdir", Named("dir"))
        \/ c \in [op : {"write", "set_size", "set_info", "flush", "list"}]
    BY <1>3 DEF Calls
  <2> HIDE DEF Places, Named, Taken
  <2>3. CASE c \in Creations(Places)
    <3>1. c.op = "create" /\ \E e \in Places : c.d = e[1]
      BY <2>3 DEF Creations
    <3> QED
      BY <2>1, <3>1
  <2>4. CASE c \in Renamings(Named("file") \cup Named("dir"), Places \ Taken)
    <3>1. /\ c.op = "rename"
          /\ \E e \in Named("file") \cup Named("dir"), f \in Places \ Taken :
               c.d = e[1] /\ c.n = e[2] /\ c.dd = f[1] /\ c.dn = f[2]
      BY <2>4 DEF Renamings
    <3> QED
      BY <2>1, <3>1
  <2>5. ASSUME NEW o, NEW k, c \in Deletions(o, Named(k))
        PROVE  /\ c.op = o /\ ns.kind[c.d] = "dir" /\ ns.entries[c.d][c.n] = c.i /\ ns.kind[c.i] = k
               /\ <<c.d, c.n>> \notin Taken
    <3>1. c.op = o /\ \E e \in Named(k) : c.d = e[1] /\ c.n = e[2] /\ c.i = ns.entries[e[1]][e[2]]
      BY <2>5 DEF Deletions
    <3> QED
      BY <2>1, <3>1
  <2>6. CASE c \in [op : {"write", "set_size", "set_info", "flush", "list"}]
    BY <2>6
  <2>7. CASE c \in Deletions("delete", Named("file"))
    BY <2>5, <2>7
  <2>8. CASE c \in Deletions("rmdir", Named("dir"))
    BY <2>5, <2>8
  <2> QED
    BY <2>2, <2>3, <2>4, <2>6, <2>7, <2>8
<1>8. NamesOf(c) \cap Taken = {}
  BY <1>4, <1>7 DEF NamesOf
<1>9. \A u \in Thread \ {t} : NamesOf(call'[t]) \cap NamesOf(call[u]) = {}
  BY <1>5, <1>8
<1>10. 1 \notin GuardHeld[c.op] /\ 1 \notin Looked[c.op] /\ 1 \notin Edited[c.op]
  BY <1>4, KnowingEnds, Ends
<1>11. Knows(c, 1, ns) /\ KnowsAlone(c, 1, ns)
  BY <1>7, <1>10 DEF Knows, KnowsAlone
<1>12. CallSound(t, call'[t], at'[t], ns, txn', writer', guarded)
  BY <1>1, <1>5, <1>10, <1>11 DEF CallSound
<1> QED
  BY <1>1, <1>5, <1>9, <1>12, OthersSound

-----------------------------------------------------------------------------
(* The invariant of the names, and what follows from it. *)

\* A volume is mounted with a tree that e2fsck passes.
LEMMA InitNamespace == ASSUME Init PROVE NamespaceInv
<1>1. ns \in Tree /\ Consistent(ns)
  BY HandlersAssumption, TreesAssumption DEF Init
<1>2. Live(ns) /\ Sound(ns)
  BY <1>1 DEF Consistent, Live, Sound, LostHaveNoUse
<1>3. \A t \in Thread : call[t] = Idle
  BY DEF Init
<1>4. NamesApart
  BY <1>3 DEF NamesApart, NamesOf
<1> QED
  BY <1>2, <1>3, <1>4 DEF NamespaceInv, CallSound

\* Every step keeps it, where the locks are where they belong.
LEMMA NamespaceStep == ASSUME HandlersInv, NamespaceInv, [Next]_vars PROVE NamespaceInv'
<1>1. CASE UNCHANGED vars
  BY <1>1 DEF vars, locks, NamespaceInv, NamesApart
<1>2. CASE \E t \in Thread : Begin(t)
  BY <1>2, BeginningSound
<1>3. CASE \E t \in Thread : StepOf(t)
  <2>1. PICK t \in Thread : StepOf(t)
    BY <1>3
  <2>2. CASE Look(t)
    BY <2>2, LookingSound
  <2>3. CASE Edit(t)
    BY <2>3, EditingSound
  <2>4. CASE Commit(t)
    BY <2>4, CommitSound
  <2>5. CASE ~Look(t) /\ ~Edit(t) /\ ~Commit(t)
    BY <2>1, <2>5, LockingSound DEF StepOf
  <2> QED
    BY <2>2, <2>3, <2>4, <2>5
<1> QED
  BY <1>1, <1>2, <1>3 DEF Next

\* What a call read in front of the journal lock still serves it behind it: every
\* directory is one, the file it deletes is there by its name with no more names
\* than it had links, and where WinFsp's guard is there the links and the paths
\* are those it read.
THEOREM NamespaceInvariant == Spec => [](HandlersInv /\ NamespaceInv)
<1>1. Init => HandlersInv /\ NamespaceInv
  BY InitHandlers, InitNamespace
<1>2. HandlersInv /\ NamespaceInv /\ [Next]_vars => HandlersInv' /\ NamespaceInv'
  BY HandlersStep, NamespaceStep
<1> QED
  BY <1>1, <1>2, PTL DEF Spec

\* Whatever the number of threads, and also without WinFsp's guard: no name stands
\* for an inode that was freed, and a file has no more names than links, although
\* do_delete and create_handle go by counts they read before the lock.
THEOREM NamesAreLiveTheorem == Spec => []NamesAreLive
<1>1. NamespaceInv => NamesAreLive
  BY DEF NamespaceInv, Live, NamesAreLive
<1> QED
  BY <1>1, NamespaceInvariant, PTL

\* With WinFsp's guard the tree stays one, but for what a rename has lost: links
\* and names agree, a directory has one name where its ".." says, and each is
\* found from the root or from a lost one.
THEOREM TreeIsSoundTheorem == Spec => []TreeIsSound
<1>1. NamespaceInv => TreeIsSound
  BY DEF NamespaceInv, Sound, TreeIsSound
<1> QED
  BY <1>1, NamespaceInvariant, PTL
=============================================================================
