------------------------------ MODULE Handlers ------------------------------
(***************************************************************************)
(* The calls WinFsp's dispatcher threads make of the file system: what     *)
(* each one reads before it has a lock, the order in which it takes the    *)
(* two locks of Ext4Fs, and what its transaction makes of the tree.        *)
(*                                                                         *)
(* A call is a sequence of steps, one for each thing another thread can    *)
(* see.  The journal lock is held from a transaction's start to its end.   *)
(* The group lock guards the descriptors in memory: a read of an inode or  *)
(* of a directory takes it for that read, an edit for all its work.        *)
(* Neither lock is reentrant.  The tree on disk changes when a transaction *)
(* is committed, under the journal lock alone.                             *)
(*                                                                         *)
(* WinFsp adds its own guard, outside this program: by its default one     *)
(* call that makes, renames or deletes excludes all others that go by      *)
(* names.  A behaviour has it or not, as guarded says.                     *)
(***************************************************************************)
EXTENDS Namespace, Sequences

CONSTANTS
  Thread,
  Operations, \* what the threads ask for
  Trees,      \* the trees a volume may have when it is mounted
  MaxCalls,   \* bound: calls in all
  Idle        \* of a thread without a call

\* Mutant: set_basic_info_cb takes the group lock first.
Program_groups_first ==
  [create   |-> <<"exclusive", "look", "journal", "gdt", "edit", "commit", "read", "leave">>,
   rename   |-> <<"exclusive", "look", "journal", "gdt", "edit", "commit", "leave">>,
   delete   |-> <<"exclusive", "look", "journal", "gdt", "edit", "commit", "leave">>,
   rmdir    |-> <<"shared", "check", "leave", "exclusive", "look", "journal", "gdt", "remove", "read",
                  "commit", "leave">>,
   write    |-> <<"journal", "read", "gdt", "edit", "commit", "read">>,
   set_size |-> <<"read", "journal", "gdt", "edit", "read", "commit", "read">>,
   set_info |-> <<"gdt", "journal", "edit", "commit", "read">>,
   flush    |-> <<"sync">>,
   list     |-> <<"shared", "read", "read", "leave">>]

\* Mutant: rename_handle takes the journal twice.
Program_rename_waits ==
  [create   |-> <<"exclusive", "look", "journal", "gdt", "edit", "commit", "read", "leave">>,
   rename   |-> <<"exclusive", "look", "journal", "gdt", "edit", "commit", "journal", "leave">>,
   delete   |-> <<"exclusive", "look", "journal", "gdt", "edit", "commit", "leave">>,
   rmdir    |-> <<"shared", "check", "leave", "exclusive", "look", "journal", "gdt", "remove", "read",
                  "commit", "leave">>,
   write    |-> <<"journal", "read", "gdt", "edit", "commit", "read">>,
   set_size |-> <<"read", "journal", "gdt", "edit", "read", "commit", "read">>,
   set_info |-> <<"journal", "gdt", "edit", "commit", "read">>,
   flush    |-> <<"sync">>,
   list     |-> <<"shared", "read", "read", "leave">>]

\* The steps of each call.
Program ==
  [create   |-> <<"exclusive", "look", "journal", "gdt", "edit", "commit", "read", "leave">>,
   rename   |-> <<"exclusive", "look", "journal", "gdt", "edit", "commit", "leave">>,
   delete   |-> <<"exclusive", "look", "journal", "gdt", "edit", "commit", "leave">>,
   rmdir    |-> <<"shared", "check", "leave", "exclusive", "look", "journal", "gdt", "remove", "read",
                  "commit", "leave">>,
   write    |-> <<"journal", "read", "gdt", "edit", "commit", "read">>,
   set_size |-> <<"read", "journal", "gdt", "edit", "read", "commit", "read">>,
   set_info |-> <<"journal", "gdt", "edit", "commit", "read">>,
   flush    |-> <<"sync">>,
   list     |-> <<"shared", "read", "read", "leave">>]

\* A call: names with the directories they are in, and what it has read so far.
Call ==
  [op : {"create"}, d : Inode, n : Name, kind : {"file", "dir"}, links : Nat]
    \cup [op : {"rename"}, d : Inode, n : Name, dd : Inode, dn : Name, replace : BOOLEAN]
    \cup [op : {"delete", "rmdir"}, d : Inode, n : Name, i : Inode, links : Nat]
    \cup [op : {"write", "set_size", "set_info", "flush", "list"}]

ASSUME HandlersAssumption ==
  /\ Operations \subseteq DOMAIN Program
  /\ Trees \subseteq Tree
  /\ MaxCalls \in Nat
  /\ None \notin Thread \cup Tree
  /\ Idle \notin Call

ASSUME TreesAssumption == \A tree \in Trees : Consistent(tree)

VARIABLES
  ns,       \* the tree on disk
  txn,      \* the tree as the open transaction leaves it
  call,     \* of each thread, the call it makes
  at,       \* the step it is at
  journal,  \* the thread that holds the journal lock
  gdt,      \* the thread that holds the group lock beyond one step
  writer,   \* the thread that has the guard to itself
  readers,  \* the threads that share it
  guarded,  \* WinFsp's guard is there
  made      \* calls made so far

locks == <<journal, gdt, writer, readers>>
vars == <<ns, txn, call, at, locks, guarded, made>>

Step(t) == Program[call[t].op][at[t]]
At(t, s) == call[t] # Idle /\ Step(t) = s

\* The names a call deletes or renames: the kernel keeps two calls off one.
NamesOf(c) ==
  CASE c = Idle -> {}
    [] c # Idle /\ c.op = "rename" -> {<<c.d, c.n>>, <<c.dd, c.dn>>}
    [] c # Idle /\ c.op \in {"delete", "rmdir"} -> {<<c.d, c.n>>}
    [] OTHER -> {}

\* The calls about the names of P: an entry is its directory and its name there.
Creations(P) ==
  {[op |-> "create", d |-> e[1], n |-> e[2], kind |-> k, links |-> 0] : e \in P, k \in {"file", "dir"}}
Renamings(P, Q) ==
  {[op |-> "rename", d |-> e[1], n |-> e[2], dd |-> f[1], dn |-> f[2], replace |-> r] :
     e \in P, f \in Q, r \in BOOLEAN}
Deletions(o, P) ==
  {[op |-> o, d |-> e[1], n |-> e[2], i |-> ns.entries[e[1]][e[2]], links |-> 0] : e \in P}

\* The calls the programs running on the volume may make: names are looked up
\* in directories that can be reached, what is deleted is there.
Calls(t) ==
  LET Places == Reachable(ns) \X Name
      Taken == UNION {NamesOf(call[u]) : u \in Thread \ {t}}
      Named(k) == {e \in Places : ns.entries[e[1]][e[2]] # None /\ ns.kind[ns.entries[e[1]][e[2]]] = k} \ Taken
  IN  Creations(Places)
        \cup Renamings(Named("file") \cup Named("dir"), Places \ Taken)
        \cup Deletions("delete", Named("file")) \cup Deletions("rmdir", Named("dir"))
        \cup [op : {"write", "set_size", "set_info", "flush", "list"}]

-----------------------------------------------------------------------------
Init ==
  /\ ns \in Trees /\ txn = None
  /\ call = [t \in Thread |-> Idle] /\ at = [t \in Thread |-> 1]
  /\ journal = None /\ gdt = None /\ writer = None /\ readers = {}
  /\ guarded \in BOOLEAN
  /\ made = 0

Begin(t) ==
  /\ call[t] = Idle /\ made < MaxCalls
  /\ \E c \in Calls(t) : c.op \in Operations /\ call' = [call EXCEPT ![t] = c]
  /\ at' = [at EXCEPT ![t] = 1]
  /\ made' = made + 1
  /\ UNCHANGED <<ns, txn, locks, guarded>>

\* The next step, or the end of the call.
Advance(t) ==
  IF at[t] < Len(Program[call[t].op])
  THEN at' = [at EXCEPT ![t] = @ + 1] /\ call' = call
  ELSE at' = [at EXCEPT ![t] = 1] /\ call' = [call EXCEPT ![t] = Idle]

\* An error: what is left to do is to leave the guard.
GiveUp(t) ==
  LET last == Len(Program[call[t].op]) IN
    IF Program[call[t].op][last] = "leave"
    THEN at' = [at EXCEPT ![t] = last] /\ call' = call
    ELSE at' = [at EXCEPT ![t] = 1] /\ call' = [call EXCEPT ![t] = Idle]

\* What the thread's step waits for is free.
MayGo(t) ==
  CASE Step(t) = "shared" -> guarded => writer = None
    [] Step(t) = "exclusive" -> guarded => writer = None /\ readers = {}
    [] Step(t) \in {"journal", "sync"} -> journal = None
    [] Step(t) \in {"gdt", "read", "look", "check"} -> gdt = None
    [] OTHER -> TRUE

Goes(t, s) == At(t, s) /\ MayGo(t)

EnterShared(t) ==
  /\ Goes(t, "shared")
  /\ readers' = IF guarded THEN readers \cup {t} ELSE readers
  /\ Advance(t)
  /\ UNCHANGED <<ns, txn, journal, gdt, writer, guarded, made>>

EnterExclusive(t) ==
  /\ Goes(t, "exclusive")
  /\ writer' = IF guarded THEN t ELSE writer
  /\ Advance(t)
  /\ UNCHANGED <<ns, txn, journal, gdt, readers, guarded, made>>

Leave(t) ==
  /\ Goes(t, "leave")
  /\ writer' = IF writer = t THEN None ELSE writer
  /\ readers' = readers \ {t}
  /\ Advance(t)
  /\ UNCHANGED <<ns, txn, journal, gdt, guarded, made>>

\* Ext4Fs::inode, read_dir: the group lock is taken and given back.
ReadInode(t) ==
  /\ Goes(t, "read")
  /\ Advance(t)
  /\ UNCHANGED <<ns, txn, locks, guarded, made>>

\* flush_cb: the journal lock is taken and given back; nothing is pending.
Sync(t) ==
  /\ Goes(t, "sync")
  /\ Advance(t)
  /\ UNCHANGED <<ns, txn, locks, guarded, made>>

\* set_delete_cb: a directory that is not empty is not deleted.
Check(t) ==
  /\ Goes(t, "check")
  /\ IF dir_is_empty(ns, call[t].i) THEN Advance(t) ELSE GiveUp(t)
  /\ UNCHANGED <<ns, txn, locks, guarded, made>>

\* Whether what a call read before it had the journal lock allows it.
Allowed(c) ==
  CASE c.op = "create" -> c.d \in Reachable(ns) /\ ns.entries[c.d][c.n] = None
    [] c.op = "rename" -> /\ {c.d, c.dd} \subseteq Reachable(ns)
                          /\ c.replace \/ ns.entries[c.dd][c.dn] = None
    [] OTHER -> c.d \in Reachable(ns)

\* The link count the transaction will go by.
LinksRead(c) == IF c.op = "create" THEN ns.links[c.d] ELSE ns.links[c.i]

\* create_handle, rename_handle and do_delete up to their journal.lock().
Look(t) ==
  /\ Goes(t, "look")
  /\ IF ~Allowed(call[t])
     THEN GiveUp(t)
     ELSE /\ at' = [at EXCEPT ![t] = @ + 1]
          /\ call' = IF call[t].op = "rename" THEN call ELSE [call EXCEPT ![t].links = LinksRead(call[t])]
  /\ UNCHANGED <<ns, txn, locks, guarded, made>>

LockJournal(t) ==
  /\ Goes(t, "journal")
  /\ journal' = t
  /\ Advance(t)
  /\ UNCHANGED <<ns, txn, gdt, writer, readers, guarded, made>>

LockGroups(t) ==
  /\ Goes(t, "gdt")
  /\ gdt' = t
  /\ Advance(t)
  /\ UNCHANGED <<ns, txn, journal, writer, readers, guarded, made>>

\* The trees the calls' edits can lead to; none where the edit fails.
Edits(tree, c) ==
  CASE c.op = "create" ->
         {create_handle(tree, c.d, c.n, i, c.kind, c.links) :
            i \in {i \in Inode : tree.kind[i] = "free" /\ tree.entries[c.d][c.n] = None}}
    [] c.op = "rename" ->
         IF rename_fails(tree, c.d, c.n, c.dd, c.dn) THEN {} ELSE {dir_rename(tree, c.d, c.n, c.dd, c.dn)}
    [] c.op \in {"delete", "rmdir"} ->
         IF tree.entries[c.d][c.n] = None THEN {} ELSE {do_delete(tree, c.d, c.n, c.i, c.links)}
    [] OTHER -> {tree}

\* Mutant: a call that fails keeps the journal.
Edit_keeps_journal(t) ==
  /\ call[t] # Idle /\ Step(t) \in {"edit", "remove"}
  /\ \/ /\ \E new \in Edits(ns, call[t]) : txn' = new
        /\ gdt' = IF Step(t) = "edit" THEN None ELSE gdt
        /\ Advance(t)
        /\ UNCHANGED journal
     \/ /\ Edits(ns, call[t]) = {}
        /\ gdt' = None
        /\ GiveUp(t)
        /\ UNCHANGED <<txn, journal>>
  /\ UNCHANGED <<ns, writer, readers, guarded, made>>

\* The group lock is given back in the end, but by do_delete of a directory,
\* which goes on with it; where an edit fails, both locks are.
Edit(t) ==
  /\ call[t] # Idle /\ Step(t) \in {"edit", "remove"}
  /\ \/ /\ \E new \in Edits(ns, call[t]) : txn' = new
        /\ gdt' = IF Step(t) = "edit" THEN None ELSE gdt
        /\ Advance(t)
        /\ UNCHANGED journal
     \/ /\ Edits(ns, call[t]) = {}
        /\ gdt' = None /\ journal' = None
        /\ GiveUp(t)
        /\ UNCHANGED txn
  /\ UNCHANGED <<ns, writer, readers, guarded, made>>

Commit(t) ==
  /\ Goes(t, "commit")
  /\ ns' = txn /\ txn' = None
  /\ journal' = None
  /\ gdt' = IF gdt = t THEN None ELSE gdt
  /\ Advance(t)
  /\ UNCHANGED <<writer, readers, guarded, made>>

StepOf(t) ==
  \/ EnterShared(t) \/ EnterExclusive(t) \/ Leave(t)
  \/ ReadInode(t) \/ Sync(t) \/ Check(t) \/ Look(t)
  \/ LockJournal(t) \/ LockGroups(t)
  \/ Edit(t) \/ Commit(t)

Next == \E t \in Thread : Begin(t) \/ StepOf(t)

\* Every thread is run again and again, and a lock that is free is given to
\* one that waits for it.
Fairness == \A t \in Thread : WF_vars(StepOf(t))

Spec == Init /\ [][Next]_vars /\ Fairness

-----------------------------------------------------------------------------
\* A thread waits for the group lock it holds itself.
Hung == \E t \in Thread : gdt = t /\ At(t, "read")

Calling == {t \in Thread : call[t] # Idle}

\* The locks are where the steps say they are, and a transaction is open only
\* under the journal lock: a call that fails gives back what it took.
HandlersTypeOK ==
  /\ ns \in Tree
  /\ txn # None => txn \in Tree /\ journal # None
  /\ call \in [Thread -> Call \cup {Idle}]
  /\ \A t \in Thread : call[t] # Idle => at[t] \in DOMAIN Program[call[t].op]
  /\ {journal, gdt, writer} \cap Thread \subseteq Calling
  /\ readers \subseteq Calling
  /\ gdt # None => journal = gdt

\* No thread waits for another for ever: while calls are being made, one of
\* them can go on, unless a thread waits for itself.
NoDeadlock == Hung \/ Calling = {} \/ \E t \in Calling : MayGo(t)

\* Every call returns, unless a thread waits for itself.
CallsReturn == \A t \in Thread : call[t] # Idle ~> call[t] = Idle \/ Hung

\* delete.rs, create.rs, rename.rs: a name never stands for an inode that has
\* been freed, also where two calls go by counts they read before the lock: a
\* file has at least as many links as names.
NamesAreLive == LinksCoverNames(ns)

\* With WinFsp's guard the tree stays one but for what renames have lost: a file
\* has as many links as names, a directory one name, in the directory that its
\* ".." stands for, and every directory is reached from the root or from one
\* that was lost.
TreeIsSound == guarded => IsATree(ns)

\* write_file.rs: "Reuse the gdt lock acquired above — parking_lot::Mutex is not
\* reentrant."  No thread asks for the group lock while it holds it.
GroupLockNotTakenTwice == ~Hung
=============================================================================
