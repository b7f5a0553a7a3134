---------------------------- MODULE SectorCache ----------------------------
(***************************************************************************)
(* CachedBlockDevice: an LRU cache of sectors in front of a block device,  *)
(* shared by the dispatcher threads of the host.  Each call takes the      *)
(* cache lock once or twice and does its device access outside of it, so   *)
(* calls on one sector interleave between the two.                         *)
(*                                                                         *)
(* The content of a sector is the number of times it has been written.     *)
(***************************************************************************)
EXTENDS Integers, Sequences, FiniteSets

CONSTANTS Thread, Sector,
          Capacity,     \* sectors the cache may hold
          MaxWrites     \* bound on the writes to one sector

ASSUME CapacityAssumption == Capacity \in Nat \ {0} /\ MaxWrites \in Nat

VARIABLES
  disk,      \* the inner device
  cache,     \* the LruCache, most recently used first
  pc,        \* what each thread is in the middle of
  sector,    \* the sector its call is about
  buf,       \* the caller's buffer
  fresh,     \* history: the sector was not written since the thread read it
  raced      \* history: the cached copy was put in after a write overtook it

vars == <<disk, cache, pc, sector, buf, fresh, raced>>

CacheLine == [sec : Sector, data : Nat]

TypeOK ==
  /\ disk \in [Sector -> Nat]
  /\ cache \in Seq(CacheLine)
  /\ pc \in [Thread -> {"idle", "fetch", "fill", "pop"}]
  /\ sector \in [Thread -> Sector]
  /\ buf \in [Thread -> Nat]
  /\ fresh \in [Thread -> BOOLEAN]
  /\ raced \in [Sector -> BOOLEAN]

Init ==
  /\ disk = [s \in Sector |-> 0]
  /\ cache = <<>>
  /\ pc = [t \in Thread |-> "idle"]
  /\ sector \in [Thread -> Sector]
  /\ buf = [t \in Thread |-> 0]
  /\ fresh = [t \in Thread |-> TRUE]
  /\ raced = [s \in Sector |-> FALSE]

-----------------------------------------------------------------------------
(* The LruCache: get moves the line to the front, put may drop the last. *)

Cached(s) == \E i \in DOMAIN cache : cache[i].sec = s

Position(s) == CHOOSE i \in DOMAIN cache : cache[i].sec = s

\* The cache without the line of s.
Without(s) ==
  IF Cached(s)
  THEN [k \in 1 .. (Len(cache) - 1) |-> cache[IF k < Position(s) THEN k ELSE k + 1]]
  ELSE cache

\* The cache with a line put in front of the others, cut to its capacity.
Front(line, others) ==
  [k \in 1 .. (IF Len(others) < Capacity THEN Len(others) + 1 ELSE Capacity) |->
     IF k = 1 THEN line ELSE others[k - 1]]

-----------------------------------------------------------------------------
(* read_sector *)

Hit(t, s) ==
  /\ pc[t] = "idle"
  /\ Cached(s)
  /\ buf' = [buf EXCEPT ![t] = cache[Position(s)].data]
  /\ cache' = Front(cache[Position(s)], Without(s))
  /\ sector' = [sector EXCEPT ![t] = s]
  /\ UNCHANGED <<disk, pc, fresh, raced>>

Miss(t, s) ==
  /\ pc[t] = "idle"
  /\ ~Cached(s)
  /\ pc' = [pc EXCEPT ![t] = "fetch"]
  /\ sector' = [sector EXCEPT ![t] = s]
  /\ UNCHANGED <<disk, cache, buf, fresh, raced>>

\* inner.read_sector, with no lock held; an error ends the call.
Fetch(t) ==
  /\ pc[t] = "fetch"
  /\ \/ /\ buf' = [buf EXCEPT ![t] = disk[sector[t]]]
        /\ fresh' = [fresh EXCEPT ![t] = TRUE]
        /\ pc' = [pc EXCEPT ![t] = "fill"]
     \/ pc' = [pc EXCEPT ![t] = "idle"] /\ UNCHANGED <<buf, fresh>>
  /\ UNCHANGED <<disk, cache, sector, raced>>

\* Mutant of Fill: an older copy of the sector is not replaced.
FillTwice(t) ==
  LET s == sector[t]
  IN  /\ pc[t] = "fill"
      /\ cache' = Front([sec |-> s, data |-> buf[t]], cache)
      /\ raced' = [raced EXCEPT ![s] = ~fresh[t]]
      /\ pc' = [pc EXCEPT ![t] = "idle"]
      /\ UNCHANGED <<disk, sector, buf, fresh>>

Fill(t) ==
  LET s == sector[t]
  IN  /\ pc[t] = "fill"
      /\ cache' = Front([sec |-> s, data |-> buf[t]], Without(s))
      /\ raced' = [raced EXCEPT ![s] = ~fresh[t]]
      /\ pc' = [pc EXCEPT ![t] = "idle"]
      /\ UNCHANGED <<disk, sector, buf, fresh>>

-----------------------------------------------------------------------------
(* write_sector *)

\* inner.write_sector; a failing one returns before the invalidation.
Store(t, s) ==
  /\ pc[t] = "idle"
  /\ disk[s] < MaxWrites
  /\ disk' = [disk EXCEPT ![s] = disk[s] + 1]
  /\ fresh' = [u \in Thread |-> fresh[u] /\ ~(pc[u] = "fill" /\ sector[u] = s)]
  /\ pc' = [pc EXCEPT ![t] = "pop"]
  /\ sector' = [sector EXCEPT ![t] = s]
  /\ UNCHANGED <<cache, buf, raced>>

\* Mutant of Pop: a write leaves the cached copy where it is.
PopNothing(t) ==
  /\ pc[t] = "pop"
  /\ raced' = [raced EXCEPT ![sector[t]] = FALSE]
  /\ pc' = [pc EXCEPT ![t] = "idle"]
  /\ UNCHANGED <<disk, cache, sector, buf, fresh>>

Pop(t) ==
  /\ pc[t] = "pop"
  /\ cache' = Without(sector[t])
  /\ raced' = [raced EXCEPT ![sector[t]] = FALSE]
  /\ pc' = [pc EXCEPT ![t] = "idle"]
  /\ UNCHANGED <<disk, sector, buf, fresh>>

-----------------------------------------------------------------------------
Call(t) == (\E s \in Sector : Hit(t, s) \/ Miss(t, s) \/ Store(t, s))
           \/ Fetch(t) \/ Fill(t) \/ Pop(t)

Next == \E t \in Thread : Call(t)

Spec == Init /\ [][Next]_vars

-----------------------------------------------------------------------------
(* Properties. *)

Invalidating(s) == \E t \in Thread : pc[t] = "pop" /\ sector[t] = s

\* A cached copy differs from the device only while a write of that sector has
\* not yet got to its invalidation, or because a reader that fetched before a
\* write put its copy in behind that write's invalidation (read_sector does
\* the fetch and the put under separate locks).
StaleOnlyByRace ==
  \A i \in DOMAIN cache :
    cache[i].data # disk[cache[i].sec] => Invalidating(cache[i].sec) \/ raced[cache[i].sec]

\* The cache never holds two copies of one sector, so one pop invalidates it,
\* and never more than its capacity.
OneCopyEach ==
  /\ Len(cache) <= Capacity
  /\ \A i, k \in DOMAIN cache : cache[i].sec = cache[k].sec => i = k

=============================================================================
