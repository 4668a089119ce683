----------------------------- MODULE BcacheInv -----------------------------
(***************************************************************************)
(* The inductive invariant of the buffer cache (bio.c, sleeplock.c), and a  *)
(* step of it as bio.c sees one: which block a buffer is for, who refers to *)
(* it, who holds its lock.  What the disk driver and the device do to a     *)
(* buffer, its data and its disk flag, is left to module Virtio.            *)
(***************************************************************************)
EXTENDS Bcache

Held == {"reading", "hold", "writing", "done"}
Labels == Held \cup {"idle", "lock", "locksleep", "unlocked"}

\* b->blockno (with b->dev) and b->refcnt of every buffer.
Block == [b \in Bufs |-> buf[b].block]
Refs == [b \in Bufs |-> buf[b].refcnt]

\* struct buf has its fields, whatever the device has put in its data.
Fields == {"block", "data", "disk", "valid", "refcnt"}
Shape(f) ==
  /\ f = [b \in Bufs |-> f[b]]
  /\ \A b \in Bufs : DOMAIN f[b] = Fields /\ f[b] = [x \in Fields |-> f[b][x]]

CacheType ==
  /\ Shape(buf)
  /\ Block \in [Bufs -> Blocks \cup {Nil}]
  /\ Refs \in [Bufs -> Int]
  /\ lock \in [Bufs -> Procs \cup {Nil}]
  /\ pc \in [Procs -> Labels]
  /\ cur \in [Procs -> Bufs \cup {Nil}]
  /\ pinned \in SUBSET Blocks

\* The list has every buffer.
LruInv ==
  /\ lru \in [1 .. NBUF -> Bufs]
  /\ \A b \in Bufs : \E i \in 1 .. NBUF : lru[i] = b

\* A process that is not idle has a buffer of some block; it is the owner of
\* the lock of that buffer from acquiresleep() to releasesleep(), and sleeps
\* only for a lock that somebody owns.
UseInv ==
  /\ \A p \in Procs : cur[p] = Nil <=> pc[p] = "idle"
  /\ \A p \in Procs : cur[p] # Nil => Block[cur[p]] # Nil
  /\ \A p \in Procs, b \in Bufs : lock[b] = p <=> cur[p] = b /\ pc[p] \in Held
  /\ \A p \in Procs : pc[p] = "locksleep" => lock[cur[p]] # Nil

\* A block has one buffer.
OneInv == \A a, b \in Bufs : Block[a] = Block[b] /\ Block[a] # Nil => a = b

\* b->refcnt counts the processes that use the buffer and the pin of the log,
\* and a pinned block is in the cache.
Users(b) == {p \in Procs : cur[p] = b}
Pins(b) == IF Block[b] \in pinned THEN 1 ELSE 0
RefInv ==
  /\ \A b \in Bufs : Refs[b] = Cardinality(Users(b)) + Pins(b)
  /\ \A k \in pinned : \E b \in Bufs : Block[b] = k

\* The panics of bio.c and what they say.
PanicInv ==
  /\ panicked \notin {"bwrite", "brelse"}
  /\ panicked = "bget" => \A b \in Bufs : Refs[b] # 0

CacheInv == CacheType /\ LruInv /\ UseInv /\ OneInv /\ RefInv /\ PanicInv

-----------------------------------------------------------------------------
(* The steps.                                                               *)

Quiet == UNCHANGED <<Block, Refs, lru, lock, pc, cur, pinned>>

\* bget(): a buffer that has the block already, or one that nobody refers to.
Grab(p, b) ==
  /\ pc[p] = "idle"
  /\ pc' = [pc EXCEPT ![p] = "lock"]
  /\ cur' = [cur EXCEPT ![p] = b]
  /\ UNCHANGED <<lru, lock, pinned>>
Hit(p, b) ==
  /\ Block[b] \in Blocks
  /\ UNCHANGED Block
  /\ Refs' = [Refs EXCEPT ![b] = @ + 1]
  /\ Grab(p, b)
Recycle(p, b, k) ==
  /\ \A a \in Bufs : Block[a] # k
  /\ Refs[b] = 0
  /\ Block' = [Block EXCEPT ![b] = k]
  /\ Refs' = [Refs EXCEPT ![b] = 1]
  /\ Grab(p, b)

\* acquiresleep().
LockSleep(p) ==
  /\ pc[p] = "lock" /\ lock[cur[p]] # Nil
  /\ pc' = [pc EXCEPT ![p] = "locksleep"]
  /\ UNCHANGED <<Block, Refs, lru, lock, cur, pinned>>
LockTake(p, l) ==
  /\ pc[p] = "lock" /\ lock[cur[p]] = Nil
  /\ lock' = [lock EXCEPT ![cur[p]] = p]
  /\ pc' = [pc EXCEPT ![p] = l]
  /\ UNCHANGED <<Block, Refs, lru, cur, pinned>>

\* What the holder does: a transfer begins or ends, bpin(), bunpin().
Hold(p, l) ==
  /\ pc[p] \in Held
  /\ pc' = [pc EXCEPT ![p] = l]
  /\ UNCHANGED <<Block, lru, lock, cur>>
Move(p, l) == Hold(p, l) /\ UNCHANGED <<Refs, pinned>>
Pin(p, l) ==
  /\ Hold(p, l)
  /\ Refs' = [Refs EXCEPT ![cur[p]] = IF Block[cur[p]] \in pinned THEN @ ELSE @ + 1]
  /\ pinned' = pinned \cup {Block[cur[p]]}
Unpin(p, l) ==
  /\ Hold(p, l)
  /\ Refs' = [Refs EXCEPT ![cur[p]] = IF Block[cur[p]] \in pinned THEN @ - 1 ELSE @]
  /\ pinned' = pinned \ {Block[cur[p]]}

\* brelse(), its two sections.
Unlock(p) ==
  /\ pc[p] \in Held
  /\ lock' = [lock EXCEPT ![cur[p]] = Nil]
  /\ pc' = [q \in Procs |->
              IF q = p THEN "unlocked"
              ELSE IF pc[q] = "locksleep" /\ cur[q] = cur[p] THEN "lock" ELSE pc[q]]
  /\ UNCHANGED <<Block, Refs, lru, cur, pinned>>
Drop(p) ==
  /\ pc[p] = "unlocked"
  /\ Refs' = [Refs EXCEPT ![cur[p]] = @ - 1]
  /\ lru' = lru \/ lru' = MoveToFront(cur[p])
  /\ pc' = [pc EXCEPT ![p] = "idle"]
  /\ cur' = [cur EXCEPT ![p] = Nil]
  /\ UNCHANGED <<Block, lock, pinned>>

Moves ==
  \/ Quiet
  \/ \E p \in Procs, b \in Bufs : Hit(p, b) \/ \E k \in Blocks : Recycle(p, b, k)
  \/ \E p \in Procs : LockSleep(p) \/ Unlock(p) \/ Drop(p)
  \/ \E p \in Procs, l \in Held : LockTake(p, l) \/ Move(p, l) \/ Pin(p, l) \/ Unpin(p, l)

-----------------------------------------------------------------------------
\* A buffer that a process uses or the log has pinned keeps its block.
BufferKept ==
  \A b \in Bufs : (\E p \in Procs : cur[p] = b) \/ Block[b] \in pinned => Block'[b] = Block[b]

\* Whoever holds a buffer, from acquiresleep() to releasesleep(), holds it
\* alone, and nobody sleeps in acquiresleep() for a lock that is free.
LockExclusive ==
  /\ \A p, q \in Procs : pc[p] \in Held /\ pc[q] \in Held /\ cur[p] = cur[q] => p = q
  /\ \A p \in Procs : pc[p] = "locksleep" => \E q \in Procs : cur[q] = cur[p] /\ pc[q] \in Held

\* bget() panics only when every buffer is used by a process or pinned by the
\* log, and bwrite() and brelse() never panic.
CachePanics ==
  /\ panicked \notin {"bwrite", "brelse"}
  /\ panicked = "bget" => \A b \in Bufs : Block[b] \in pinned \/ \E p \in Procs : cur[p] = b
=============================================================================
