------------------------------- MODULE Bcache -------------------------------
(***************************************************************************)
(* The buffer cache of bio.c with its sleep locks (sleeplock.c) on top of   *)
(* the driver of module Virtio.  A process gets the buffer of a block,      *)
(* sleeps for its lock, reads it from the disk if it is not valid, changes  *)
(* it and hands it to the log (which pins it) or writes it, and releases it. *)
(***************************************************************************)
EXTENDS Virtio, Sequences

CONSTANTS MaxPins,    \* blocks the log may have pinned at a time
          LogBlocks,  \* the header and the blocks of the log on disk
          Stored      \* the contents that processes store in each block

ASSUME BcacheAssumption ==
  /\ LogBlocks \subseteq Blocks
  /\ \A k \in Blocks : Stored[k] \subseteq Values /\ Stored[k] # {}

VARIABLES
  lru,     \* the list from bcache.head.next to bcache.head.prev
  lock,    \* the process that holds b->lock, or Nil
  pc,      \* where a process is between bread() and brelse()
  cur,     \* its buffer
  pinned,  \* blocks in the header of the log, each with one bpin()
  latest   \* history: what was last stored in each block

bvars == <<lru, lock, pc, cur, pinned, latest>>
vars == <<vvars, bvars>>

Init ==
  /\ VirtioInit
  /\ disk = [k \in Blocks |-> CHOOSE v \in Values : v \in Stored[k]]
  /\ buf = [b \in Bufs |-> [block |-> Nil, data |-> Nil, disk |-> FALSE,
                            valid |-> FALSE, refcnt |-> 0]]
  /\ lru = [i \in 1 .. NBUF |-> NBUF + 1 - i]
  /\ lock = [b \in Bufs |-> Nil]
  /\ pc = [p \in Procs |-> "idle"]
  /\ cur = [p \in Procs |-> Nil]
  /\ pinned = {}
  /\ latest = disk

Cached(k) == {b \in Bufs : buf[b].block = k}
Unused == {i \in DOMAIN lru : buf[lru[i]].refcnt = 0}

(* bget(): the buffer of the block, or else the least recently used one     *)
(* that nobody refers to.  The mutant recycles without looking first.       *)
Got(p, b, k) ==
  /\ pc' = [pc EXCEPT ![p] = "lock"]
  /\ cur' = [cur EXCEPT ![p] = b]
  /\ UNCHANGED <<dvars, rw, lru, lock, pinned, latest>>
BgetHit(p, k) ==
  \E b \in Cached(k) :
    /\ buf' = [buf EXCEPT ![b].refcnt = @ + 1]
    /\ UNCHANGED panicked
    /\ Got(p, b, k)
BgetMiss(p, k) ==
  /\ Unused # {}
  /\ LET b == lru[CHOOSE i \in Unused : \A j \in Unused : j <= i]
     IN /\ buf' = [buf EXCEPT ![b].block = k, ![b].valid = FALSE, ![b].refcnt = 1]
        /\ UNCHANGED panicked
        /\ Got(p, b, k)
BgetPanic ==
  /\ Unused = {}
  /\ panicked' = "bget"
  /\ UNCHANGED <<buf, dvars, rw, bvars>>
(* Mutant: bget() does not look for the block first.                        *)
BgetRecycle(p, k) == pc[p] = "idle" /\ (BgetMiss(p, k) \/ BgetPanic)
Bget(p, k) ==
  /\ pc[p] = "idle"
  /\ \/ BgetHit(p, k)
     \/ Cached(k) = {} /\ (BgetMiss(p, k) \/ BgetPanic)

Call(p, write) == [rw EXCEPT ![p] = [pc |-> "alloc", b |-> cur[p], write |-> write, head |-> 0]]

(* acquiresleep(): one look at the lock; asleep, or the owner.  The owner   *)
(* goes on in bread(): a buffer that is not valid is read first.            *)
Bread(p) ==
  /\ pc[p] = "lock"
  /\ IF lock[cur[p]] # Nil
       THEN pc' = [pc EXCEPT ![p] = "locksleep"] /\ UNCHANGED <<lock, rw>>
       ELSE /\ lock' = [lock EXCEPT ![cur[p]] = p]
            /\ pc' = [pc EXCEPT ![p] = IF buf[cur[p]].valid THEN "hold" ELSE "reading"]
            /\ rw' = IF buf[cur[p]].valid THEN rw ELSE Call(p, FALSE)
  /\ UNCHANGED <<buf, dvars, panicked, lru, cur, pinned, latest>>
BreadDone(p) ==
  /\ pc[p] = "reading" /\ rw[p].pc = "none"
  /\ buf' = [buf EXCEPT ![cur[p]].valid = TRUE]
  /\ pc' = [pc EXCEPT ![p] = "hold"]
  /\ UNCHANGED <<dvars, rw, panicked, lru, lock, cur, pinned, latest>>

(* The holder of a block that is not of the log itself stores v and calls   *)
(* log_write(), which pins a block that is not yet in the log.              *)
Store(p, v) == [buf EXCEPT ![cur[p]].data = v]
(* Mutant: the buffer is not pinned.                                        *)
LogWriteUnpinned(p, v) ==
  LET k == buf[cur[p]].block
  IN /\ pc[p] = "hold"
     /\ k \notin LogBlocks /\ Cardinality(pinned \cup {k}) <= MaxPins
     /\ buf' = Store(p, v)
     /\ latest' = [latest EXCEPT ![k] = v]
     /\ pinned' = pinned \cup {k}
     /\ pc' = [pc EXCEPT ![p] = "done"]
     /\ UNCHANGED <<dvars, rw, panicked, lru, lock, cur>>
LogWrite(p, v) ==
  LET k == buf[cur[p]].block
  IN /\ pc[p] = "hold"
     /\ k \notin LogBlocks /\ Cardinality(pinned \cup {k}) <= MaxPins
     /\ buf' = [Store(p, v) EXCEPT ![cur[p]].refcnt = IF k \in pinned THEN @ ELSE @ + 1]
     /\ latest' = [latest EXCEPT ![k] = v]
     /\ pinned' = pinned \cup {k}
     /\ pc' = [pc EXCEPT ![p] = "done"]
     /\ UNCHANGED <<dvars, rw, panicked, lru, lock, cur>>

(* bwrite().  Only the holder of the buffer may call it.                    *)
Bwrite(p) ==
  /\ pc' = [pc EXCEPT ![p] = "writing"]
  /\ rw' = Call(p, TRUE)
  /\ panicked' = IF lock[cur[p]] # p THEN "bwrite" ELSE panicked
  /\ UNCHANGED <<dvars, lru, lock, cur, pinned>>

(* install_trans(): a block that log_write() pinned goes to its place.      *)
InstallTrans(p) ==
  /\ pc[p] = "hold" /\ buf[cur[p]].block \in pinned
  /\ Bwrite(p)
  /\ UNCHANGED <<buf, latest>>

(* write_log() and write_head(): v goes into a block of the log itself,     *)
(* which is never pinned.                                                   *)
WriteLog(p, v) ==
  /\ pc[p] = "hold" /\ buf[cur[p]].block \in LogBlocks
  /\ buf' = Store(p, v)
  /\ latest' = [latest EXCEPT ![buf[cur[p]].block] = v]
  /\ Bwrite(p)

(* After bwrite(): install_trans() unpins a pinned block.                   *)
BwriteDone(p) ==
  LET k == buf[cur[p]].block
  IN /\ pc[p] = "writing" /\ rw[p].pc = "none"
     /\ buf' = [buf EXCEPT ![cur[p]].refcnt = IF k \in pinned THEN @ - 1 ELSE @]
     /\ pinned' = pinned \ {k}
     /\ pc' = [pc EXCEPT ![p] = "done"]
     /\ UNCHANGED <<dvars, rw, panicked, lru, lock, cur, latest>>

(* brelse(): releasesleep() wakes the sleepers of the lock; then, under     *)
(* bcache.lock, the reference goes and an unused buffer becomes the most    *)
(* recently used.  The mutant keeps the reference.                          *)
ReleaseSleep(p) ==
  /\ pc[p] \in {"hold", "done"}
  /\ panicked' = IF lock[cur[p]] # p THEN "brelse" ELSE panicked
  /\ lock' = [lock EXCEPT ![cur[p]] = Nil]
  /\ pc' = [q \in Procs |->
              IF q = p THEN "unlocked"
              ELSE IF pc[q] = "locksleep" /\ cur[q] = cur[p] THEN "lock" ELSE pc[q]]
  /\ UNCHANGED <<buf, dvars, rw, lru, cur, pinned, latest>>
(* Mutant: the reference is kept.                                           *)
BrelseLeak(p) ==
  /\ pc[p] = "unlocked"
  /\ pc' = [pc EXCEPT ![p] = "idle"]
  /\ cur' = [cur EXCEPT ![p] = Nil]
  /\ UNCHANGED <<vvars, lru, lock, pinned, latest>>
MoveToFront(b) ==
  LET at == CHOOSE i \in DOMAIN lru : lru[i] = b
  IN [i \in DOMAIN lru |-> IF i = 1 THEN b ELSE IF i <= at THEN lru[i - 1] ELSE lru[i]]
Brelse(p) ==
  LET b == cur[p]
  IN /\ pc[p] = "unlocked"
     /\ buf' = [buf EXCEPT ![b].refcnt = @ - 1]
     /\ lru' = IF buf[b].refcnt = 1 THEN MoveToFront(b) ELSE lru
     /\ pc' = [pc EXCEPT ![p] = "idle"]
     /\ cur' = [cur EXCEPT ![p] = Nil]
     /\ UNCHANGED <<dvars, rw, panicked, lock, pinned, latest>>

DriverStep ==
  /\ Device \/ Handler \/ \E p \in Procs : VirtioDiskRw(p) \/ VirtioDiskDone(p)
  /\ UNCHANGED bvars

Step(p) ==
  \/ \E k \in Blocks : Bget(p, k)
  \/ Bread(p) \/ BreadDone(p)
  \/ pc[p] = "hold" /\ \E v \in Stored[buf[cur[p]].block] : LogWrite(p, v) \/ WriteLog(p, v)
  \/ InstallTrans(p) \/ BwriteDone(p) \/ ReleaseSleep(p) \/ Brelse(p)

(* panic() spins for ever.                                                  *)
Halted == panicked # "none" /\ UNCHANGED vars

Next == \/ panicked = "none" /\ (DriverStep \/ \E p \in Procs : Step(p))
        \/ Halted

Spec == Init /\ [][Next]_vars

-----------------------------------------------------------------------------
(* A block has at most one buffer, whoever recycles buffers meanwhile:      *)
(* bget() looks and recycles in one section of bcache.lock.                 *)
OneBufferPerBlock == \A k \in Blocks : Cardinality(Cached(k)) <= 1

(* Whoever holds a buffer after bread() holds it alone and sees what was    *)
(* last stored in the block, by whatever process, through any number of     *)
(* recyclings, pins and disk transfers.                                     *)
Coherent ==
  \A p \in Procs : pc[p] \in {"hold", "done", "writing"} =>
    /\ lock[cur[p]] = p
    /\ buf[cur[p]].data = latest[buf[cur[p]].block]

(* bget() panics only when every buffer is held by a process or pinned by   *)
(* the log, so no reference is ever leaked; and no panic of bwrite(),       *)
(* brelse(), free_desc() or virtio_disk_intr() is reachable: a chain is     *)
(* freed once, and the handler finds every request it is told of finished,  *)
(* with its buffer.                                                         *)
PanicMeansExhausted ==
  /\ panicked \in {"none", "bget"}
  /\ panicked = "bget" => \A b \in Bufs : buf[b].block \in pinned \/ \E p \in Procs : cur[p] = b

(* Nobody sleeps in virtio_disk_rw() for something that has happened: the   *)
(* request of a process that waits for its transfer is in the avail ring,   *)
(* with the device, or in the used ring with an interrupt to come or the    *)
(* handler still in its loop; a process that waits for descriptors finds    *)
(* too few, and somebody's request will free some.                          *)
SleeperNotForgotten ==
  \A p \in Procs :
    /\ rw[p].pc = "waitsleep" =>
         /\ buf[rw[p].b].disk
         /\ \/ rw[p].head \in Range(avail.ring) \cup inflight
            \/ rw[p].head \in Range(used.ring) /\ (irq \/ handler = "loop")
    /\ rw[p].pc = "allocsleep" =>
         /\ Cardinality(free) < 3
         /\ \E q \in Procs : rw[q].pc \in {"wait", "waitsleep"}
=============================================================================
