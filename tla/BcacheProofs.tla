---------------------------- MODULE BcacheProofs ----------------------------
(***************************************************************************)
(* The buffer cache for any processes, buffers, blocks and contents, and    *)
(* whatever the disk driver and the device do meanwhile: a block has one    *)
(* buffer, a buffer one holder, a buffer in use keeps its block, and bget() *)
(* panics only when every buffer is in use.                                 *)
(***************************************************************************)
EXTENDS BcacheInv, FiniteSetTheorems, WellFoundedInduction, NaturalsInduction, TLAPS

-----------------------------------------------------------------------------
(* What an assignment to a field of struct buf does to the blocks and the   *)
(* reference counts.  The driver's ones may be to any buffer.               *)

\* b->disk = v, in virtio_disk_rw() and virtio_disk_intr().
LEMMA DiskSet ==
  ASSUME Shape(buf), NEW c, NEW v,
         buf' = [buf EXCEPT ![c].disk = v]
  PROVE  Shape(buf)' /\ Block' = Block /\ Refs' = Refs
<1>1. \A b \in Bufs : DOMAIN buf'[b] = Fields /\ buf'[b] = [x \in Fields |-> buf'[b][x]]
  BY Zenon DEF Shape, Fields
<1>2. buf' = [b \in Bufs |-> buf'[b]]
  BY Zenon DEF Shape
<1>3. \A b \in Bufs : /\ buf'[b].block = buf[b].block
                     /\ buf'[b].refcnt = buf[b].refcnt
  BY DEF Shape, Fields
<1> QED
  BY <1>1, <1>2, <1>3, Zenon DEF Shape, Block, Refs

\* The device, or the log, fills b->data.
LEMMA DataSet ==
  ASSUME Shape(buf), NEW c, NEW v,
         buf' = [buf EXCEPT ![c].data = v]
  PROVE  Shape(buf)' /\ Block' = Block /\ Refs' = Refs
<1>1. \A b \in Bufs : DOMAIN buf'[b] = Fields /\ buf'[b] = [x \in Fields |-> buf'[b][x]]
  BY Zenon DEF Shape, Fields
<1>2. buf' = [b \in Bufs |-> buf'[b]]
  BY Zenon DEF Shape
<1>3. \A b \in Bufs : /\ buf'[b].block = buf[b].block
                     /\ buf'[b].refcnt = buf[b].refcnt
  BY DEF Shape, Fields
<1> QED
  BY <1>1, <1>2, <1>3, Zenon DEF Shape, Block, Refs

\* b->valid = 1, in bread().
LEMMA ValidSet ==
  ASSUME Shape(buf), NEW c, NEW v,
         buf' = [buf EXCEPT ![c].valid = v]
  PROVE  Shape(buf)' /\ Block' = Block /\ Refs' = Refs
<1>1. \A b \in Bufs : DOMAIN buf'[b] = Fields /\ buf'[b] = [x \in Fields |-> buf'[b][x]]
  BY Zenon DEF Shape, Fields
<1>2. buf' = [b \in Bufs |-> buf'[b]]
  BY Zenon DEF Shape
<1>3. \A b \in Bufs : /\ buf'[b].block = buf[b].block
                     /\ buf'[b].refcnt = buf[b].refcnt
  BY DEF Shape, Fields
<1> QED
  BY <1>1, <1>2, <1>3, Zenon DEF Shape, Block, Refs

\* b->refcnt changes.
LEMMA RefSet ==
  ASSUME Shape(buf), NEW c \in Bufs, NEW v,
         buf' = [buf EXCEPT ![c].refcnt = v]
  PROVE  Shape(buf)' /\ Block' = Block /\ Refs' = [Refs EXCEPT ![c] = v]
<1>1. \A b \in Bufs : DOMAIN buf'[b] = Fields /\ buf'[b] = [x \in Fields |-> buf'[b][x]]
  BY DEF Shape, Fields
<1>2. buf' = [b \in Bufs |-> buf'[b]]
  BY DEF Shape
<1>3. \A b \in Bufs : /\ buf'[b].block = buf[b].block
                     /\ buf'[b].refcnt = (IF b = c THEN v ELSE buf[b].refcnt)
  BY DEF Shape, Fields
<1> QED
  BY <1>1, <1>2, <1>3, Zenon DEF Shape, Block, Refs

\* The holder stores in b->data, and log_write() pins.
LEMMA StoreSet ==
  ASSUME Shape(buf), NEW c \in Bufs, NEW d, NEW v,
         buf' = [[buf EXCEPT ![c].data = d] EXCEPT ![c].refcnt = v]
  PROVE  Shape(buf)' /\ Block' = Block /\ Refs' = [Refs EXCEPT ![c] = v]
<1>1. \A b \in Bufs : DOMAIN buf'[b] = Fields /\ buf'[b] = [x \in Fields |-> buf'[b][x]]
  BY Zenon DEF Shape, Fields
<1>2. buf' = [b \in Bufs |-> buf'[b]]
  BY DEF Shape
<1>3. \A b \in Bufs : /\ buf'[b].block = buf[b].block
                     /\ buf'[b].refcnt = (IF b = c THEN v ELSE buf[b].refcnt)
  BY DEF Shape, Fields
<1> QED
  BY <1>1, <1>2, <1>3, Zenon DEF Shape, Block, Refs

\* bget() gives the buffer to block k.
LEMMA RecycleSet ==
  ASSUME Shape(buf), NEW c \in Bufs, NEW k,
         buf' = [buf EXCEPT ![c].block = k, ![c].valid = FALSE, ![c].refcnt = 1]
  PROVE  Shape(buf)' /\ Block' = [Block EXCEPT ![c] = k] /\ Refs' = [Refs EXCEPT ![c] = 1]
<1>1. \A b \in Bufs : DOMAIN buf'[b] = Fields /\ buf'[b] = [x \in Fields |-> buf'[b][x]]
  BY DEF Shape, Fields
<1>2. buf' = [b \in Bufs |-> buf'[b]]
  BY Zenon DEF Shape
<1>3. \A b \in Bufs : /\ buf'[b].block = (IF b = c THEN k ELSE buf[b].block)
                     /\ buf'[b].refcnt = (IF b = c THEN 1 ELSE buf[b].refcnt)
  BY DEF Shape, Fields
<1> QED
  BY <1>1, <1>2, <1>3, Zenon DEF Shape, Block, Refs

-----------------------------------------------------------------------------
(* bget() picks the last unused buffer of the list: there is one.           *)

\* A set of numbers has a least one ...
LEMMA LeastExists ==
  ASSUME NEW S \in SUBSET Nat, S # {}
  PROVE  \E i \in S : \A j \in S : i <= j
<1>1. \E i \in S : \A j \in S : ~(<<j, i>> \in OpToRel(<, Nat))
  BY NatLessThanWellFounded, WFMin, Zenon
<1>2. \A i \in S, j \in S : ~(<<j, i>> \in OpToRel(<, Nat)) => i <= j
  BY DEF OpToRel
<1> QED
  BY <1>1, <1>2, Zenon

\* ... and below a bound a greatest one.
LEMMA GreatestExists ==
  ASSUME NEW n \in Nat, NEW S \in SUBSET (1 .. n), S # {}
  PROVE  \E i \in S : \A j \in S : j <= i
<1> DEFINE T == {k \in 0 .. n : n - k \in S}
<1>1. PICK x : x \in S
  BY Zenon
<1>2. n - x \in T
  BY <1>1
<1>3. PICK k \in T : \A j \in T : k <= j
  <2>1. T \in SUBSET Nat
    OBVIOUS
  <2>2. T # {}
    BY <1>2, Zenon
  <2> HIDE DEF T
  <2> QED
    BY <2>1, <2>2, LeastExists
<1>4. \A j \in S : n - j \in T
  OBVIOUS
<1>5. \A j \in S : j <= n - k
  BY <1>3, <1>4
<1> QED
  BY <1>3, <1>5


\* A buffer that bget() recycles has no reference.
LEMMA MissIs ==
  ASSUME CacheType, LruInv, NEW p \in Procs, NEW k \in Blocks, BgetMiss(p, k)
  PROVE  \E b \in Bufs :
           /\ Refs[b] = 0
           /\ buf' = [buf EXCEPT ![b].block = k, ![b].valid = FALSE, ![b].refcnt = 1]
           /\ Got(p, b, k)
<1> DEFINE i == CHOOSE i \in Unused : \A j \in Unused : j <= i
<1>1. Unused \in SUBSET (1 .. NBUF) /\ NBUF \in Nat /\ Unused # {}
  BY VirtioAssumption, Zenon DEF LruInv, Unused, BgetMiss
<1>2. \E x \in Unused : \A j \in Unused : j <= x
  BY <1>1, GreatestExists, Zenon
<1>3. i \in Unused
  BY <1>2
<1>4. i \in 1 .. NBUF /\ lru[i] \in Bufs /\ Refs[lru[i]] = 0
  BY <1>1, <1>3 DEF Unused, LruInv, Refs
<1>5. /\ buf' = [buf EXCEPT ![lru[i]].block = k, ![lru[i]].valid = FALSE, ![lru[i]].refcnt = 1]
      /\ Got(p, lru[i], k)
  BY Zenon DEF BgetMiss
<1> HIDE DEF i
<1> QED
  BY <1>4, <1>5, Zenon

\* bget() panics when every buffer has a reference.
LEMMA PanicIs ==
  ASSUME CacheType, LruInv, Unused = {}, NEW b \in Bufs
  PROVE  Refs[b] # 0
<1>1. PICK i \in 1 .. NBUF : lru[i] = b
  BY DEF LruInv
<1>2. i \notin Unused /\ i \in DOMAIN lru
  BY DEF LruInv
<1> QED
  BY <1>1, <1>2 DEF Unused, Refs

-----------------------------------------------------------------------------
(* Every step is a move of the cache.                                       *)

\* The driver and the device change neither blocks nor reference counts.
LEMMA DriverQuiet ==
  ASSUME Shape(buf), DriverStep
  PROVE  Shape(buf)' /\ Quiet
<1>1. UNCHANGED <<lru, lock, pc, cur, pinned>>
  BY Zenon DEF DriverStep, bvars
<1> SUFFICES Shape(buf)' /\ Block' = Block /\ Refs' = Refs
  BY <1>1 DEF Quiet
<1>2. CASE buf' = buf
  BY <1>2 DEF Shape, Block, Refs
<1>3. ASSUME NEW p \in Procs, Submit(p) PROVE Shape(buf)' /\ Block' = Block /\ Refs' = Refs
  <2>1. buf' = [buf EXCEPT ![rw[p].b].disk = TRUE]
    BY <1>3, Zenon DEF Submit
  <2> QED
    BY <2>1, DiskSet, Zenon
<1>4. ASSUME NEW h, DeviceDo(h) PROVE Shape(buf)' /\ Block' = Block /\ Refs' = Refs
  <2>1. \/ buf' = buf
        \/ buf' = [buf EXCEPT ![desc[desc[h].next].data].data = disk[desc[h].req.block]]
    BY <1>4, Zenon DEF DeviceDo
  <2>2. CASE buf' # buf
    BY <2>1, <2>2, DataSet, Zenon
  <2> QED
    BY <1>2, <2>2
<1>5. ASSUME Entry PROVE Shape(buf)' /\ Block' = Block /\ Refs' = Refs
  <2> DEFINE b == info[used.ring[usedIdx % NUM]].b
  <2>1. buf' = buf \/ buf' = [buf EXCEPT ![b].disk = FALSE]
    BY <1>5, Zenon DEF Entry
  <2> HIDE DEF b
  <2>2. CASE buf' # buf
    BY <2>1, <2>2, DiskSet
  <2> QED
    BY <1>2, <2>2
<1>6. buf' = buf \/ Entry \/ (\E h \in inflight : DeviceDo(h)) \/ (\E p \in Procs : Submit(p))
  BY Zenon DEF DriverStep, Device, Handler, VirtioDiskRw, DeviceTake, VirtioDiskIntr, IntrEntry, IntrReturn,
     AllocFail, VirtioDiskDone
<1> QED
  BY <1>2, <1>3, <1>4, <1>5, <1>6

\* A process that is not idle has a buffer of some block.
LEMMA CurIs ==
  ASSUME CacheType, UseInv, NEW p \in Procs, pc[p] # "idle"
  PROVE  cur[p] \in Bufs /\ Block[cur[p]] \in Blocks
<1>1. cur[p] \in Bufs /\ Block[cur[p]] # Nil
  BY DEF CacheType, UseInv
<1> QED
  BY <1>1 DEF CacheType

\* What a process does with the cache.
LEMMA StepMoves ==
  ASSUME CacheType, LruInv, UseInv, NEW p \in Procs, Step(p)
  PROVE  Shape(buf)' /\ Moves
<1>s. Shape(buf)
  BY DEF CacheType
<1>k. ASSUME buf' = buf PROVE Shape(buf)' /\ Block' = Block /\ Refs' = Refs
  BY <1>s, <1>k DEF Shape, Block, Refs
<1>r. \A b \in Bufs : Block[b] = buf[b].block /\ Refs[b] = buf[b].refcnt
  BY DEF Block, Refs
<1>1. ASSUME NEW k \in Blocks, pc[p] = "idle", BgetHit(p, k) PROVE Shape(buf)' /\ Moves
  <2>1. PICK b \in Bufs : buf[b].block = k /\ buf' = [buf EXCEPT ![b].refcnt = buf[b].refcnt + 1] /\ Got(p, b, k)
    BY <1>1, Zenon DEF BgetHit, Cached
  <2>2. Shape(buf)' /\ Block' = Block /\ Refs' = [Refs EXCEPT ![b] = buf[b].refcnt + 1]
    BY <1>s, <2>1, RefSet, Zenon
  <2>3. Grab(p, b)
    BY <1>1, <2>1, Zenon DEF Got, Grab
  <2>4. Block[b] \in Blocks /\ Refs' = [Refs EXCEPT ![b] = Refs[b] + 1]
    BY <1>r, <2>1, <2>2, Zenon
  <2>5. Hit(p, b)
    BY <2>2, <2>3, <2>4, Zenon DEF Hit
  <2> QED
    BY <2>2, <2>5, Zenon DEF Moves
<1>2. ASSUME NEW k \in Blocks, pc[p] = "idle", Cached(k) = {}, BgetMiss(p, k) PROVE Shape(buf)' /\ Moves
  <2>1. PICK b \in Bufs : /\ Refs[b] = 0
                          /\ buf' = [buf EXCEPT ![b].block = k, ![b].valid = FALSE, ![b].refcnt = 1]
                          /\ Got(p, b, k)
    BY <1>2, MissIs, Zenon
  <2>2. Shape(buf)' /\ Block' = [Block EXCEPT ![b] = k] /\ Refs' = [Refs EXCEPT ![b] = 1]
    BY <1>s, <2>1, RecycleSet, Zenon
  <2>3. Grab(p, b)
    BY <1>2, <2>1, Zenon DEF Got, Grab
  <2>4. \A a \in Bufs : Block[a] # k
    BY <1>2, <1>r DEF Cached
  <2>5. Recycle(p, b, k)
    BY <2>1, <2>2, <2>3, <2>4, Zenon DEF Recycle
  <2> QED
    BY <2>2, <2>5, Zenon DEF Moves
<1>3. ASSUME BgetPanic PROVE Shape(buf)' /\ Moves
  <2>1. buf' = buf /\ UNCHANGED <<lru, lock, pc, cur, pinned>>
    BY <1>3, Zenon DEF BgetPanic, bvars
  <2> QED
    BY <1>k, <2>1 DEF Moves, Quiet
<1>4. ASSUME Bread(p) PROVE Shape(buf)' /\ Moves
  <2>1. buf' = buf /\ UNCHANGED <<lru, cur, pinned>> /\ pc[p] = "lock"
    BY <1>4, Zenon DEF Bread
  <2>2. \/ lock[cur[p]] # Nil /\ pc' = [pc EXCEPT ![p] = "locksleep"] /\ lock' = lock
        \/ \E l \in Held : /\ lock[cur[p]] = Nil /\ lock' = [lock EXCEPT ![cur[p]] = p]
                           /\ pc' = [pc EXCEPT ![p] = l]
    BY <1>4, Zenon DEF Bread, Held
  <2>3. Shape(buf)' /\ Block' = Block /\ Refs' = Refs
    BY <1>k, <2>1
  <2>4. LockSleep(p) \/ \E l \in Held : LockTake(p, l)
    BY <2>1, <2>2, <2>3 DEF LockSleep, LockTake
  <2> QED
    BY <2>3, <2>4, Zenon DEF Moves
<1>5. ASSUME BreadDone(p) PROVE Shape(buf)' /\ Moves
  <2>1. buf' = [buf EXCEPT ![cur[p]].valid = TRUE]
    BY <1>5, Zenon DEF BreadDone
  <2>2. Shape(buf)' /\ Block' = Block /\ Refs' = Refs
    BY <1>s, <2>1, ValidSet, Zenon
  <2>3. Move(p, "hold") /\ "hold" \in Held
    BY <1>5, <2>2 DEF BreadDone, Move, Hold, Held
  <2> QED
    BY <2>2, <2>3, Zenon DEF Moves
<1>6. ASSUME NEW v, LogWrite(p, v) PROVE Shape(buf)' /\ Moves
  <2> DEFINE b == cur[p]
             n == IF buf[b].block \in pinned THEN buf[b].refcnt ELSE buf[b].refcnt + 1
  <2>1. b \in Bufs /\ pc[p] = "hold"
    BY <1>6, CurIs DEF LogWrite
  <2>2. buf' = [[buf EXCEPT ![b].data = v] EXCEPT ![b].refcnt = n]
    <3>1. [buf EXCEPT ![b].data = v][b].refcnt = buf[b].refcnt
      BY <1>s, <2>1 DEF Shape, Fields
    <3> QED
      BY <1>6, <3>1 DEF LogWrite, Store
  <2>3. Shape(buf)' /\ Block' = Block /\ Refs' = [Refs EXCEPT ![b] = n]
    BY <1>s, <2>1, <2>2, StoreSet, Zenon
  <2>4. /\ pc' = [pc EXCEPT ![p] = "done"] /\ UNCHANGED <<lru, lock, cur>>
        /\ pinned' = pinned \cup {buf[b].block}
    BY <1>6, Zenon DEF LogWrite
  <2>5. Pin(p, "done") /\ "done" \in Held
    BY <1>r, <2>1, <2>3, <2>4, Zenon DEF Pin, Hold, Held
  <2> QED
    BY <2>3, <2>5, Zenon DEF Moves
<1>7. ASSUME InstallTrans(p) PROVE Shape(buf)' /\ Moves
  <2>1. /\ buf' = buf /\ pc[p] = "hold" /\ pc' = [pc EXCEPT ![p] = "writing"]
        /\ UNCHANGED <<lru, lock, cur, pinned>>
    BY <1>7, Zenon DEF InstallTrans, Bwrite
  <2>2. Shape(buf)' /\ Block' = Block /\ Refs' = Refs
    BY <1>k, <2>1
  <2>3. Move(p, "writing") /\ "writing" \in Held
    BY <2>1, <2>2 DEF Move, Hold, Held
  <2> QED
    BY <2>2, <2>3, Zenon DEF Moves
<1>8. ASSUME BwriteDone(p) PROVE Shape(buf)' /\ Moves
  <2> DEFINE b == cur[p]
             n == IF buf[b].block \in pinned THEN buf[b].refcnt - 1 ELSE buf[b].refcnt
  <2>1. b \in Bufs /\ pc[p] = "writing"
    BY <1>8, CurIs DEF BwriteDone
  <2>2. buf' = [buf EXCEPT ![b].refcnt = n]
    BY <1>8 DEF BwriteDone
  <2>3. Shape(buf)' /\ Block' = Block /\ Refs' = [Refs EXCEPT ![b] = n]
    BY <1>s, <2>1, <2>2, RefSet, Zenon
  <2>4. /\ pc' = [pc EXCEPT ![p] = "done"] /\ UNCHANGED <<lru, lock, cur>>
        /\ pinned' = pinned \ {buf[b].block}
    BY <1>8, Zenon DEF BwriteDone
  <2>5. Unpin(p, "done") /\ "done" \in Held
    BY <1>r, <2>1, <2>3, <2>4, Zenon DEF Unpin, Hold, Held
  <2> QED
    BY <2>3, <2>5, Zenon DEF Moves
<1>9. ASSUME ReleaseSleep(p) PROVE Shape(buf)' /\ Moves
  <2>1. buf' = buf /\ pc[p] \in {"hold", "done"}
    BY <1>9, Zenon DEF ReleaseSleep
  <2>2. Shape(buf)' /\ Block' = Block /\ Refs' = Refs
    BY <1>k, <2>1
  <2>3. Unlock(p)
    BY <1>9, <2>1, <2>2 DEF ReleaseSleep, Unlock, Held
  <2> QED
    BY <2>2, <2>3, Zenon DEF Moves
<1>10. ASSUME Brelse(p) PROVE Shape(buf)' /\ Moves
  <2> DEFINE b == cur[p]
  <2>1. b \in Bufs /\ pc[p] = "unlocked"
    BY <1>10, CurIs DEF Brelse
  <2>2. buf' = [buf EXCEPT ![b].refcnt = buf[b].refcnt - 1]
    BY <1>10 DEF Brelse
  <2>3. Shape(buf)' /\ Block' = Block /\ Refs' = [Refs EXCEPT ![b] = buf[b].refcnt - 1]
    BY <1>s, <2>1, <2>2, RefSet, Zenon
  <2>4. /\ pc' = [pc EXCEPT ![p] = "idle"] /\ cur' = [cur EXCEPT ![p] = Nil] /\ UNCHANGED <<lock, pinned>>
        /\ lru' = lru \/ lru' = MoveToFront(b)
    BY <1>10, Zenon DEF Brelse
  <2>5. Drop(p)
    BY <1>r, <2>1, <2>3, <2>4, Zenon DEF Drop
  <2> QED
    BY <2>3, <2>5, Zenon DEF Moves
<1>11. ASSUME NEW v, WriteLog(p, v) PROVE Shape(buf)' /\ Moves
  <2>1. /\ buf' = [buf EXCEPT ![cur[p]].data = v]
        /\ pc[p] = "hold" /\ pc' = [pc EXCEPT ![p] = "writing"]
        /\ UNCHANGED <<lru, lock, cur, pinned>>
    BY <1>11, Zenon DEF WriteLog, Bwrite, Store
  <2>2. Shape(buf)' /\ Block' = Block /\ Refs' = Refs
    BY <1>s, <2>1, DataSet, Zenon
  <2>3. Move(p, "writing") /\ "writing" \in Held
    BY <2>1, <2>2 DEF Move, Hold, Held
  <2> QED
    BY <2>2, <2>3, Zenon DEF Moves
<1> QED
  BY <1>1, <1>2, <1>3, <1>4, <1>5, <1>6, <1>7, <1>8, <1>9, <1>10, <1>11, Zenon DEF Step, Bget

\* What any step does with the cache.
LEMMA NextMoves ==
  ASSUME CacheInv, [Next]_vars
  PROVE  Shape(buf)' /\ Moves
<1>a. CacheType /\ LruInv /\ UseInv /\ Shape(buf)
  BY DEF CacheInv, CacheType
<1>1. CASE UNCHANGED vars
  <2>1. buf' = buf /\ UNCHANGED <<lru, lock, pc, cur, pinned>>
    BY <1>1, Zenon DEF vars, vvars, bvars
  <2>2. Shape(buf)' /\ Quiet
    BY <1>a, <2>1 DEF Shape, Quiet, Block, Refs
  <2> QED
    BY <2>2, Zenon DEF Moves
<1>2. CASE DriverStep
  BY <1>a, <1>2, DriverQuiet, Zenon DEF Moves
<1>3. ASSUME NEW p \in Procs, Step(p) PROVE Shape(buf)' /\ Moves
  BY <1>a, <1>3, StepMoves
<1> QED
  BY <1>1, <1>2, <1>3, Zenon DEF Next, Halted

-----------------------------------------------------------------------------
(* The moves keep the invariant.                                            *)

\* The types.
LEMMA TypeStep ==
  ASSUME CacheType, UseInv, Shape(buf)', Moves
  PROVE  CacheType'
<1>y. /\ Block \in [Bufs -> Blocks \cup {Nil}] /\ Refs \in [Bufs -> Int]
      /\ lock \in [Bufs -> Procs \cup {Nil}] /\ pc \in [Procs -> Labels]
      /\ cur \in [Procs -> Bufs \cup {Nil}] /\ pinned \in SUBSET Blocks
  BY DEF CacheType
<1> SUFFICES /\ Block' \in [Bufs -> Blocks \cup {Nil}] /\ Refs' \in [Bufs -> Int]
             /\ lock' \in [Bufs -> Procs \cup {Nil}] /\ pc' \in [Procs -> Labels]
             /\ cur' \in [Procs -> Bufs \cup {Nil}] /\ pinned' \in SUBSET Blocks
  BY Zenon DEF CacheType
<1>1. CASE Quiet
  BY <1>y, <1>1 DEF Quiet
<1>2. ASSUME NEW p \in Procs, NEW b \in Bufs, Grab(p, b)
      PROVE  /\ lock' \in [Bufs -> Procs \cup {Nil}] /\ pc' \in [Procs -> Labels]
             /\ cur' \in [Procs -> Bufs \cup {Nil}] /\ pinned' \in SUBSET Blocks
  BY <1>y, <1>2 DEF Grab, Labels
<1>3. ASSUME NEW p \in Procs, NEW b \in Bufs, Hit(p, b)
      PROVE  Block' \in [Bufs -> Blocks \cup {Nil}] /\ Refs' \in [Bufs -> Int] /\ Grab(p, b)
  BY <1>y, <1>3 DEF Hit
<1>4. ASSUME NEW p \in Procs, NEW b \in Bufs, NEW k \in Blocks, Recycle(p, b, k)
      PROVE  Block' \in [Bufs -> Blocks \cup {Nil}] /\ Refs' \in [Bufs -> Int] /\ Grab(p, b)
  BY <1>y, <1>4 DEF Recycle
<1>5. ASSUME NEW p \in Procs, LockSleep(p)
      PROVE  /\ UNCHANGED <<Block, Refs, lock, cur, pinned>> /\ pc' \in [Procs -> Labels]
  BY <1>y, <1>5 DEF LockSleep, Labels
<1>6. ASSUME NEW p \in Procs, NEW l \in Held, LockTake(p, l)
      PROVE  /\ UNCHANGED <<Block, Refs, cur, pinned>> /\ pc' \in [Procs -> Labels]
             /\ lock' \in [Bufs -> Procs \cup {Nil}]
  BY <1>y, <1>6, Zenon DEF LockTake, Labels
<1>7. ASSUME NEW p \in Procs, NEW l \in Held, Hold(p, l)
      PROVE  /\ UNCHANGED <<Block, lock, cur>> /\ pc' \in [Procs -> Labels]
             /\ cur[p] \in Bufs /\ Block[cur[p]] \in Blocks
  BY <1>y, <1>7, CurIs DEF Hold, Labels, Held
<1>8. ASSUME NEW p \in Procs, NEW l \in Held, Move(p, l) PROVE Hold(p, l) /\ UNCHANGED <<Refs, pinned>>
  BY <1>8, Zenon DEF Move
<1>9. ASSUME NEW p \in Procs, NEW l \in Held, Pin(p, l)
      PROVE  Hold(p, l) /\ Refs' \in [Bufs -> Int] /\ pinned' \in SUBSET Blocks
  <2>1. Hold(p, l) /\ cur[p] \in Bufs /\ Block[cur[p]] \in Blocks
    BY <1>7, <1>9 DEF Pin
  <2> QED
    BY <1>y, <1>9, <2>1 DEF Pin
<1>10. ASSUME NEW p \in Procs, NEW l \in Held, Unpin(p, l)
       PROVE  Hold(p, l) /\ Refs' \in [Bufs -> Int] /\ pinned' \in SUBSET Blocks
  <2>1. Hold(p, l) /\ cur[p] \in Bufs
    BY <1>7, <1>10 DEF Unpin
  <2> QED
    BY <1>y, <1>10, <2>1 DEF Unpin
<1>11. ASSUME NEW p \in Procs, Unlock(p)
       PROVE  /\ UNCHANGED <<Block, Refs, cur, pinned>> /\ pc' \in [Procs -> Labels]
              /\ lock' \in [Bufs -> Procs \cup {Nil}]
  BY <1>y, <1>11, Zenon DEF Unlock, Labels
<1>12. ASSUME NEW p \in Procs, Drop(p)
       PROVE  /\ UNCHANGED <<Block, lock, pinned>> /\ pc' \in [Procs -> Labels] /\ Refs' \in [Bufs -> Int]
              /\ cur' \in [Procs -> Bufs \cup {Nil}]
  <2>1. cur[p] \in Bufs
    BY <1>12, CurIs DEF Drop
  <2> QED
    BY <1>y, <1>12, <2>1 DEF Drop, Labels
<1> QED
  BY <1>y, <1>1, <1>2, <1>3, <1>4, <1>5, <1>6, <1>7, <1>8, <1>9, <1>10, <1>11, <1>12 DEF Moves

\* A buffer that moves to the front leaves every other one in the list.
LEMMA FrontKeeps ==
  ASSUME LruInv, NEW b \in Bufs, lru' = MoveToFront(b)
  PROVE  LruInv'
<1> DEFINE at == CHOOSE i \in DOMAIN lru : lru[i] = b
           new == [i \in 1 .. NBUF |-> IF i = 1 THEN b ELSE IF i <= at THEN lru[i - 1] ELSE lru[i]]
<1>2. DOMAIN lru = 1 .. NBUF /\ NBUF \in Nat /\ lru \in [1 .. NBUF -> Bufs]
  BY VirtioAssumption DEF LruInv
<1>3. at \in 1 .. NBUF /\ lru[at] = b
  <2>1. \E i \in DOMAIN lru : lru[i] = b
    BY <1>2 DEF LruInv
  <2> QED
    BY <1>2, <2>1
<1>4. lru' = new
  BY <1>2 DEF MoveToFront
<1> HIDE DEF at
<1>5. new \in [1 .. NBUF -> Bufs]
  BY <1>2, <1>3
<1>6. ASSUME NEW x \in Bufs PROVE \E i \in 1 .. NBUF : new[i] = x
  <2>1. PICK i \in 1 .. NBUF : lru[i] = x
    BY DEF LruInv
  <2>2. CASE i = at
    <3>1. 1 \in 1 .. NBUF /\ new[1] = b
      BY <1>2, <1>3
    <3> QED
      BY <1>3, <2>1, <2>2, <3>1
  <2>3. CASE i < at
    <3>1. i + 1 \in 1 .. NBUF /\ new[i + 1] = lru[(i + 1) - 1] /\ (i + 1) - 1 = i
      BY <1>2, <1>3, <2>3
    <3> QED
      BY <2>1, <3>1
  <2>4. CASE i > at
    <3>1. new[i] = lru[i]
      BY <1>2, <1>3, <2>4
    <3> QED
      BY <2>1, <3>1
  <2> QED
    BY <1>2, <1>3, <2>2, <2>3, <2>4
<1> HIDE DEF new
<1> QED
  BY <1>4, <1>5, <1>6 DEF LruInv

\* The list keeps every buffer.
LEMMA LruStep ==
  ASSUME CacheType, LruInv, UseInv, Moves
  PROVE  LruInv'
<1>1. CASE lru' = lru
  BY <1>1 DEF LruInv
<1>2. ASSUME NEW p \in Procs, Drop(p) PROVE LruInv'
  <2>1. cur[p] \in Bufs
    BY <1>2, CurIs DEF Drop
  <2>2. lru' = lru \/ lru' = MoveToFront(cur[p])
    BY <1>2, Zenon DEF Drop
  <2> QED
    BY <1>1, <2>1, <2>2, FrontKeeps
<1>3. lru' = lru \/ \E p \in Procs : Drop(p)
  BY Zenon DEF Moves, Quiet, Hit, Recycle, Grab, LockSleep, LockTake, Hold, Move, Pin, Unpin, Unlock
<1> QED
  BY <1>1, <1>2, <1>3

\* bget() gives a block a buffer only when it has none.
LEMMA OneStep ==
  ASSUME CacheType, OneInv, Moves
  PROVE  OneInv'
<1>1. CASE Block' = Block
  BY <1>1 DEF OneInv
<1>2. ASSUME NEW p \in Procs, NEW b \in Bufs, NEW k \in Blocks, Recycle(p, b, k) PROVE OneInv'
  <2>1. \A x \in Bufs : Block'[x] = IF x = b THEN k ELSE Block[x]
    BY <1>2 DEF CacheType, Recycle
  <2>2. \A x \in Bufs : Block[x] # k
    BY <1>2, Zenon DEF Recycle
  <2> QED
    BY <2>1, <2>2 DEF OneInv
<1>3. Block' = Block \/ \E p \in Procs, b \in Bufs, k \in Blocks : Recycle(p, b, k)
  BY Zenon DEF Moves, Quiet, Hit, Drop, LockSleep, LockTake, Hold, Move, Pin, Unpin, Unlock
<1> QED
  BY <1>1, <1>2, <1>3

\* A buffer without references is nobody's.
LEMMA Unreferenced ==
  ASSUME RefInv, NEW b \in Bufs, Refs[b] = 0
  PROVE  (\A q \in Procs : cur[q] # b) /\ Block[b] \notin pinned
<1>1. IsFiniteSet(Users(b)) /\ Cardinality(Users(b)) \in Nat
  <2>1. IsFiniteSet(Users(b))
    BY VirtioAssumption, FS_Subset DEF Users
  <2> QED
    BY <2>1, FS_CardinalityType
<1>2. Cardinality(Users(b)) + Pins(b) = 0
  BY DEF RefInv
<1>3. Cardinality(Users(b)) = 0 /\ Block[b] \notin pinned
  BY <1>1, <1>2 DEF Pins
<1>4. Users(b) = {}
  BY <1>1, <1>3, FS_EmptySet
<1> QED
  BY <1>3, <1>4 DEF Users

\* The users of the buffers when a process takes one ...
LEMMA UsersTake ==
  ASSUME CacheType, NEW p \in Procs, NEW b \in Bufs, cur[p] = Nil, cur' = [cur EXCEPT ![p] = b], NEW x \in Bufs
  PROVE  Cardinality(Users(x)') = IF x = b THEN Cardinality(Users(x)) + 1 ELSE Cardinality(Users(x))
<1>0. cur \in [Procs -> Bufs \cup {Nil}] /\ Nil \notin Bufs
  BY VirtioAssumption DEF CacheType
<1>1. Users(x)' = IF x = b THEN Users(x) \cup {p} ELSE Users(x)
  BY <1>0 DEF Users
<1>2. p \notin Users(x) /\ IsFiniteSet(Users(x))
  BY <1>0, VirtioAssumption, FS_Subset DEF Users
<1> QED
  BY <1>1, <1>2, FS_AddElement

\* ... and when it leaves it.
LEMMA UsersLeave ==
  ASSUME CacheType, NEW p \in Procs, cur[p] \in Bufs, cur' = [cur EXCEPT ![p] = Nil], NEW x \in Bufs
  PROVE  Cardinality(Users(x)') = IF x = cur[p] THEN Cardinality(Users(x)) - 1 ELSE Cardinality(Users(x))
<1>0. cur \in [Procs -> Bufs \cup {Nil}] /\ Nil \notin Bufs
  BY VirtioAssumption DEF CacheType
<1>1. Users(x)' = IF x = cur[p] THEN Users(x) \ {p} ELSE Users(x)
  BY <1>0 DEF Users
<1>2. (x = cur[p] => p \in Users(x)) /\ IsFiniteSet(Users(x))
  BY VirtioAssumption, FS_Subset DEF Users
<1> QED
  BY <1>1, <1>2, FS_RemoveElement, Zenon

\* A count of users is a number.
LEMMA UsersType ==
  ASSUME NEW x
  PROVE  Cardinality(Users(x)) \in Nat
<1>1. IsFiniteSet(Users(x))
  BY VirtioAssumption, FS_Subset DEF Users
<1> QED
  BY <1>1, FS_CardinalityType

\* The reference counts count the users and the pin.
LEMMA RefStep ==
  ASSUME CacheType, UseInv, OneInv, RefInv, Moves
  PROVE  RefInv'
<1>y. /\ Block \in [Bufs -> Blocks \cup {Nil}] /\ Refs \in [Bufs -> Int]
      /\ cur \in [Procs -> Bufs \cup {Nil}] /\ pinned \in SUBSET Blocks
  BY DEF CacheType
<1>i. ASSUME \A b \in Bufs : Refs'[b] = Cardinality(Users(b)') + Pins(b)',
             \A k \in pinned' : \E b \in Bufs : Block'[b] = k
      PROVE  RefInv'
  BY <1>i, Zenon DEF RefInv
<1>h. /\ \A b \in Bufs : Refs[b] = Cardinality(Users(b)) + Pins(b)
      /\ \A k \in pinned : \E b \in Bufs : Block[b] = k
  BY Zenon DEF RefInv
<1>u. \A x \in Bufs : Cardinality(Users(x)) \in Nat
  BY UsersType
<1>1. ASSUME UNCHANGED <<Block, Refs, cur, pinned>> PROVE RefInv'
  <2>1. \A x \in Bufs : Users(x)' = Users(x) /\ Pins(x)' = Pins(x)
    BY <1>1 DEF Users, Pins
  <2> QED
    BY <1>1, <1>h, <1>i, <2>1
<1>2. ASSUME NEW p \in Procs, NEW b \in Bufs, Grab(p, b), NEW x \in Bufs
      PROVE  /\ Cardinality(Users(x)') = IF x = b THEN Cardinality(Users(x)) + 1 ELSE Cardinality(Users(x))
             /\ pinned' = pinned
  <2>1. cur[p] = Nil /\ cur' = [cur EXCEPT ![p] = b] /\ pinned' = pinned
    BY <1>2 DEF Grab, UseInv
  <2> QED
    BY <2>1, UsersTake, Zenon
<1>3. ASSUME NEW p \in Procs, NEW b \in Bufs, Hit(p, b) PROVE RefInv'
  <2>1. Block' = Block /\ Refs' = [Refs EXCEPT ![b] = Refs[b] + 1] /\ Grab(p, b)
    BY <1>3 DEF Hit
  <2>2. \A x \in Bufs : Refs'[x] = IF x = b THEN Refs[x] + 1 ELSE Refs[x]
    BY <1>y, <2>1
  <2>3. \A x \in Bufs : Pins(x)' = Pins(x)
    BY <1>2, <2>1 DEF Pins
  <2>4. \A x \in Bufs : Refs'[x] = Cardinality(Users(x)') + Pins(x)'
    <3> SUFFICES ASSUME NEW x \in Bufs PROVE Refs'[x] = Cardinality(Users(x)') + Pins(x)'
      OBVIOUS
    <3>1. Pins(x) \in Int
      BY DEF Pins
    <3> QED
      BY <1>2, <1>h, <1>u, <2>1, <2>2, <2>3, <3>1
  <2> QED
    BY <1>2, <1>h, <1>i, <2>1, <2>4
<1>4. ASSUME NEW p \in Procs, NEW b \in Bufs, NEW k \in Blocks, Recycle(p, b, k) PROVE RefInv'
  <2>1. /\ Refs[b] = 0 /\ Block' = [Block EXCEPT ![b] = k] /\ Refs' = [Refs EXCEPT ![b] = 1] /\ Grab(p, b)
        /\ \A a \in Bufs : Block[a] # k
    BY <1>4, Zenon DEF Recycle
  <2>2. \A x \in Bufs : /\ Refs'[x] = (IF x = b THEN 1 ELSE Refs[x])
                        /\ Block'[x] = (IF x = b THEN k ELSE Block[x])
    BY <1>y, <2>1
  <2>3. pinned' = pinned
    BY <1>2, <2>1
  <2>4. k \notin pinned /\ Block[b] \notin pinned /\ Cardinality(Users(b)) = 0
    <3>1. Users(b) = {}
      BY <2>1, Unreferenced DEF Users
    <3>2. Cardinality(Users(b)) = 0
      BY <3>1, FS_EmptySet
    <3> QED
      BY <1>h, <2>1, <3>2, Unreferenced
  <2>5. \A x \in Bufs : Refs'[x] = Cardinality(Users(x)') + Pins(x)'
    <3> SUFFICES ASSUME NEW x \in Bufs PROVE Refs'[x] = Cardinality(Users(x)') + Pins(x)'
      OBVIOUS
    <3>1. CASE x = b
      <4>1. Pins(b)' = 0
        BY <2>2, <2>3, <2>4 DEF Pins
      <4> QED
        BY <1>2, <2>1, <2>2, <2>4, <3>1, <4>1
    <3>2. CASE x # b
      <4>1. Pins(x)' = Pins(x)
        BY <2>2, <2>3, <3>2 DEF Pins
      <4> QED
        BY <1>2, <1>h, <2>1, <2>2, <3>2, <4>1
    <3> QED
      BY <3>1, <3>2
  <2>6. ASSUME NEW j \in pinned' PROVE \E x \in Bufs : Block'[x] = j
    <3>1. PICK x \in Bufs : Block[x] = j
      BY <1>h, <2>3, <2>6
    <3>2. x # b
      BY <2>3, <2>4, <3>1
    <3> QED
      BY <2>2, <3>1, <3>2
  <2> QED
    BY <1>i, <2>5, <2>6
<1>5. ASSUME NEW p \in Procs, NEW l \in Held, Hold(p, l)
      PROVE  /\ cur[p] \in Bufs /\ Block[cur[p]] \in Blocks /\ Block' = Block /\ cur' = cur
             /\ \A x \in Bufs : Users(x)' = Users(x) /\ (Block[x] = Block[cur[p]] => x = cur[p])
  <2>1. cur[p] \in Bufs /\ Block[cur[p]] \in Blocks /\ Block' = Block /\ cur' = cur
    BY <1>5, CurIs DEF Hold, Held
  <2>2. Block[cur[p]] # Nil
    BY <2>1, VirtioAssumption
  <2> QED
    BY <2>1, <2>2 DEF Users, OneInv
<1>6. ASSUME NEW p \in Procs, NEW l \in Held, Pin(p, l) PROVE RefInv'
  <2> DEFINE b == cur[p]
  <2>1. /\ Hold(p, l) /\ pinned' = pinned \cup {Block[b]}
        /\ Refs' = [Refs EXCEPT ![b] = IF Block[b] \in pinned THEN Refs[b] ELSE Refs[b] + 1]
    BY <1>6 DEF Pin
  <2>2. /\ b \in Bufs /\ Block' = Block
        /\ \A x \in Bufs : Users(x)' = Users(x) /\ (Block[x] = Block[b] => x = b)
    BY <1>5, <2>1
  <2> HIDE DEF b
  <2>3. \A x \in Bufs : Refs'[x] = IF x = b /\ Block[b] \notin pinned THEN Refs[x] + 1 ELSE Refs[x]
    BY <1>y, <2>1, <2>2
  <2>4. \A x \in Bufs : Pins(x)' = IF x = b THEN 1 ELSE Pins(x)
    BY <2>1, <2>2 DEF Pins
  <2>5. Pins(b) = IF Block[b] \in pinned THEN 1 ELSE 0
    BY DEF Pins
  <2>6. \A x \in Bufs : Refs'[x] = Cardinality(Users(x)') + Pins(x)'
    BY <1>h, <1>u, <2>2, <2>3, <2>4, <2>5
  <2> QED
    BY <1>h, <1>i, <2>1, <2>2, <2>6
<1>7. ASSUME NEW p \in Procs, NEW l \in Held, Unpin(p, l) PROVE RefInv'
  <2> DEFINE b == cur[p]
  <2>1. /\ Hold(p, l) /\ pinned' = pinned \ {Block[b]}
        /\ Refs' = [Refs EXCEPT ![b] = IF Block[b] \in pinned THEN Refs[b] - 1 ELSE Refs[b]]
    BY <1>7 DEF Unpin
  <2>2. /\ b \in Bufs /\ Block' = Block
        /\ \A x \in Bufs : Users(x)' = Users(x) /\ (Block[x] = Block[b] => x = b)
    BY <1>5, <2>1
  <2> HIDE DEF b
  <2>3. \A x \in Bufs : Refs'[x] = IF x = b /\ Block[b] \in pinned THEN Refs[x] - 1 ELSE Refs[x]
    BY <1>y, <2>1, <2>2
  <2>4. \A x \in Bufs : Pins(x)' = IF x = b THEN 0 ELSE Pins(x)
    BY <2>1, <2>2 DEF Pins
  <2>5. Pins(b) = IF Block[b] \in pinned THEN 1 ELSE 0
    BY DEF Pins
  <2>6. \A x \in Bufs : Refs'[x] = Cardinality(Users(x)') + Pins(x)'
    BY <1>h, <1>u, <2>2, <2>3, <2>4, <2>5
  <2> QED
    BY <1>h, <1>i, <2>1, <2>2, <2>6
<1>8. ASSUME NEW p \in Procs, Drop(p) PROVE RefInv'
  <2>1. /\ cur[p] \in Bufs /\ cur' = [cur EXCEPT ![p] = Nil] /\ UNCHANGED <<Block, pinned>>
        /\ Refs' = [Refs EXCEPT ![cur[p]] = Refs[cur[p]] - 1]
    BY <1>8, CurIs DEF Drop
  <2>2. \A x \in Bufs : Refs'[x] = IF x = cur[p] THEN Refs[x] - 1 ELSE Refs[x]
    BY <1>y, <2>1
  <2>3. \A x \in Bufs : Cardinality(Users(x)') = IF x = cur[p] THEN Cardinality(Users(x)) - 1 ELSE Cardinality(Users(x))
    BY <2>1, UsersLeave, Zenon
  <2>4. \A x \in Bufs : Pins(x)' = Pins(x) /\ Pins(x) \in Int
    BY <2>1 DEF Pins
  <2>5. \A x \in Bufs : Refs'[x] = Cardinality(Users(x)') + Pins(x)'
    BY <1>h, <1>u, <2>2, <2>3, <2>4
  <2> QED
    BY <1>h, <1>i, <2>1, <2>5
<1>9. \/ UNCHANGED <<Block, Refs, cur, pinned>>
      \/ \E p \in Procs, b \in Bufs : Hit(p, b) \/ \E k \in Blocks : Recycle(p, b, k)
      \/ \E p \in Procs : Drop(p)
      \/ \E p \in Procs, l \in Held : Pin(p, l) \/ Unpin(p, l)
  BY Zenon DEF Moves, Quiet, LockSleep, LockTake, Unlock, Hold, Move
<1> QED
  BY <1>1, <1>3, <1>4, <1>6, <1>7, <1>8, <1>9

\* Who uses a buffer, who holds its lock, and who sleeps for it.
LEMMA UseStep ==
  ASSUME CacheType, UseInv, RefInv, Moves
  PROVE  UseInv'
<1>y. /\ Block \in [Bufs -> Blocks \cup {Nil}] /\ lock \in [Bufs -> Procs \cup {Nil}]
      /\ pc \in [Procs -> Labels] /\ cur \in [Procs -> Bufs \cup {Nil}]
      /\ Nil \notin Bufs /\ Nil \notin Blocks /\ Nil \notin Procs
  BY VirtioAssumption DEF CacheType
<1>h. /\ \A q \in Procs : cur[q] = Nil <=> pc[q] = "idle"
      /\ \A q \in Procs : cur[q] # Nil => Block[cur[q]] # Nil
      /\ \A q \in Procs, x \in Bufs : lock[x] = q <=> cur[q] = x /\ pc[q] \in Held
      /\ \A q \in Procs : pc[q] = "locksleep" => lock[cur[q]] # Nil
  BY Zenon DEF UseInv
<1>i. ASSUME \A q \in Procs : cur'[q] = Nil <=> pc'[q] = "idle",
             \A q \in Procs : cur'[q] # Nil => Block'[cur'[q]] # Nil,
             \A q \in Procs, x \in Bufs : lock'[x] = q <=> cur'[q] = x /\ pc'[q] \in Held,
             \A q \in Procs : pc'[q] = "locksleep" => lock'[cur'[q]] # Nil
      PROVE  UseInv'
  BY <1>i, Zenon DEF UseInv
<1>d. {"idle", "lock", "locksleep", "unlocked"} \cap Held = {}
  BY DEF Held
<1>1. CASE Quiet
  BY <1>1, <1>h, <1>i DEF Quiet
<1>2. ASSUME NEW p \in Procs, NEW b \in Bufs, Grab(p, b), Block'[b] # Nil,
             \A q \in Procs : cur[q] # Nil => Block'[cur[q]] = Block[cur[q]]
      PROVE  UseInv'
  <2>1. /\ pc[p] = "idle" /\ cur[p] = Nil /\ lock' = lock
        /\ pc' = [pc EXCEPT ![p] = "lock"] /\ cur' = [cur EXCEPT ![p] = b]
    BY <1>2, <1>h DEF Grab
  <2>2. \A q \in Procs : /\ pc'[q] = (IF q = p THEN "lock" ELSE pc[q])
                         /\ cur'[q] = (IF q = p THEN b ELSE cur[q])
    BY <1>y, <2>1
  <2>3. \A x \in Bufs : lock[x] # p
    BY <1>d, <1>h, <2>1
  <2>4. \A q \in Procs, x \in Bufs : lock'[x] = q <=> cur'[q] = x /\ pc'[q] \in Held
    BY <1>d, <1>h, <2>1, <2>2, <2>3
  <2>5. \A q \in Procs : cur'[q] # Nil => Block'[cur'[q]] # Nil
    BY <1>2, <1>h, <2>2
  <2> QED
    BY <1>h, <1>i, <1>y, <2>1, <2>2, <2>4, <2>5
<1>3. ASSUME NEW p \in Procs, NEW b \in Bufs, Hit(p, b) PROVE UseInv'
  BY <1>2, <1>3, <1>y DEF Hit
<1>4. ASSUME NEW p \in Procs, NEW b \in Bufs, NEW k \in Blocks, Recycle(p, b, k) PROVE UseInv'
  <2>1. Refs[b] = 0 /\ Block' = [Block EXCEPT ![b] = k] /\ Grab(p, b)
    BY <1>4, Zenon DEF Recycle
  <2>2. \A q \in Procs : cur[q] # b
    BY <2>1, Unreferenced
  <2>3. Block'[b] # Nil /\ \A q \in Procs : cur[q] # Nil => Block'[cur[q]] = Block[cur[q]]
    BY <1>y, <2>1, <2>2
  <2> QED
    BY <1>2, <2>1, <2>3
<1>5. ASSUME NEW p \in Procs, NEW l, Block' = Block, cur' = cur, lock' = lock, pc' = [pc EXCEPT ![p] = l],
             pc[p] # "idle", l # "idle", pc[p] \in Held <=> l \in Held, l = "locksleep" => lock[cur[p]] # Nil
      PROVE  UseInv'
  <2>1. \A q \in Procs : pc'[q] = IF q = p THEN l ELSE pc[q]
    BY <1>5, <1>y
  <2>2. \A q \in Procs, x \in Bufs : lock'[x] = q <=> cur'[q] = x /\ pc'[q] \in Held
    BY <1>5, <1>h, <2>1
  <2> QED
    BY <1>5, <1>h, <1>i, <2>1, <2>2
<1>6. ASSUME NEW p \in Procs, LockSleep(p) PROVE UseInv'
  <2>1. /\ Block' = Block /\ cur' = cur /\ lock' = lock /\ pc' = [pc EXCEPT ![p] = "locksleep"]
        /\ pc[p] = "lock" /\ lock[cur[p]] # Nil
    BY <1>6, Zenon DEF LockSleep
  <2> QED
    BY <1>5, <1>d, <2>1, Zenon
<1>7. ASSUME NEW p \in Procs, NEW l \in Held, LockTake(p, l) PROVE UseInv'
  <2>1. /\ pc[p] = "lock" /\ lock[cur[p]] = Nil /\ Block' = Block /\ cur' = cur
        /\ lock' = [lock EXCEPT ![cur[p]] = p] /\ pc' = [pc EXCEPT ![p] = l]
    BY <1>7, Zenon DEF LockTake
  <2>2. cur[p] \in Bufs
    BY <1>h, <1>y, <2>1
  <2>3. /\ \A q \in Procs : pc'[q] = IF q = p THEN l ELSE pc[q]
        /\ \A x \in Bufs : lock'[x] = IF x = cur[p] THEN p ELSE lock[x]
    BY <1>y, <2>1
  <2>4. \A q \in Procs, x \in Bufs : lock'[x] = q <=> cur'[q] = x /\ pc'[q] \in Held
    <3> SUFFICES ASSUME NEW q \in Procs, NEW x \in Bufs PROVE lock'[x] = q <=> cur[q] = x /\ pc'[q] \in Held
      BY <2>1
    <3>1. CASE q = p
      BY <1>d, <1>h, <2>1, <2>3, <3>1
    <3>2. CASE q # p
      BY <1>h, <1>y, <2>1, <2>3, <3>2
    <3> QED
      BY <3>1, <3>2
  <2>5. \A q \in Procs : pc'[q] = "locksleep" => lock'[cur'[q]] # Nil
    <3> SUFFICES ASSUME NEW q \in Procs, pc'[q] = "locksleep" PROVE lock'[cur[q]] # Nil
      BY <2>1
    <3>1. q # p /\ pc[q] = "locksleep"
      BY <1>d, <2>3
    <3>2. cur[q] \in Bufs
      BY <1>h, <1>y, <3>1
    <3> QED
      BY <1>h, <1>y, <2>3, <3>1, <3>2
  <2> QED
    BY <1>d, <1>h, <1>i, <2>1, <2>3, <2>4, <2>5
<1>8. ASSUME NEW p \in Procs, NEW l \in Held, Hold(p, l) PROVE UseInv'
  <2>1. Block' = Block /\ cur' = cur /\ lock' = lock /\ pc' = [pc EXCEPT ![p] = l] /\ pc[p] \in Held
    BY <1>8, Zenon DEF Hold
  <2> QED
    BY <1>5, <1>d, <2>1, Zenon
<1>9. ASSUME NEW p \in Procs, Unlock(p) PROVE UseInv'
  <2>1. /\ pc[p] \in Held /\ Block' = Block /\ cur' = cur /\ lock' = [lock EXCEPT ![cur[p]] = Nil]
        /\ pc' = [q \in Procs |->
                    IF q = p THEN "unlocked"
                    ELSE IF pc[q] = "locksleep" /\ cur[q] = cur[p] THEN "lock" ELSE pc[q]]
    BY <1>9, Zenon DEF Unlock
  <2>2. cur[p] \in Bufs /\ lock[cur[p]] = p
    BY <1>d, <1>h, <1>y, <2>1
  <2>3. /\ \A q \in Procs : pc'[q] = IF q = p THEN "unlocked"
                                     ELSE IF pc[q] = "locksleep" /\ cur[q] = cur[p] THEN "lock" ELSE pc[q]
        /\ \A x \in Bufs : lock'[x] = IF x = cur[p] THEN Nil ELSE lock[x]
    BY <1>y, <2>1
  <2>4. \A q \in Procs, x \in Bufs : lock'[x] = q <=> cur'[q] = x /\ pc'[q] \in Held
    <3> SUFFICES ASSUME NEW q \in Procs, NEW x \in Bufs PROVE lock'[x] = q <=> cur[q] = x /\ pc'[q] \in Held
      BY <2>1
    <3>1. CASE x = cur[p]
      BY <1>d, <1>h, <1>y, <2>2, <2>3, <3>1
    <3>2. CASE x # cur[p]
      BY <1>d, <1>h, <2>3, <3>2
    <3> QED
      BY <3>1, <3>2
  <2>5. \A q \in Procs : pc'[q] = "locksleep" => lock'[cur'[q]] # Nil
    <3> SUFFICES ASSUME NEW q \in Procs, pc'[q] = "locksleep" PROVE lock'[cur[q]] # Nil
      BY <2>1
    <3>1. pc[q] = "locksleep" /\ cur[q] # cur[p]
      BY <2>3
    <3>2. cur[q] \in Bufs
      BY <1>h, <1>y, <3>1
    <3> QED
      BY <1>h, <2>3, <3>1, <3>2
  <2>6. \A q \in Procs : cur'[q] = Nil <=> pc'[q] = "idle"
    BY <1>d, <1>h, <2>1, <2>3
  <2> QED
    BY <1>h, <1>i, <2>1, <2>4, <2>5, <2>6
<1>10. ASSUME NEW p \in Procs, Drop(p) PROVE UseInv'
  <2>1. /\ pc[p] = "unlocked" /\ Block' = Block /\ lock' = lock
        /\ pc' = [pc EXCEPT ![p] = "idle"] /\ cur' = [cur EXCEPT ![p] = Nil]
    BY <1>10, Zenon DEF Drop
  <2>2. \A q \in Procs : /\ pc'[q] = (IF q = p THEN "idle" ELSE pc[q])
                         /\ cur'[q] = (IF q = p THEN Nil ELSE cur[q])
    BY <1>y, <2>1
  <2>3. \A q \in Procs, x \in Bufs : lock'[x] = q <=> cur'[q] = x /\ pc'[q] \in Held
    BY <1>d, <1>h, <1>y, <2>1, <2>2
  <2> QED
    BY <1>h, <1>i, <2>1, <2>2, <2>3
<1> QED
  BY <1>1, <1>3, <1>4, <1>6, <1>7, <1>8, <1>9, <1>10, Zenon DEF Moves, Move, Pin, Unpin

\* Who panics, and when.
LEMMA PanicStep ==
  ASSUME CacheInv, [Next]_vars
  PROVE  PanicInv'
<1>a. CacheType /\ LruInv /\ UseInv /\ PanicInv
  BY DEF CacheInv
<1>1. CASE UNCHANGED vars
  <2>1. buf' = buf /\ panicked' = panicked
    BY <1>1, Zenon DEF vars, vvars
  <2> QED
    BY <1>a, <2>1 DEF PanicInv, Refs
<1>2. ASSUME panicked' \notin {"bwrite", "brelse", "bget"} PROVE PanicInv'
  BY <1>2 DEF PanicInv
<1>3. CASE BgetPanic
  <2>1. Unused = {} /\ buf' = buf /\ panicked' = "bget"
    BY <1>3, Zenon DEF BgetPanic
  <2>2. Refs' = Refs /\ \A b \in Bufs : Refs[b] # 0
    BY <1>a, <2>1, PanicIs DEF Refs
  <2> QED
    BY <2>1, <2>2 DEF PanicInv
<1>4. ASSUME NEW p \in Procs, pc[p] \in {"hold", "done"} PROVE lock[cur[p]] = p
  <2>1. cur[p] \in Bufs
    BY <1>4, <1>a, CurIs
  <2> QED
    BY <1>4, <1>a, <2>1 DEF UseInv, Held
<1>5. ASSUME panicked = "none", DriverStep PROVE PanicInv'
  <2>1. panicked' \in {"none", "virtio_disk_intr", "free_desc"}
    BY <1>5, Zenon DEF DriverStep, Device, Handler, VirtioDiskRw, DeviceTake, DeviceDo, VirtioDiskIntr, IntrEntry,
       Entry, IntrReturn, AllocFail, Submit, VirtioDiskDone
  <2> QED
    BY <1>2, <2>1
<1>6. ASSUME panicked = "none", NEW p \in Procs, Step(p) PROVE PanicInv'
  <2>1. CASE pc[p] = "hold" /\ Bwrite(p)
    BY <1>2, <1>4, <1>6, <2>1 DEF Bwrite
  <2>2. CASE ReleaseSleep(p)
    BY <1>2, <1>4, <1>6, <2>2 DEF ReleaseSleep
  <2>3. CASE panicked' = panicked
    BY <1>2, <1>6, <2>3
  <2>4. panicked' = panicked \/ BgetPanic \/ (pc[p] = "hold" /\ Bwrite(p)) \/ ReleaseSleep(p)
    BY <1>6, Zenon DEF Step, Bget, BgetHit, BgetMiss, Bread, BreadDone, LogWrite, WriteLog,
       InstallTrans, BwriteDone, Brelse
  <2> QED
    BY <1>3, <2>1, <2>2, <2>3, <2>4
<1> QED
  BY <1>1, <1>5, <1>6, Zenon DEF Next, Halted

\* binit(): no buffer is used, locked or for a block.
LEMMA InitInv ==
  ASSUME Init
  PROVE  CacheInv
<1>1. /\ buf = [b \in Bufs |-> [block |-> Nil, data |-> Nil, disk |-> FALSE, valid |-> FALSE, refcnt |-> 0]]
      /\ lru = [i \in 1 .. NBUF |-> NBUF + 1 - i] /\ lock = [b \in Bufs |-> Nil]
      /\ pc = [p \in Procs |-> "idle"] /\ cur = [p \in Procs |-> Nil] /\ pinned = {} /\ panicked = "none"
  BY Zenon DEF Init, VirtioInit
<1>2. Block = [b \in Bufs |-> Nil] /\ Refs = [b \in Bufs |-> 0]
  BY <1>1 DEF Block, Refs
<1>3. Shape(buf)
  BY <1>1, Zenon DEF Shape, Fields
<1>4. CacheType
  BY <1>1, <1>2, <1>3 DEF CacheType, Labels
<1>5. LruInv
  <2>1. lru \in [1 .. NBUF -> Bufs] /\ NBUF \in Nat
    BY <1>1, VirtioAssumption DEF Bufs
  <2>2. \A b \in Bufs : NBUF + 1 - b \in 1 .. NBUF /\ lru[NBUF + 1 - b] = b
    BY <1>1, <2>1 DEF Bufs
  <2> QED
    BY <2>1, <2>2 DEF LruInv
<1>6. UseInv
  BY <1>1, <1>2, VirtioAssumption DEF UseInv, Held
<1>7. OneInv
  BY <1>2 DEF OneInv
<1>8. RefInv
  <2>1. \A b \in Bufs : Users(b) = {} /\ Pins(b) = 0
    BY <1>1, VirtioAssumption DEF Users, Pins
  <2>2. \A b \in Bufs : Refs[b] = Cardinality(Users(b)) + Pins(b)
    BY <1>2, <2>1, FS_EmptySet
  <2> QED
    BY <1>1, <2>2 DEF RefInv
<1>9. PanicInv
  BY <1>1 DEF PanicInv
<1> QED
  BY <1>4, <1>5, <1>6, <1>7, <1>8, <1>9 DEF CacheInv

-----------------------------------------------------------------------------
(* The theorems.                                                            *)

\* The inductive invariant of the buffer cache.
THEOREM CacheInvariance == Spec => []CacheInv
<1>1. Init => CacheInv
  BY InitInv
<1>2. CacheInv /\ [Next]_vars => CacheInv'
  <2> SUFFICES ASSUME CacheInv, [Next]_vars PROVE CacheInv'
    OBVIOUS
  <2>1. Shape(buf)' /\ Moves
    BY NextMoves
  <2>2. CacheType /\ LruInv /\ UseInv /\ OneInv /\ RefInv
    BY DEF CacheInv
  <2>3. CacheType' /\ LruInv' /\ UseInv' /\ OneInv' /\ RefInv'
    BY <2>1, <2>2, TypeStep, LruStep, UseStep, OneStep, RefStep
  <2>4. PanicInv'
    BY PanicStep
  <2> QED
    BY <2>3, <2>4 DEF CacheInv
<1> QED
  BY <1>1, <1>2, PTL DEF Spec

\* bget() never gives a block a second buffer, whoever recycles meanwhile.
THEOREM OneBuffer == Spec => []OneBufferPerBlock
<1>1. CacheInv => OneBufferPerBlock
  <2> SUFFICES ASSUME CacheInv, NEW k \in Blocks PROVE Cardinality(Cached(k)) <= 1
    BY DEF OneBufferPerBlock
  <2>1. CASE Cached(k) = {}
    BY <2>1, FS_EmptySet
  <2>2. CASE Cached(k) # {}
    <3>1. PICK b \in Bufs : b \in Cached(k)
      BY <2>2 DEF Cached
    <3>2. OneInv /\ k # Nil
      BY VirtioAssumption DEF CacheInv
    <3>3. Cached(k) = {b}
      BY <3>1, <3>2 DEF Cached, OneInv, Block
    <3>4. Cardinality({b}) = 1
      BY FS_Singleton, Zenon
    <3> QED
      BY <3>3, <3>4
  <2> QED
    BY <2>1, <2>2
<1> QED
  BY <1>1, CacheInvariance, PTL

\* A buffer has one holder from acquiresleep() to releasesleep(), and whoever
\* sleeps for its lock sleeps for a lock that somebody holds, who will wake it.
THEOREM SleepLock == Spec => []LockExclusive
<1>1. CacheInv => LockExclusive
  <2> SUFFICES ASSUME CacheInv PROVE LockExclusive
    OBVIOUS
  <2>a. CacheType /\ UseInv
    BY DEF CacheInv
  <2>1. \A p, q \in Procs : pc[p] \in Held /\ pc[q] \in Held /\ cur[p] = cur[q] => p = q
    <3> SUFFICES ASSUME NEW p \in Procs, NEW q \in Procs, pc[p] \in Held, pc[q] \in Held, cur[p] = cur[q]
                 PROVE  p = q
      OBVIOUS
    <3>1. cur[p] \in Bufs
      BY <2>a, CurIs DEF Held
    <3> QED
      BY <2>a, <3>1 DEF UseInv
  <2>2. ASSUME NEW p \in Procs, pc[p] = "locksleep" PROVE \E q \in Procs : cur[q] = cur[p] /\ pc[q] \in Held
    <3>1. cur[p] \in Bufs
      BY <2>2, <2>a, CurIs
    <3>2. lock[cur[p]] \in Procs
      BY <2>2, <2>a, <3>1 DEF UseInv, CacheType
    <3> QED
      BY <2>a, <3>1, <3>2 DEF UseInv
  <2> QED
    BY <2>1, <2>2 DEF LockExclusive
<1> QED
  BY <1>1, CacheInvariance, PTL

\* bget() panics only when every buffer is used or pinned: no reference is
\* ever lost; and the tests of bwrite() and brelse() for the lock never fail.
THEOREM PanicsOfTheCache == Spec => []CachePanics
<1>1. CacheInv => CachePanics
  <2> SUFFICES ASSUME CacheInv PROVE CachePanics
    OBVIOUS
  <2>a. PanicInv /\ RefInv
    BY DEF CacheInv
  <2>1. ASSUME NEW b \in Bufs, Refs[b] # 0, Block[b] \notin pinned PROVE \E p \in Procs : cur[p] = b
    <3>1. Cardinality(Users(b)) # 0
      BY <2>1, <2>a, UsersType DEF RefInv, Pins
    <3>2. Users(b) # {}
      BY <3>1, FS_EmptySet
    <3> QED
      BY <3>2 DEF Users
  <2> QED
    BY <2>a, <2>1 DEF CachePanics, PanicInv
<1> QED
  BY <1>1, CacheInvariance, PTL

\* A buffer that a process uses or the log has pinned keeps its block until
\* the last reference is gone.
THEOREM InUseIsKept == Spec => [][BufferKept]_vars
<1>1. CacheInv /\ [Next]_vars => [BufferKept]_vars
  <2> SUFFICES ASSUME CacheInv, [Next]_vars PROVE BufferKept
    OBVIOUS
  <2>1. Moves
    BY NextMoves
  <2>a. CacheType /\ RefInv
    BY DEF CacheInv
  <2>2. CASE Block' = Block
    BY <2>2 DEF BufferKept
  <2>3. ASSUME NEW p \in Procs, NEW b \in Bufs, NEW k \in Blocks, Recycle(p, b, k) PROVE BufferKept
    <3>1. Refs[b] = 0 /\ Block' = [Block EXCEPT ![b] = k]
      BY <2>3, Zenon DEF Recycle
    <3>2. (\A q \in Procs : cur[q] # b) /\ Block[b] \notin pinned
      BY <2>a, <3>1, Unreferenced
    <3>3. \A x \in Bufs : x # b => Block'[x] = Block[x]
      BY <2>a, <3>1 DEF CacheType
    <3> QED
      BY <3>2, <3>3 DEF BufferKept
  <2>4. Block' = Block \/ \E p \in Procs, b \in Bufs, k \in Blocks : Recycle(p, b, k)
    BY <2>1, Zenon DEF Moves, Quiet, Hit, Drop, LockSleep, LockTake, Hold, Move, Pin, Unpin, Unlock
  <2> QED
    BY <2>2, <2>3, <2>4
<1> QED
  BY <1>1, CacheInvariance, PTL DEF Spec

=============================================================================
