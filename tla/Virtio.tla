------------------------------- MODULE Virtio -------------------------------
(***************************************************************************)
(* The disk driver of virtio_disk.c against a virtio block device.  A call  *)
(* of virtio_disk_rw() takes three descriptors, publishes their head in the *)
(* avail ring, sleeps until the interrupt handler has seen the head in the  *)
(* used ring, and gives the descriptors back.  The device takes requests in *)
(* order, finishes them in any order, and works while the handler runs.     *)
(*                                                                          *)
(* disk.vdisk_lock is held from one sleep() to the next, so such a section  *)
(* is one action; only the handler, whose loop the device can extend, holds *)
(* it over several (handler = "loop").                                      *)
(***************************************************************************)
EXTENDS Integers, FiniteSets, Functions

CONSTANTS Procs,    \* processes that use the disk
          NBUF,     \* the buffers of the cache
          Blocks,   \* block numbers
          Values,   \* contents of a block
          NUMS,     \* the table sizes to check
          WRAPS,    \* 2^16 / NUM: the rings are used WRAPS times before idx wraps
          Nil

Bufs == 1 .. NBUF

ASSUME VirtioAssumption ==
  /\ NUMS \subseteq Nat \ 0 .. 2 /\ WRAPS \in Nat \ {0} /\ NBUF \in Nat
  /\ IsFiniteSet(Procs) /\ Nil \notin Procs \cup Bufs \cup Blocks

VARIABLES
  NUM,      \* descriptors, and length of the two rings; never changes
  buf,      \* struct buf: block, data, valid, refcnt, and disk (the device owns it)
  free,     \* descriptors with disk.free[i] = 1
  desc,     \* disk.desc: what addr points to (a request header in disk.ops, the
            \* data of a buffer, or a status byte), and the chain
  info,     \* disk.info: the buffer and the status of a request, by its head
  avail,    \* disk.avail: idx and the entries the device has yet to take
  used,     \* disk.used: idx and the entries the handler has yet to see
  usedIdx,  \* disk.used_idx
  irq,      \* the device asks for an interrupt
  handler,  \* "idle", or "loop" inside virtio_disk_intr()
  seen,     \* how far the device has read the avail ring
  inflight, \* heads of the requests the device works on
  disk,     \* the blocks on the disk
  rw,       \* the call of virtio_disk_rw() of each process
  panicked  \* "none", or who has called panic()

dvars == <<NUM, free, desc, info, avail, used, usedIdx, irq, handler, seen, inflight, disk>>
vvars == <<buf, dvars, rw, panicked>>

Desc == 0 .. NUM - 1
IDX == NUM * WRAPS

NoDesc == [req |-> Nil, data |-> Nil, next |-> 0, more |-> FALSE]
NoCall == [pc |-> "none", b |-> Nil, write |-> FALSE, head |-> 0]

Request == [write : BOOLEAN, block : Blocks]

(* virtio_disk_init(): the rings are zeroed and all descriptors free.       *)
VirtioInit ==
  /\ NUM \in NUMS
  /\ free = Desc
  /\ desc = [i \in Desc |-> NoDesc]
  /\ info = [i \in Desc |-> [b |-> Nil, status |-> 0]]
  /\ avail = [idx |-> 0, ring |-> <<>>]
  /\ used = [idx |-> 0, ring |-> <<>>]
  /\ usedIdx = 0
  /\ irq = FALSE
  /\ handler = "idle"
  /\ seen = 0
  /\ inflight = {}
  /\ rw = [p \in Procs |-> NoCall]
  /\ panicked = "none"

(* A ring entry that was consumed is never read again and is not kept.      *)
Put(r, x) ==
  [idx |-> (r.idx + 1) % IDX,
   ring |-> [s \in DOMAIN r.ring \cup {r.idx % NUM} |-> IF s = r.idx % NUM THEN x ELSE r.ring[s]]]
Take(r, i) == [r EXCEPT !.ring = Restrict(@, DOMAIN @ \ {i % NUM})]

(* wakeup(&disk.free[0]), called for each descriptor that is freed.         *)
WakeFree(r) ==
  [q \in Procs |-> IF r[q].pc = "allocsleep" THEN [r[q] EXCEPT !.pc = "alloc"] ELSE r[q]]

(* alloc3_desc(): the three lowest free descriptors.                        *)
Lowest(S) == CHOOSE i \in S : \A j \in S : i <= j
Alloc3(F) ==
  LET i == Lowest(F)
      j == Lowest(F \ {i})
  IN <<i, j, Lowest(F \ {i, j})>>

(* free_chain(): the descriptors linked from i.                             *)
Chain(i) ==
  LET j == desc[i].next
      k == desc[j].next
  IN {i} \cup (IF desc[i].more THEN {j} \cup (IF desc[j].more THEN {k} ELSE {}) ELSE {})

(* virtio_disk_rw() up to its first sleep.  Without three free descriptors  *)
(* alloc3_desc() gives back the one or two it took, which wakes the others  *)
(* that sleep for descriptors, and the process sleeps too.                  *)
AllocFail(p) ==
  /\ Cardinality(free) < 3
  /\ rw' = [(IF free = {} THEN rw ELSE WakeFree(rw)) EXCEPT ![p].pc = "allocsleep"]
  /\ UNCHANGED <<buf, dvars, panicked>>

Submit(p) ==
  LET b == rw[p].b
      w == rw[p].write
      x == Alloc3(free)
  IN /\ Cardinality(free) >= 3
     /\ free' = free \ {x[1], x[2], x[3]}
     /\ desc' = [desc EXCEPT
          ![x[1]] = [req |-> [write |-> w, block |-> buf[b].block], data |-> Nil, next |-> x[2], more |-> TRUE],
          ![x[2]] = [req |-> Nil, data |-> b, next |-> x[3], more |-> TRUE],
          ![x[3]] = NoDesc]
     /\ info' = [info EXCEPT ![x[1]] = [b |-> b, status |-> 255]]
     /\ buf' = [buf EXCEPT ![b].disk = TRUE]
     /\ avail' = Put(avail, x[1])
     /\ rw' = [rw EXCEPT ![p].pc = "waitsleep", ![p].head = x[1]]
     /\ UNCHANGED <<NUM, used, usedIdx, irq, handler, seen, inflight, disk, panicked>>

VirtioDiskRw(p) ==
  /\ rw[p].pc = "alloc"
  /\ handler = "idle"
  /\ AllocFail(p) \/ Submit(p)

(* virtio_disk_rw() after sleep(b, ...): asleep again, or done.  free_desc() *)
(* panics when a descriptor of the chain is already free.                   *)
VirtioDiskDone(p) ==
  LET h == rw[p].head
  IN /\ rw[p].pc = "wait"
     /\ handler = "idle"
     /\ IF buf[rw[p].b].disk
          THEN /\ rw' = [rw EXCEPT ![p].pc = "waitsleep"]
               /\ UNCHANGED <<free, desc, info, panicked>>
          ELSE /\ info' = [info EXCEPT ![h].b = Nil]
               /\ free' = free \cup Chain(h)
               /\ desc' = [i \in Desc |-> IF i \in Chain(h) THEN NoDesc ELSE desc[i]]
               /\ panicked' = IF Chain(h) \cap free # {} THEN "free_desc" ELSE panicked
               /\ rw' = [WakeFree(rw) EXCEPT ![p] = NoCall]
     /\ UNCHANGED <<NUM, buf, avail, used, usedIdx, irq, handler, seen, inflight, disk>>

(* virtio_disk_intr(): acknowledge, then one used entry per step.           *)
VirtioDiskIntr ==
  /\ handler = "idle" /\ irq
  /\ handler' = "loop"
  /\ irq' = FALSE
  /\ UNCHANGED <<NUM, buf, free, desc, info, avail, used, usedIdx, seen, inflight, disk, rw, panicked>>

(* One entry: the buffer is the process's again, and the process woken.  The *)
(* mutant catches up with used->idx after one entry.                        *)
Woken(b) ==
  [q \in Procs |-> IF rw[q].pc = "waitsleep" /\ rw[q].b = b
                     THEN [rw[q] EXCEPT !.pc = "wait"] ELSE rw[q]]
Entry ==
  LET id == used.ring[usedIdx % NUM]
      b == info[id].b
  IN IF info[id].status # 0 \/ b = Nil
       THEN panicked' = "virtio_disk_intr" /\ UNCHANGED <<buf, rw>>
       ELSE /\ buf' = [buf EXCEPT ![b].disk = FALSE]
            /\ rw' = Woken(b)
            /\ UNCHANGED panicked
(* Mutant: one entry is handled, and the others of the ring are skipped.    *)
IntrEntryLast ==
  /\ handler = "loop" /\ usedIdx # used.idx
  /\ Entry
  /\ usedIdx' = used.idx
  /\ used' = [used EXCEPT !.ring = <<>>]
  /\ UNCHANGED <<NUM, free, desc, info, avail, irq, handler, seen, inflight, disk>>
IntrEntry ==
  /\ handler = "loop" /\ usedIdx # used.idx
  /\ Entry
  /\ usedIdx' = (usedIdx + 1) % IDX
  /\ used' = Take(used, usedIdx)
  /\ UNCHANGED <<NUM, free, desc, info, avail, irq, handler, seen, inflight, disk>>

IntrReturn ==
  /\ handler = "loop" /\ usedIdx = used.idx
  /\ handler' = "idle"
  /\ UNCHANGED <<NUM, buf, free, desc, info, avail, used, usedIdx, irq, seen, inflight, disk, rw, panicked>>

(* The device: it takes the next head of the avail ring ...                 *)
DeviceTake ==
  /\ seen # avail.idx
  /\ inflight' = inflight \cup {avail.ring[seen % NUM]}
  /\ avail' = Take(avail, seen)
  /\ seen' = (seen + 1) % IDX
  /\ UNCHANGED <<NUM, buf, free, desc, info, used, usedIdx, irq, handler, disk, rw, panicked>>

(* ... and finishes a request: it follows the chain, transfers the block,   *)
(* writes the status and the used ring, and raises its interrupt.           *)
DeviceDo(h) ==
  LET op == desc[h].req
      b == desc[desc[h].next].data
  IN /\ IF op.write
          THEN disk' = [disk EXCEPT ![op.block] = buf[b].data] /\ UNCHANGED buf
          ELSE buf' = [buf EXCEPT ![b].data = disk[op.block]] /\ UNCHANGED disk
     /\ info' = [info EXCEPT ![h].status = 0]
     /\ used' = Put(used, h)
     /\ irq' = TRUE
     /\ inflight' = inflight \ {h}
     /\ UNCHANGED <<NUM, free, desc, avail, usedIdx, handler, seen, rw, panicked>>

Device == DeviceTake \/ \E h \in inflight : DeviceDo(h)

Handler == VirtioDiskIntr \/ IntrEntry \/ IntrReturn

=============================================================================
