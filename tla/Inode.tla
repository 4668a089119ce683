------------------------------- MODULE Inode -------------------------------
(***************************************************************************)
(* The contents of files: the block allocator, bmap(), itrunc(), readi()    *)
(* and writei() of fs.c, and fileread() and filewrite() of file.c.          *)
(*                                                                          *)
(* An inode is locked from ilock() to iunlock(), so that its owner alone    *)
(* changes it; the steps of writei() on different inodes interleave in the  *)
(* allocator.  A block has its bytes in data, as the buffer cache has them, *)
(* and in disk, as they are read again once its buffer has been recycled;   *)
(* as a block of addresses it has its words in ind, which bmap() always     *)
(* logs.  Names and links are left to module Fs.                            *)
(***************************************************************************)
EXTENDS Integers, Sequences, FiniteSets

CONSTANTS Procs,        \* a process writes its own name as every byte
          Inodes,
          Files,        \* open files (struct file)
          IpOf,         \* f->ip
          Blocks,       \* numbers of data blocks, 1..N
          Used,         \* those in use from the start, by other files
          BPB,          \* blocks that a block of the bitmap stands for
          BSIZE, NDIRECT, NINDIRECT, MAXOPBLOCKS,
          Sizes,        \* the n of read() and write(), negative ones too
          UINT,         \* 2^32: the arithmetic of uint
          MaxCalls,
          Nil

ASSUME InodeAssumption ==
  /\ \A x \in {BPB, BSIZE, NDIRECT, NINDIRECT} : x \in Nat \ {0}
  /\ (NDIRECT + NINDIRECT) * BSIZE < UINT /\ MAXOPBLOCKS >= 6

VARIABLES
  bitmap,   \* the blocks marked as in use
  data,     \* the bytes of each block, in its buffer
  disk,     \* its bytes on the disk
  pinned,   \* the blocks of the log: log_write() has pinned their buffers
  ind,      \* its words
  addrs,    \* ip->addrs
  size,     \* ip->size
  lock,     \* ip->lock
  off,      \* f->off
  st,       \* where each process is, and the variables of writei()
  logged,   \* the blocks its transaction has passed to log_write()
  text,     \* history: the bytes that writei() has counted in its result
  partial,  \* history: bytes of a copyin() that failed, by position, which
            \* writei() has not counted
  calls,
  panicked

cache == <<data, disk, pinned>>
hist == <<text, partial>>
vars == <<bitmap, cache, ind, addrs, size, lock, off, st, logged, hist, calls, panicked>>

Zero == Nil                    \* the byte of a zeroed block
MAXFILE == NDIRECT + NINDIRECT
Idle == [pc |-> "idle", f |-> CHOOSE f \in Files : TRUE, n |-> 0, i |-> 0, n1 |-> 0, tot |-> 0]
Least(S) == CHOOSE x \in S : \A y \in S : x <= y
Uint(x) == x % UINT

(* The blocks of metadata in a log: the inode is 0, the bitmap negative.    *)
InodeBlock == 0
BBLOCK(b) == -1 - (b - 1) \div BPB

Init ==
  /\ bitmap = Used
  /\ data = [b \in Blocks |-> [k \in 0 .. BSIZE - 1 |-> Zero]]
  /\ disk = data
  /\ pinned = {}
  /\ ind = [b \in Blocks |-> [k \in 0 .. NINDIRECT - 1 |-> 0]]
  /\ addrs = [ip \in Inodes |-> [k \in 0 .. NDIRECT |-> 0]]
  /\ size = [ip \in Inodes |-> 0]
  /\ lock = [ip \in Inodes |-> Nil]
  /\ off = [f \in Files |-> 0]
  /\ st = [p \in Procs |-> Idle]
  /\ logged = [p \in Procs |-> {}]
  /\ text = [ip \in Inodes |-> <<>>]
  /\ partial = [ip \in Inodes |-> [x \in 1 .. MAXFILE * BSIZE |-> {}]]
  /\ calls = MaxCalls
  /\ panicked = FALSE

-----------------------------------------------------------------------------
(* bmap(): the map of the file after the blocks that the nth one needs have *)
(* been allocated, each the first that is free; addr is 0 when there is     *)
(* none.  new are the blocks allocated, zeroed, and log what was logged.    *)
Free(m) == Blocks \ m.bitmap
Now(ip) == [addrs |-> addrs[ip], ind |-> ind, data |-> data, bitmap |-> bitmap, log |-> {}, addr |-> 0]

(* Mutant: a new block is not cleared.                                      *)
NoBzero(m, b) == [m EXCEPT !.log = @ \cup {b}]
Bzero(m, b) ==
  [m EXCEPT !.data[b] = [k \in 0 .. BSIZE - 1 |-> Zero], !.ind[b] = [k \in 0 .. NINDIRECT - 1 |-> 0],
            !.log = @ \cup {b}]
Balloc(m) ==
  IF Free(m) = {} THEN [m EXCEPT !.addr = 0]
  ELSE LET b == Least(Free(m))
       IN Bzero([m EXCEPT !.bitmap = @ \cup {b}, !.log = @ \cup {BBLOCK(b)}, !.addr = b], b)

(* The word k of the inode, or of its block of addresses a.                 *)
Direct(m, k) ==
  IF m.addrs[k] # 0 THEN [m EXCEPT !.addr = m.addrs[k]]
  ELSE LET r == Balloc(m) IN IF r.addr = 0 THEN r ELSE [r EXCEPT !.addrs[k] = r.addr]
Indirect(m, a, k) ==
  IF m.ind[a][k] # 0 THEN [m EXCEPT !.addr = m.ind[a][k]]
  ELSE LET r == Balloc(m)
       IN IF r.addr = 0 THEN r ELSE [r EXCEPT !.ind[a][k] = r.addr, !.log = @ \cup {a}]
Bmap(m, bn) ==
  IF bn < NDIRECT THEN Direct(m, bn)
  ELSE LET r == Direct(m, NDIRECT)
       IN IF r.addr = 0 THEN r ELSE Indirect(r, r.addr, bn - NDIRECT)

-----------------------------------------------------------------------------
(* filewrite() for an inode: at most max bytes in a transaction.            *)
(* Mutant: no slop for a write that is not aligned.                         *)
MaxLoose == ((MAXOPBLOCKS - 1 - 1) \div 2) * BSIZE
Max == ((MAXOPBLOCKS - 1 - 1 - 2) \div 2) * BSIZE

Write(p, f, n) ==
  /\ st[p].pc = "idle" /\ calls > 0
  /\ calls' = calls - 1
  /\ st' = IF n > 0 THEN [st EXCEPT ![p] = [Idle EXCEPT !.pc = "chunk", !.f = f, !.n = n]] ELSE st
  /\ UNCHANGED <<bitmap, cache, ind, addrs, size, lock, off, logged, hist, panicked>>

(* begin_op(), ilock() and the checks at the head of writei().              *)
WriteStart(p) ==
  LET s == st[p]
      ip == IpOf[s.f]
      o == off[s.f]
      n1 == IF s.n - s.i > Max THEN Max ELSE s.n - s.i
      refused == o > size[ip] \/ Uint(o + n1) < o \/ Uint(o + n1) > MAXFILE * BSIZE
  IN /\ s.pc = "chunk"
     /\ lock[ip] = Nil
     /\ IF refused
          THEN st' = [st EXCEPT ![p] = Idle] /\ UNCHANGED lock
          ELSE /\ st' = [st EXCEPT ![p].pc = "loop", ![p].n1 = n1, ![p].tot = 0]
               /\ lock' = [lock EXCEPT ![ip] = p]
     /\ UNCHANGED <<bitmap, cache, ind, addrs, size, off, logged, hist, calls, panicked>>

(* What a round of the loop of writei() passes to log_write(), after bmap(). *)
(* Mutant: not the block itself.                                            *)
LogMapOnly(r, all) == r.log
LogAll(r, all) == r.log \cup (IF all THEN {r.addr} ELSE {})

(* One round of the loop of writei(): k of the m bytes for the block reach  *)
(* the buffer, fewer than m if copyin() meets a page that is not mapped; a  *)
(* buffer that is not complete is not logged and ends the loop.             *)
WriteBlock(p) ==
  LET s == st[p]
      ip == IpOf[s.f]
      o == off[s.f] + s.tot
      r == Bmap(Now(ip), o \div BSIZE)
      m == IF s.n1 - s.tot < BSIZE - (o % BSIZE) THEN s.n1 - s.tot ELSE BSIZE - (o % BSIZE)
  IN /\ s.pc = "loop" /\ s.tot < s.n1
     /\ \E k \in IF r.addr = 0 THEN {0} ELSE 0 .. m :
          LET all == r.addr # 0 /\ k = m
              log == LogAll(r, all)
          IN /\ data' = [r.data EXCEPT ![IF r.addr = 0 THEN Least(Blocks) ELSE r.addr] =
                           [x \in 0 .. BSIZE - 1 |->
                              IF x >= o % BSIZE /\ x < (o % BSIZE) + k THEN p ELSE @[x]]]
             /\ st' = [st EXCEPT ![p] = IF all THEN [s EXCEPT !.tot = @ + m] ELSE [s EXCEPT !.pc = "end"]]
             /\ logged' = [logged EXCEPT ![p] = @ \cup log]
             /\ pinned' = pinned \cup (log \cap Blocks)
             /\ partial' = [partial EXCEPT ![ip] =
                              [x \in DOMAIN @ |-> @[x] \cup (IF ~all /\ x > o /\ x <= o + k THEN {p} ELSE {})]]
     /\ bitmap' = r.bitmap
     /\ ind' = r.ind
     /\ addrs' = [addrs EXCEPT ![ip] = r.addrs]
     /\ panicked' = (panicked \/ o \div BSIZE >= MAXFILE)
     /\ UNCHANGED <<disk, size, lock, off, text, calls>>

(* end_op() of p: the last operation commits, and the buffers in the log go *)
(* to the disk as they are.  Another one may have called begin_op() already *)
(* and wait for the inode.                                                  *)
EndOp(p) ==
  \/ /\ \A q \in Procs \ {p} : st[q].pc \notin {"loop", "end"}
     /\ disk' = [b \in Blocks |-> IF b \in pinned THEN data[b] ELSE disk[b]]
     /\ pinned' = {}
  \/ /\ \E q \in Procs \ {p} : st[q].pc # "idle"
     /\ UNCHANGED <<disk, pinned>>

(* bget() recycles the buffer of a block that is not in the log, and what   *)
(* is in it and was not logged is gone.                                     *)
Recycle(b) ==
  /\ b \notin pinned /\ data[b] # disk[b]
  /\ data' = [data EXCEPT ![b] = disk[b]]
  /\ UNCHANGED <<bitmap, disk, pinned, ind, addrs, size, lock, off, st, logged, hist, calls, panicked>>

(* The size after a write that ended at o.                                  *)
(* Mutant: the size also follows the offset down.                           *)
Truncated(ip, o) == o
Grown(ip, o) == IF o > size[ip] THEN o ELSE size[ip]

(* The end of writei(), iunlock(), end_op(); filewrite() goes on if all of  *)
(* the n1 bytes are written and more are left.                              *)
WriteEnd(p) ==
  LET s == st[p]
      ip == IpOf[s.f]
      o == off[s.f] + s.tot
      i == s.i + s.tot
  IN /\ s.pc = "end" \/ (s.pc = "loop" /\ s.tot = s.n1)
     /\ size' = [size EXCEPT ![ip] = Grown(ip, o)]
     /\ off' = [off EXCEPT ![s.f] = o]
     /\ text' = [text EXCEPT ![ip] = [x \in 1 .. (IF o > Len(@) THEN o ELSE Len(@)) |->
                                        IF x > off[s.f] /\ x <= o THEN p ELSE @[x]]]
     /\ partial' = [partial EXCEPT ![ip] =
                      [x \in DOMAIN @ |-> IF x > off[s.f] /\ x <= o THEN {} ELSE @[x]]]
     /\ EndOp(p)
     /\ lock' = [lock EXCEPT ![ip] = Nil]
     /\ logged' = [logged EXCEPT ![p] = {}]
     /\ st' = [st EXCEPT ![p] = IF s.tot = s.n1 /\ i < s.n
                                  THEN [s EXCEPT !.pc = "chunk", !.i = i, !.n1 = 0, !.tot = 0] ELSE Idle]
     /\ UNCHANGED <<bitmap, data, ind, addrs, calls, panicked>>

(* fileread() for an inode: n is an int, taken as uint by readi().  The     *)
(* offset moves by the bytes read unless copyout() fails.                   *)
ReadLen(f, n) ==
  LET ip == IpOf[f]
      end == Uint(off[f] + Uint(n))
  IN IF off[f] > size[ip] \/ end < off[f] THEN 0
     ELSE IF end > size[ip] THEN size[ip] - off[f] ELSE Uint(n)
ReadFile(p, f, n) ==
  /\ st[p].pc = "idle" /\ calls > 0
  /\ lock[IpOf[f]] = Nil
  /\ off' = [off EXCEPT ![f] = @ + ReadLen(f, n)]
  /\ calls' = calls - 1
  /\ UNCHANGED <<bitmap, cache, ind, addrs, size, lock, st, logged, hist, panicked>>
ReadFails(p, f, n) == \* copyout() fails
  /\ st[p].pc = "idle" /\ calls > 0
  /\ lock[IpOf[f]] = Nil /\ ReadLen(f, n) > 0
  /\ calls' = calls - 1
  /\ UNCHANGED <<bitmap, cache, ind, addrs, size, lock, off, st, logged, hist, panicked>>

(* itrunc(), called by sys_open() with O_TRUNC and by iput().               *)
DirectOf(ip) == {addrs[ip][k] : k \in 0 .. NDIRECT} \ {0}
IndirectOf(ip) ==
  IF addrs[ip][NDIRECT] = 0 THEN {}
  ELSE {ind[addrs[ip][NDIRECT]][k] : k \in 0 .. NINDIRECT - 1} \ {0}
Owns(ip) == DirectOf(ip) \cup IndirectOf(ip)
Itrunc(p, ip) ==
  /\ st[p].pc = "idle" /\ calls > 0
  /\ lock[ip] = Nil
  /\ panicked' = (panicked \/ ~(Owns(ip) \subseteq bitmap))
  /\ bitmap' = bitmap \ Owns(ip)
  /\ addrs' = [addrs EXCEPT ![ip] = [k \in 0 .. NDIRECT |-> 0]]
  /\ size' = [size EXCEPT ![ip] = 0]
  /\ text' = [text EXCEPT ![ip] = <<>>]
  /\ partial' = [partial EXCEPT ![ip] = [x \in DOMAIN @ |-> {}]]
  /\ EndOp(p)
  /\ calls' = calls - 1
  /\ UNCHANGED <<data, ind, lock, off, st, logged>>

Finished == calls = 0 /\ (\A p \in Procs : st[p].pc = "idle") /\ UNCHANGED vars

Next ==
  \/ \E p \in Procs :
       \/ \E f \in Files, n \in Sizes : Write(p, f, n) \/ ReadFile(p, f, n) \/ ReadFails(p, f, n)
       \/ WriteStart(p) \/ WriteBlock(p) \/ WriteEnd(p)
       \/ \E ip \in Inodes : Itrunc(p, ip)
  \/ \E b \in Blocks : Recycle(b)
  \/ Finished

Spec == Init /\ [][Next]_vars

-----------------------------------------------------------------------------
(* The byte at position x of a file, by way of its map.                     *)
ByteAt(ip, x) ==
  LET bn == x \div BSIZE
      b == IF bn < NDIRECT THEN addrs[ip][bn] ELSE ind[addrs[ip][NDIRECT]][bn - NDIRECT]
  IN data[b][x % BSIZE]

(* A file nobody has locked has the size that the writes have given it, and *)
(* readi() finds every byte that writei() has counted, whatever has been    *)
(* allocated and freed for other files and whichever buffers have been      *)
(* recycled meanwhile.  The one exception is a byte where a later copyin()  *)
(* stopped in the middle of its block: it may be the counted one or the     *)
(* other, and may change back when the buffer is recycled.                  *)
ContentsKept ==
  \A ip \in Inodes : lock[ip] = Nil =>
    /\ size[ip] = Len(text[ip])
    /\ \A x \in 1 .. size[ip] : ByteAt(ip, x - 1) \in {text[ip][x]} \cup partial[ip][x]

(* The same without the exception: writei() "returns the number of bytes    *)
(* successfully written", and a write that returns less has changed nothing *)
(* else.  False: a failed copyin() leaves bytes in the buffer.              *)
OnlyCountedBytes ==
  \A ip \in Inodes : lock[ip] = Nil =>
    \A x \in 1 .. size[ip] : ByteAt(ip, x - 1) = text[ip][x]

(* The bitmap marks exactly the blocks that are in use, and each has one    *)
(* owner: a write that fails half way leaks none and itrunc() frees none    *)
(* twice.                                                                   *)
BitmapExact ==
  /\ ~panicked
  /\ bitmap = Used \cup UNION {Owns(ip) : ip \in Inodes}
  /\ \A ip \in Inodes : Owns(ip) \cap Used = {} /\ (\A jp \in Inodes \ {ip} : Owns(ip) \cap Owns(jp) = {})

(* No transaction of filewrite() logs more blocks than begin_op() reserves, *)
(* the inode included, even if every block it allocates is in a part of the *)
(* bitmap of its own: what the comment in filewrite() counts.               *)
WriteFitsTransaction ==
  \A p \in Procs : Cardinality(logged[p] \cup {InodeBlock}) <= MAXOPBLOCKS
=============================================================================
