-------------------------------- MODULE Log --------------------------------
(***************************************************************************)
(* The write-ahead log of the file system (kernel/log.c) over the buffer   *)
(* cache and the disk: begin_op, log_write, end_op with its group commit,  *)
(* crashes at every disk write and recovery at boot.                       *)
(*                                                                         *)
(* A critical section of log.lock is one step; so is each synchronous      *)
(* bwrite().  A crash may leave the data block that is being written torn. *)
(* The header fills less than one disk sector and is written whole; the    *)
(* entries of block[] from n on, which nobody reads, are kept at Absent.   *)
(***************************************************************************)
EXTENDS Naturals, FiniteSets

CONSTANTS Op,            \* the processes that call file system operations
          Block,         \* home locations on the disk
          Data,          \* contents of a block
          Torn,          \* contents after a write that a crash cut short
          Absent,        \* "not in the buffer cache", "no buffer", "no block"
          OPBLOCKS,      \* blocks an operation writes, at most
          MAXOPBLOCKS,   \* param.h: what begin_op() reserves for it
          LOGSIZE,       \* param.h
          SIZE           \* log.size: blocks of the on-disk log, header included

ASSUME LogAssumption ==
  /\ IsFiniteSet(Op)
  /\ Torn \notin Data /\ Absent \notin Data /\ Absent # Torn /\ Absent \notin Block
  /\ MAXOPBLOCKS \in Nat \ {0}
  /\ LOGSIZE \in Nat /\ LOGSIZE >= MAXOPBLOCKS
  /\ SIZE \in Nat \ {0}

VARIABLES
  disk,        \* home blocks on the disk
  dlog,        \* data blocks of the on-disk log
  dn, dblock,  \* the on-disk header
  cache,       \* contents of the cached home blocks
  pinned,      \* blocks pinned by log_write()
  n, block,    \* log.lh
  outstanding, committing,
  cpc, tail,   \* where commit(), or recovery, is
  pc,          \* where a process is
  buf,         \* the buffer it has locked
  wrote,       \* the blocks its operation has written
  panicked     \* a CPU spins in panic() with log.lock held

diskVars == <<disk, dlog, dn, dblock>>
opVars   == <<pc, buf, wrote>>
vars     == <<diskVars, cache, pinned, n, block, outstanding, committing, cpc, tail,
              opVars, panicked>>

Slots  == 1..LOGSIZE   \* log.lh.block[]
DSlots == 1..(SIZE - 1)   \* data blocks of the on-disk log
NoBlocks == [i \in Slots |-> Absent]

-----------------------------------------------------------------------------
\* After the boot process has been through initlog().
Booted == cpc \notin {"read_head", "recover"}

\* bread(b)->data.
Bread(b) == IF cache[b] = Absent THEN disk[b] ELSE cache[b]

\* The blocks of the in-memory header.
Logged == {block[i] : i \in 1..n}

\* wakeup(&log).
WakeAll == [o \in Op |-> IF pc[o] = "asleep" THEN "idle" ELSE pc[o]]

Init ==
  /\ disk \in [Block -> Data]
  /\ dlog = [i \in DSlots |-> Torn]
  /\ dn = 0 /\ dblock = NoBlocks
  /\ cache = [b \in Block |-> Absent] /\ pinned = {}
  /\ n = 0 /\ block = NoBlocks
  /\ outstanding = 0 /\ committing = FALSE
  /\ cpc = "read_head" /\ tail = 1
  /\ pc = [o \in Op |-> "idle"]
  /\ buf = [o \in Op |-> Absent]
  /\ wrote = [o \in Op |-> {}]
  /\ panicked = FALSE

-----------------------------------------------------------------------------
(* File system operations.                                                 *)

\* One iteration of begin_op(): sleep on &log, or enter.
BeginOp(o) ==
  /\ pc[o] = "idle" /\ Booted /\ ~panicked
  /\ IF committing \/ n + (outstanding + 1) * MAXOPBLOCKS > LOGSIZE
     THEN pc' = [pc EXCEPT ![o] = "asleep"] /\ UNCHANGED <<outstanding, wrote>>
     ELSE /\ outstanding' = outstanding + 1
          /\ pc' = [pc EXCEPT ![o] = "op"]
          /\ wrote' = [wrote EXCEPT ![o] = {}]
  /\ UNCHANGED <<diskVars, cache, pinned, n, block, committing, cpc, tail, buf, panicked>>

\* bread(), and a change of the data.
Update(o, b, d) ==
  /\ pc[o] = "op" /\ \A p \in Op : buf[p] # b
  /\ Cardinality(wrote[o] \cup {b}) <= OPBLOCKS
  /\ cache' = [cache EXCEPT ![b] = d]
  /\ buf' = [buf EXCEPT ![o] = b]
  /\ wrote' = [wrote EXCEPT ![o] = @ \cup {b}]
  /\ pc' = [pc EXCEPT ![o] = "dirty"]
  /\ UNCHANGED <<diskVars, pinned, n, block, outstanding, committing, cpc, tail, panicked>>

\* Mutant of LogWrite: no bpin().
LogWriteUnpinned(o) ==
  /\ pc[o] = "dirty" /\ ~panicked /\ n < LOGSIZE /\ n < SIZE - 1
  /\ IF buf[o] \in Logged
     THEN UNCHANGED <<n, block>>
     ELSE block' = [block EXCEPT ![n + 1] = buf[o]] /\ n' = n + 1
  /\ pc' = [pc EXCEPT ![o] = "op"]
  /\ buf' = [buf EXCEPT ![o] = Absent]
  /\ UNCHANGED <<diskVars, cache, pinned, outstanding, committing, cpc, tail, wrote, panicked>>

\* log_write(), with absorption, and brelse().
LogWrite(o) ==
  /\ pc[o] = "dirty" /\ ~panicked
  /\ IF n >= LOGSIZE \/ n >= SIZE - 1 \/ outstanding < 1
     THEN panicked' = TRUE /\ UNCHANGED <<n, block, pinned, pc, buf>>
     ELSE /\ IF buf[o] \in Logged
             THEN UNCHANGED <<n, block, pinned>>
             ELSE /\ block' = [block EXCEPT ![n + 1] = buf[o]]
                  /\ n' = n + 1
                  /\ pinned' = pinned \cup {buf[o]}
          /\ pc' = [pc EXCEPT ![o] = "op"]
          /\ buf' = [buf EXCEPT ![o] = Absent]
          /\ UNCHANGED panicked
  /\ UNCHANGED <<diskVars, cache, outstanding, committing, cpc, tail, wrote>>

\* The first critical section of end_op(), and the test of commit().
EndOp(o) ==
  /\ pc[o] = "op" /\ ~panicked
  /\ outstanding' = outstanding - 1
  /\ IF committing
     THEN panicked' = TRUE /\ UNCHANGED <<committing, cpc, tail, pc>>
     ELSE /\ UNCHANGED panicked
          /\ IF outstanding = 1
             THEN /\ committing' = TRUE
                  /\ cpc' = IF n > 0 THEN "write_log" ELSE "done"
                  /\ tail' = 1
                  /\ pc' = [pc EXCEPT ![o] = "commit"]
             ELSE /\ pc' = [WakeAll EXCEPT ![o] = "idle"]
                  /\ UNCHANGED <<committing, cpc, tail>>
  /\ UNCHANGED <<diskVars, cache, pinned, n, block, buf, wrote>>

-----------------------------------------------------------------------------
(* commit(), by the process that ended the last operation, and recovery.   *)

\* One iteration of write_log().
WriteLog ==
  /\ cpc = "write_log" /\ tail <= n
  /\ dlog' = [dlog EXCEPT ![tail] = Bread(block[tail])]
  /\ cache' = [cache EXCEPT ![block[tail]] = Bread(block[tail])]
  /\ tail' = tail + 1
  /\ UNCHANGED <<disk, dn, dblock, pinned, n, block, outstanding, committing, cpc, opVars, panicked>>

\* Mutant of WriteHead: the header is written before the last log block.
WriteHeadEarly ==
  /\ cpc = "write_log" /\ tail >= n
  /\ dn' = n
  /\ dblock' = block
  /\ cpc' = "install" /\ tail' = 1
  /\ UNCHANGED <<disk, dlog, cache, pinned, n, block, outstanding, committing, opVars, panicked>>

\* write_head(): "the true point at which the current transaction commits".
WriteHead ==
  /\ cpc = "write_log" /\ tail > n
  /\ dn' = n
  /\ dblock' = block
  /\ cpc' = "install" /\ tail' = 1
  /\ UNCHANGED <<disk, dlog, cache, pinned, n, block, outstanding, committing, opVars, panicked>>

\* One iteration of install_trans(recovering).
InstallTrans(recovering) ==
  /\ cpc = (IF recovering THEN "recover" ELSE "install") /\ tail <= n
  /\ disk' = [disk EXCEPT ![block[tail]] = dlog[tail]]
  /\ cache' = [cache EXCEPT ![block[tail]] = dlog[tail]]
  /\ pinned' = IF recovering THEN pinned ELSE pinned \ {block[tail]}
  /\ tail' = tail + 1
  /\ UNCHANGED <<dlog, dn, dblock, n, block, outstanding, committing, cpc, opVars, panicked>>

\* Mutant of Erase: log.lh.n is reset, but write_head() is not called.
EraseInMemory ==
  /\ cpc \in {"install", "recover"} /\ tail > n
  /\ n' = 0 /\ block' = NoBlocks
  /\ cpc' = IF cpc = "install" THEN "done" ELSE "none"
  /\ UNCHANGED <<diskVars, cache, pinned, outstanding, committing, tail, opVars, panicked>>

\* log.lh.n = 0; write_head(): "erase the transaction from the log".
Erase ==
  /\ cpc \in {"install", "recover"} /\ tail > n
  /\ n' = 0 /\ block' = NoBlocks
  /\ dn' = 0 /\ dblock' = NoBlocks
  /\ cpc' = IF cpc = "install" THEN "done" ELSE "none"
  /\ UNCHANGED <<disk, dlog, cache, pinned, outstanding, committing, tail, opVars, panicked>>

\* Mutant of EndCommit: no wakeup(&log).
EndCommitSilent(o) ==
  /\ pc[o] = "commit" /\ cpc = "done"
  /\ committing' = FALSE
  /\ cpc' = "none"
  /\ pc' = [pc EXCEPT ![o] = "idle"]
  /\ UNCHANGED <<diskVars, cache, pinned, n, block, outstanding, tail, buf, wrote, panicked>>

\* The second critical section of end_op().
EndCommit(o) ==
  /\ pc[o] = "commit" /\ cpc = "done"
  /\ committing' = FALSE
  /\ cpc' = "none"
  /\ pc' = [WakeAll EXCEPT ![o] = "idle"]
  /\ UNCHANGED <<diskVars, cache, pinned, n, block, outstanding, tail, buf, wrote, panicked>>

\* read_head(), at boot.
ReadHead ==
  /\ cpc = "read_head"
  /\ n' = dn
  /\ block' = dblock
  /\ cpc' = "recover" /\ tail' = 1
  /\ UNCHANGED <<diskVars, cache, pinned, outstanding, committing, opVars, panicked>>

-----------------------------------------------------------------------------
(* The buffer cache and the disk.                                          *)

\* Some process reads a block that is not cached.
Read(b) ==
  /\ Booted /\ cache[b] = Absent
  /\ cache' = [cache EXCEPT ![b] = disk[b]]
  /\ UNCHANGED <<diskVars, pinned, n, block, outstanding, committing, cpc, tail, opVars, panicked>>

\* bget() recycles a buffer that nobody has locked or pinned.
Evict(b) ==
  /\ cache[b] # Absent /\ b \notin pinned /\ \A o \in Op : buf[o] # b
  /\ cache' = [cache EXCEPT ![b] = Absent]
  /\ UNCHANGED <<diskVars, pinned, n, block, outstanding, committing, cpc, tail, opVars, panicked>>

\* Power fails: memory is lost, and the data block being written may be torn.
Crash ==
  /\ \/ UNCHANGED <<disk, dlog>>
     \/ /\ cpc = "write_log" /\ tail <= n
        /\ dlog' = [dlog EXCEPT ![tail] = Torn]
        /\ UNCHANGED disk
     \/ /\ cpc \in {"install", "recover"} /\ tail <= n
        /\ disk' = [disk EXCEPT ![block[tail]] = Torn]
        /\ UNCHANGED dlog
  /\ UNCHANGED <<dn, dblock>>
  /\ cache' = [b \in Block |-> Absent] /\ pinned' = {}
  /\ n' = 0 /\ block' = NoBlocks
  /\ outstanding' = 0 /\ committing' = FALSE
  /\ cpc' = "read_head" /\ tail' = 1
  /\ pc' = [o \in Op |-> "idle"]
  /\ buf' = [o \in Op |-> Absent]
  /\ wrote' = [o \in Op |-> {}]
  /\ panicked' = FALSE

-----------------------------------------------------------------------------
Operation(o) ==
  \/ BeginOp(o) \/ LogWrite(o) \/ EndOp(o) \/ EndCommit(o)
  \/ \E b \in Block, d \in Data : Update(o, b, d)

Committer == WriteLog \/ WriteHead \/ InstallTrans(FALSE) \/ Erase

Recovery == ReadHead \/ InstallTrans(TRUE)

Next ==
  \/ \E o \in Op : Operation(o)
  \/ Committer \/ Recovery
  \/ \E b \in Block : Read(b) \/ Evict(b)
  \/ Crash

Spec == Init /\ [][Next]_vars

-----------------------------------------------------------------------------
(* Properties.                                                             *)

\* Type invariant: also, a torn block is never read into the cache.
TypeOK ==
  /\ disk \in [Block -> Data \cup {Torn}]
  /\ dlog \in [DSlots -> Data \cup {Torn}]
  /\ dn \in 0..LOGSIZE /\ n \in 0..LOGSIZE
  /\ dblock \in [Slots -> Block \cup {Absent}] /\ block \in [Slots -> Block \cup {Absent}]
  /\ cache \in [Block -> Data \cup {Absent}]
  /\ pinned \in SUBSET Block
  /\ outstanding \in Nat
  /\ committing \in BOOLEAN /\ panicked \in BOOLEAN
  /\ cpc \in {"none", "write_log", "install", "done", "read_head", "recover"}
  /\ tail \in 1..(LOGSIZE + 1)
  /\ pc \in [Op -> {"idle", "asleep", "op", "dirty", "commit"}]
  /\ buf \in [Op -> Block \cup {Absent}]
  /\ wrote \in [Op -> SUBSET Block]

\* What a crash now, and recovery after it, make of home block b.
Recovered(b) ==
  IF \E i \in 1..dn : dblock[i] = b THEN dlog[CHOOSE i \in 1..dn : dblock[i] = b] ELSE disk[b]

\* The abstract state: what the system reads, what a crash leaves, and who
\* is inside an operation.
Cur     == [b \in Block |-> IF Booted THEN Bread(b) ELSE Recovered(b)]
Stable  == [b \in Block |-> Recovered(b)]
Running == {o \in Op : pc[o] \in {"op", "dirty"}}

AD == INSTANCE AtomicDisk WITH cur <- Cur, stable <- Stable, active <- Running

\* Crash atomicity: with crashes anywhere, in recovery too, log, header and
\* home blocks together behave as a disk that takes a group's writes at once.
CrashAtomic == AD!ADSpec

\* When nobody is between begin_op() and the end of its commit, everything
\* end_op() returned for is on the disk, and the log is empty.
EndedIsDurable ==
  Booted /\ outstanding = 0 /\ ~committing =>
    n = 0 /\ dn = 0 /\ pinned = {} /\ \A b \in Block : disk[b] = Bread(b)

\* No process sleeps in begin_op() without somebody who will wake it: an
\* operation that will end, or a commit.
SleeperHasWaker ==
  (\E o \in Op : pc[o] = "asleep") => committing \/ Running # {}

\* The reservation of begin_op() is enough: log_write() never finds the
\* transaction too big, nor itself outside of one, and end_op() never finds
\* a commit going on.
NoPanic == ~panicked

-----------------------------------------------------------------------------
(* Liveness: every file system operation ends, and the disk answers.       *)

LiveSpec ==
  /\ Init /\ [][Next]_vars
  /\ \A o \in Op : SF_vars(EndOp(o)) /\ WF_vars(LogWrite(o)) /\ WF_vars(EndCommit(o))
  /\ WF_vars(Committer) /\ WF_vars(Recovery)

\* A process that sleeps in begin_op(), for want of log space or because of
\* a commit, is woken, though the operations of others go on for ever.
SleeperWoken == \A o \in Op : (pc[o] = "asleep") ~> (pc[o] # "asleep")

=============================================================================
