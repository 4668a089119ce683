-------------------------------- MODULE Pipe --------------------------------
(***************************************************************************)
(* A pipe (kernel/pipe.c) and the two entries of the file table that refer *)
(* to it (filedup and fileclose of kernel/file.c).  A step is one round of *)
(* a loop of pipewrite() or piperead(), which run with pi->lock held, or   *)
(* one critical section of another function.  sleep() and wakeup() are     *)
(* atomic here: module Proc shows why they may be.                         *)
(***************************************************************************)
EXTENDS Integers, Sequences, FiniteSets

CONSTANTS Readers, Writers,   \* processes that use the read and the write end
          Byte,
          PIPESIZE,
          UINT,       \* 2^32: nread and nwrite count modulo this
          MAXN,       \* bound on the n of read() and write()
          Killable,   \* processes that somebody may kill()
          None

ASSUME PipeAssumption ==
  /\ Readers \cap Writers = {} /\ None \notin Readers \cup Writers
  /\ IsFiniteSet(Readers \cup Writers) /\ Byte # {}
  /\ PIPESIZE \in Nat \ {0} /\ UINT \in Nat /\ PIPESIZE < UINT /\ UINT % PIPESIZE = 0
  /\ MAXN \in Nat

VARIABLES
  data, nread, nwrite, readopen, writeopen,   \* struct pipe
  lock,      \* pi->lock: the process that holds it
  freed,     \* kfree(pi) was called
  ref,       \* f->ref of the read and of the write end
  holds,     \* the process has a file descriptor for its end
  killed,
  pc, i, n,  \* locals of the system call a process is in
  abandoned  \* history: a writer that was killed left bytes behind, and no
             \* reader has been woken since

pipeVars == <<data, nread, nwrite, readopen, writeopen>>
fileVars == <<ref, holds>>
vars     == <<pipeVars, lock, freed, fileVars, killed, pc, i, n, abandoned>>

Proc == Readers \cup Writers
End(p) == IF p \in Readers THEN "read" ELSE "write"

Plus(x, y) == (x + y) % UINT

Empty == nread = nwrite

\* Mutant of Full: the sum does not wrap around.
FullNoWrap == nwrite = nread + PIPESIZE

Full  == nwrite = Plus(nread, PIPESIZE)

-----------------------------------------------------------------------------
\* pipealloc() succeeded, and fork() has spread the descriptors.
Init ==
  /\ data \in [0..(PIPESIZE - 1) -> {CHOOSE b \in Byte : TRUE}]
  /\ nread = 0 /\ nwrite = 0 /\ readopen = TRUE /\ writeopen = TRUE
  /\ lock = None /\ freed = FALSE
  /\ \E H \in SUBSET Proc :
       /\ H \cap Readers # {} /\ H \cap Writers # {}
       /\ holds = [p \in Proc |-> p \in H]
  /\ ref = [e \in {"read", "write"} |->
              Cardinality({p \in Proc : holds[p] /\ End(p) = e})]
  /\ killed = [p \in Proc |-> FALSE]
  /\ pc = [p \in Proc |-> "user"] /\ i = [p \in Proc |-> 0] /\ n = [p \in Proc |-> 0]
  /\ abandoned = FALSE

\* wakeup(&pi->nread) and wakeup(&pi->nwrite), while p moves to label l.
\* Who is woken goes on to reacquire pi->lock at the end of sleep().
WakeReaders(p, l) ==
  /\ pc' = [q \in Proc |-> IF q = p THEN l ELSE IF pc[q] = "r_asleep" THEN "r_lock" ELSE pc[q]]
  /\ abandoned' = FALSE

WakeWriters(p, l) ==
  /\ pc' = [q \in Proc |-> IF q = p THEN l ELSE IF pc[q] = "w_asleep" THEN "w_lock" ELSE pc[q]]
  /\ UNCHANGED abandoned

Goto(p, l) == pc' = [pc EXCEPT ![p] = l]

Release == lock' = None

\* The system call of p returns.
Return(p) ==
  /\ i' = [i EXCEPT ![p] = 0]
  /\ n' = [n EXCEPT ![p] = 0]

-----------------------------------------------------------------------------
(* pipewrite().                                                            *)

Call(p) ==
  /\ pc[p] = "user" /\ holds[p] /\ ~killed[p]
  /\ \E k \in 0..MAXN : n' = [n EXCEPT ![p] = k]
  /\ Goto(p, IF p \in Readers THEN "r_lock" ELSE "w_lock")
  /\ UNCHANGED <<pipeVars, lock, freed, fileVars, killed, i, abandoned>>

Acquire(p) ==
  /\ pc[p] \in {"r_lock", "w_lock"} /\ lock = None
  /\ lock' = p
  /\ Goto(p, IF p \in Readers THEN "r_wait" ELSE "w_loop")
  /\ UNCHANGED <<pipeVars, freed, fileVars, killed, i, n, abandoned>>

\* The reader is gone, or the writer was killed: -1, and no wakeup, whatever
\* the writer has put into the pipe before.
WriteFail(p) ==
  /\ pc[p] = "w_loop" /\ i[p] < n[p]
  /\ ~readopen \/ killed[p]
  /\ Goto(p, "user") /\ Release /\ Return(p)
  /\ abandoned' = (abandoned \/ (killed[p] /\ i[p] > 0))
  /\ UNCHANGED <<pipeVars, freed, fileVars, killed>>

\* The pipe is full: wakeup(&pi->nread), and on to sleep().
WriteFull(p) ==
  /\ pc[p] = "w_loop" /\ i[p] < n[p] /\ readopen /\ ~killed[p]
  /\ Full
  /\ WakeReaders(p, "w_sleep")
  /\ UNCHANGED <<pipeVars, lock, freed, fileVars, killed, i, n>>

\* One byte, unless copyin() fails.
WriteByte(p) ==
  /\ pc[p] = "w_loop" /\ i[p] < n[p] /\ readopen /\ ~killed[p]
  /\ ~Full
  /\ \E b \in Byte : data' = [data EXCEPT ![nwrite % PIPESIZE] = b]
  /\ nwrite' = Plus(nwrite, 1)
  /\ i' = [i EXCEPT ![p] = @ + 1]
  /\ UNCHANGED <<nread, readopen, writeopen, lock, freed, fileVars, killed, pc, n, abandoned>>

\* Mutant of WriteDone: no wakeup(&pi->nread).
WriteDoneSilent(p) ==
  /\ pc[p] = "w_loop"
  /\ i[p] = n[p] \/ (readopen /\ ~killed[p] /\ ~Full)
  /\ Goto(p, "user") /\ Release /\ Return(p)
  /\ UNCHANGED <<pipeVars, freed, fileVars, killed, abandoned>>

\* All bytes are in, or copyin() failed: wakeup(&pi->nread) and return.
WriteDone(p) ==
  /\ pc[p] = "w_loop"
  /\ i[p] = n[p] \/ (readopen /\ ~killed[p] /\ ~Full)
  /\ WakeReaders(p, "user") /\ Release /\ Return(p)
  /\ UNCHANGED <<pipeVars, freed, fileVars, killed>>

\* sleep(&pi->nwrite, &pi->lock) and sleep(&pi->nread, &pi->lock).
Sleep(p) ==
  /\ pc[p] \in {"w_sleep", "r_sleep"}
  /\ Goto(p, IF p \in Readers THEN "r_asleep" ELSE "w_asleep") /\ Release
  /\ UNCHANGED <<pipeVars, freed, fileVars, killed, i, n, abandoned>>

-----------------------------------------------------------------------------
(* piperead().                                                             *)

\* The loop that waits for data, or for the last writer to close.
ReadWait(p) ==
  /\ pc[p] = "r_wait"
  /\ \/ /\ Empty /\ writeopen /\ killed[p]
        /\ Goto(p, "user") /\ Release /\ Return(p)
     \/ /\ Empty /\ writeopen /\ ~killed[p]
        /\ Goto(p, "r_sleep") /\ UNCHANGED <<lock, i, n>>
     \/ /\ ~(Empty /\ writeopen)
        /\ Goto(p, "r_loop") /\ UNCHANGED <<lock, i, n>>
  /\ UNCHANGED <<pipeVars, freed, fileVars, killed, abandoned>>

\* One byte.
ReadByte(p) ==
  /\ pc[p] = "r_loop" /\ i[p] < n[p] /\ ~Empty
  /\ nread' = Plus(nread, 1)
  /\ i' = [i EXCEPT ![p] = @ + 1]
  /\ UNCHANGED <<data, nwrite, readopen, writeopen, lock, freed, fileVars, killed, pc, n, abandoned>>

\* One byte that copyout() fails to deliver: it is lost; the loop ends.
ReadFault(p) ==
  /\ pc[p] = "r_loop" /\ i[p] < n[p] /\ ~Empty
  /\ nread' = Plus(nread, 1)
  /\ WakeWriters(p, "user") /\ Release /\ Return(p)
  /\ UNCHANGED <<data, nwrite, readopen, writeopen, freed, fileVars, killed>>

\* Enough, or nothing more: wakeup(&pi->nwrite) and return.
ReadDone(p) ==
  /\ pc[p] = "r_loop" /\ (i[p] = n[p] \/ Empty)
  /\ WakeWriters(p, "user") /\ Release /\ Return(p)
  /\ UNCHANGED <<pipeVars, freed, fileVars, killed>>

-----------------------------------------------------------------------------
(* File descriptors, pipeclose() and kill().                               *)

\* fork() or dup() in p gives q a descriptor: filedup().
FileDup(p, q) ==
  /\ pc[p] = "user" /\ holds[p] /\ ~killed[p]
  /\ pc[q] = "user" /\ ~holds[q] /\ End(p) = End(q)
  /\ ref' = [ref EXCEPT ![End(p)] = @ + 1]
  /\ holds' = [holds EXCEPT ![q] = TRUE]
  /\ UNCHANGED <<pipeVars, lock, freed, killed, pc, i, n, abandoned>>

\* Mutant of FileClose: pipeclose() is called for every descriptor.
FileCloseAlways(p) ==
  /\ pc[p] = "user" /\ holds[p]
  /\ ref' = [ref EXCEPT ![End(p)] = @ - 1]
  /\ holds' = [holds EXCEPT ![p] = FALSE]
  /\ Goto(p, "close")
  /\ UNCHANGED <<pipeVars, lock, freed, killed, i, n, abandoned>>

\* fileclose(): the last descriptor goes on to pipeclose().
FileClose(p) ==
  /\ pc[p] = "user" /\ holds[p]
  /\ ref' = [ref EXCEPT ![End(p)] = @ - 1]
  /\ holds' = [holds EXCEPT ![p] = FALSE]
  /\ Goto(p, IF ref[End(p)] = 1 THEN "close" ELSE "user")
  /\ UNCHANGED <<pipeVars, lock, freed, killed, i, n, abandoned>>

\* Mutant of PipeClose: closing the write end does not wake the readers.
PipeCloseSilent(p) ==
  /\ pc[p] = "close" /\ lock = None
  /\ IF p \in Writers THEN writeopen' = FALSE /\ UNCHANGED readopen
                      ELSE readopen' = FALSE /\ UNCHANGED writeopen
  /\ Goto(p, IF readopen' \/ writeopen' THEN "user" ELSE "kfree")
  /\ UNCHANGED <<data, nread, nwrite, lock, freed, fileVars, killed, i, n, abandoned>>

\* pipeclose(pi, writable).
PipeClose(p) ==
  /\ pc[p] = "close" /\ lock = None
  /\ \/ /\ p \in Writers
        /\ writeopen' = FALSE
        /\ WakeReaders(p, IF readopen THEN "user" ELSE "kfree")
        /\ UNCHANGED readopen
     \/ /\ p \in Readers
        /\ readopen' = FALSE
        /\ WakeWriters(p, IF writeopen THEN "user" ELSE "kfree")
        /\ UNCHANGED writeopen
  /\ UNCHANGED <<data, nread, nwrite, lock, freed, fileVars, killed, i, n>>

\* kfree(pi), after release(&pi->lock).
KFree(p) ==
  /\ pc[p] = "kfree"
  /\ freed' = TRUE
  /\ Goto(p, "user")
  /\ UNCHANGED <<pipeVars, lock, fileVars, killed, i, n, abandoned>>

\* kill(): a sleeper is made RUNNABLE.
Kill(p) ==
  /\ p \in Killable /\ ~killed[p]
  /\ killed' = [killed EXCEPT ![p] = TRUE]
  /\ pc' = [pc EXCEPT ![p] = IF @ = "r_asleep" THEN "r_lock"
                             ELSE IF @ = "w_asleep" THEN "w_lock" ELSE @]
  /\ UNCHANGED <<pipeVars, lock, freed, fileVars, i, n, abandoned>>

-----------------------------------------------------------------------------
\* What a process does once it is inside a system call.
Advance(p) ==
  \/ Acquire(p) \/ Sleep(p)
  \/ WriteFail(p) \/ WriteFull(p) \/ WriteByte(p) \/ WriteDone(p)
  \/ ReadWait(p) \/ ReadByte(p) \/ ReadFault(p) \/ ReadDone(p)
  \/ PipeClose(p) \/ KFree(p)

Next ==
  \E p \in Proc : \/ Advance(p) \/ Call(p) \/ FileClose(p) \/ Kill(p)
                  \/ \E q \in Proc : FileDup(p, q)

\* Everyone inside a call goes on, and gets a lock that is free again and
\* again.
Spec == Init /\ [][Next]_vars /\ \A p \in Proc : SF_vars(Advance(p))

-----------------------------------------------------------------------------
(* Properties.                                                             *)

\* The bytes inside, oldest first.
Queue == [k \in 1..((nwrite - nread) % UINT) |-> data[Plus(nread, k - 1) % PIPESIZE]]

Ch == INSTANCE Channel WITH queue <- Queue, readable <- readopen, writable <- writeopen

\* The ring buffer, whose counters wrap around, is a bounded FIFO channel:
\* no byte is overwritten, duplicated or reordered, however many processes
\* read and write.
IsChannel == Ch!ChSpec

\* pipeclose() frees the page once, and not while anybody uses the pipe.
InPipe(p) == pc[p] # "user" \/ holds[p]

FreedOnce ==
  /\ freed => \A p \in Proc : ~InPipe(p)
  /\ \A p, q \in Proc : pc[p] = "kfree" /\ InPipe(q) => p = q

\* "pipe-empty" and "pipewrite-full": while nobody is changing the pipe, a
\* reader sleeps only if somebody can still write and the pipe is empty, a
\* writer only if it is full and somebody can still read.  There is one
\* exception: bytes of a writer that was killed between two of them, which
\* pipewrite() leaves without the wakeup().
NobodyStranded ==
  lock = None => /\ \A p \in Readers : pc[p] = "r_asleep" => writeopen /\ (Empty \/ abandoned)
                 /\ \A p \in Writers : pc[p] = "w_asleep" => Full /\ readopen

\* What the "pipe-empty" loop of piperead() is for, without the exception: a
\* reader sleeps only while there is nothing to read.  False when a writer
\* can be killed.
SleepsOnlyWhenEmpty == lock = None => \A p \in Readers : pc[p] = "r_asleep" => Empty

\* A read() on a pipe that holds data or has no writer left comes back,
\* unless another reader takes the data, or a killed writer has abandoned
\* them.
ReadReturns ==
  \A p \in Readers :
    (pc[p] # "user" /\ (~Empty \/ ~writeopen)) ~> (pc[p] = "user" \/ (Empty /\ writeopen) \/ abandoned)

=============================================================================
