-------------------------------- MODULE Proc --------------------------------
(***************************************************************************)
(* The process table of the kernel (kernel/proc.c, with the callers of it  *)
(* in kernel/trap.c): fork, exit, wait, kill, sleep, wakeup, yield, the    *)
(* per-CPU scheduler threads and the hand-over of p->lock across swtch().  *)
(*                                                                         *)
(* A step is one critical section, or less: two statements are in one      *)
(* step only when every other access to what they touch needs a lock that  *)
(* is held across both.  Locks that are held over more than one step are   *)
(* variables.  Which RUNNABLE process the compiled-in policy prefers is    *)
(* the subject of module Cfs; here a scheduler may pass over any process.  *)
(***************************************************************************)
EXTENDS Naturals

CONSTANTS NPROC,      \* number of slots of proc[] (param.h)
          CPU,        \* the harts that run scheduler()
          NoCpu,      \* "no CPU holds this spinlock"
          MAXPID,     \* bound on nextpid: past it allocproc() fails
          KillPids,   \* the pids user programs pass to kill()
          Unruly      \* the slots whose programs call kill() or fault

ASSUME ProcAssumption ==
  /\ NPROC \in Nat \ {0}
  /\ NoCpu \notin CPU
  /\ MAXPID \in Nat
  /\ KillPids \subseteq Nat
  /\ Unruly \subseteq Nat

VARIABLES
  state, chan, killed, pid, parent,   \* fields of struct proc, by slot
  lock,       \* p->lock: the CPU that holds it
  wait_lock,  \* the CPU that holds wait_lock
  nextpid,
  cproc,      \* c->proc, by CPU
  cpc,        \* where the scheduler thread of a CPU is
  pc,         \* where the kernel thread of a process is
  ret,        \* where yield() returns to
  idx,        \* the loop variable (or np) of the call a thread is in
  widx,       \* the loop variable of wakeup()
  havekids,   \* the local of wait()
  target      \* the argument of kill()

procVars == <<state, chan, killed, pid, parent>>
cpuVars  == <<cproc, cpc>>
locals   == <<ret, idx, widx, havekids, target>>
vars     == <<procVars, lock, wait_lock, nextpid, cpuVars, pc, locals>>

Slot     == 1..NPROC
Index    == 1..(NPROC + 1)   \* a loop variable over proc[], or its end
Null     == 0
initproc == 1
Files    == NPROC + 1        \* any channel of the file system and the pipes
ProcState == {"UNUSED", "USED", "SLEEPING", "RUNNABLE", "RUNNING", "ZOMBIE"}

Labels == {"user", "ret", "resume", "awake", "dead",
           "fork", "fork_copy", "fork_parent", "fork_run",
           "exit", "reparent", "wake_init", "wake_parent", "zombie", "exit_unlock",
           "wait", "wait_scan", "wait_killed", "sleep", "sleep_unlock", "sleep_set",
           "wait_relock", "kill", "sched_yield", "sched_sleep", "sched_exit"}

\* Where a kernel thread holds no spinlock, so that interrupts are on.
Preemptible == {"user", "ret", "fork", "fork_parent", "fork_run", "exit",
                "wait", "wait_relock", "kill"}

-----------------------------------------------------------------------------
\* CPU c executes the kernel thread (or the user program) of process p.
On(c, p) == cpc[c] = "run" /\ cproc[c] = p

\* The thread of p executes on c and is about to take the step at label l.
At(c, p, l) == On(c, p) /\ pc[p] = l

Goto(p, l) == pc' = [pc EXCEPT ![p] = l]

IsFree(l) == l = NoCpu

\* panic(): this CPU spins for ever, with the locks it holds.
Panic(c) == cpc' = [cpc EXCEPT ![c] = "halted"]

Init ==
  /\ state  = [p \in Slot |-> IF p = initproc THEN "RUNNABLE" ELSE "UNUSED"]
  /\ chan   = [p \in Slot |-> Null]
  /\ killed = [p \in Slot |-> FALSE]
  /\ pid    = [p \in Slot |-> IF p = initproc THEN 1 ELSE 0]
  /\ parent = [p \in Slot |-> Null]
  /\ lock   = [p \in Slot |-> NoCpu]
  /\ wait_lock = NoCpu
  /\ nextpid = 2
  /\ cproc = [c \in CPU |-> Null]
  /\ cpc   = [c \in CPU |-> "scan"]
  /\ pc    = [p \in Slot |-> "resume"]
  /\ ret   = [p \in Slot |-> "user"]
  /\ idx   = [p \in Slot |-> 1]
  /\ widx  = [p \in Slot |-> 1]
  /\ havekids = [p \in Slot |-> FALSE]
  /\ target = [p \in Slot |-> 0]

-----------------------------------------------------------------------------
(* The scheduler thread of CPU c.  The iterations of its loop that pass    *)
(* over a slot change nothing and are stuttering steps.                    *)

\* acquire(&p->lock); the policy runs p: RUNNING, c->proc = p, swtch().
SchedPick(c, p) ==
  /\ cpc[c] = "scan" /\ IsFree(lock[p])
  /\ state[p] = "RUNNABLE"
  /\ state' = [state EXCEPT ![p] = "RUNNING"]
  /\ lock'  = [lock EXCEPT ![p] = c]
  /\ cproc' = [cproc EXCEPT ![c] = p]
  /\ cpc'   = [cpc EXCEPT ![c] = "run"]
  /\ UNCHANGED <<chan, killed, pid, parent, wait_lock, nextpid, pc, locals>>

\* swtch() came back: c->proc = 0, release(&p->lock), on with the loop.
SchedBack(c, p) ==
  /\ cpc[c] = "back" /\ cproc[c] = p
  /\ cproc' = [cproc EXCEPT ![c] = Null]
  /\ lock'  = [lock EXCEPT ![p] = NoCpu]
  /\ cpc'   = [cpc EXCEPT ![c] = "scan"]
  /\ UNCHANGED <<procVars, wait_lock, nextpid, pc, locals>>

\* sched() panics unless exactly p->lock is held and the state has changed.
SchedOK(c, p) ==
  /\ lock[p] = c
  /\ wait_lock # c /\ \A q \in Slot \ {p} : lock[q] # c
  /\ state[p] # "RUNNING"

\* sched(), called at label l, continues at label l2 when p runs again.
Sched(c, p, l, l2) ==
  /\ At(c, p, l)
  /\ IF SchedOK(c, p)
     THEN /\ cpc' = [cpc EXCEPT ![c] = "back"]
          /\ Goto(p, l2)
     ELSE Panic(c) /\ UNCHANGED pc
  /\ UNCHANGED <<procVars, lock, wait_lock, nextpid, cproc, locals>>

\* Mutant of Timer: yield() without acquire(&p->lock).
TimerUnlocked(c, p) ==
  /\ On(c, p) /\ pc[p] \in Preemptible
  /\ state' = [state EXCEPT ![p] = "RUNNABLE"]
  /\ ret'   = [ret EXCEPT ![p] = pc[p]]
  /\ Goto(p, "sched_yield")
  /\ UNCHANGED <<chan, killed, pid, parent, lock, wait_lock, nextpid, cpuVars,
                 idx, widx, havekids, target>>

\* A timer interrupt; usertrap() checks killed first, kerneltrap() does not.
\* yield(): acquire(&p->lock), RUNNABLE, and on to sched().
Timer(c, p) ==
  /\ On(c, p) /\ pc[p] \in Preemptible
  /\ IsFree(lock[p])
  /\ \/ /\ pc[p] = "user" /\ killed[p]
        /\ Goto(p, "exit")
        /\ UNCHANGED <<state, lock, ret>>
     \/ /\ ~(pc[p] = "user" /\ killed[p])
        /\ state' = [state EXCEPT ![p] = "RUNNABLE"]
        /\ lock'  = [lock EXCEPT ![p] = c]
        /\ ret'   = [ret EXCEPT ![p] = pc[p]]
        /\ Goto(p, "sched_yield")
  /\ UNCHANGED <<chan, killed, pid, parent, wait_lock, nextpid, cpuVars,
                 idx, widx, havekids, target>>

\* The end of yield(), and forkret(): release the lock scheduler() took.
Resume(c, p) ==
  /\ At(c, p, "resume")
  /\ lock' = [lock EXCEPT ![p] = NoCpu]
  /\ Goto(p, ret[p])
  /\ ret' = [ret EXCEPT ![p] = "user"]
  /\ UNCHANGED <<procVars, wait_lock, nextpid, cpuVars, idx, widx, havekids, target>>

-----------------------------------------------------------------------------
(* System call entry and return (usertrap).                                *)

\* ecall: a killed process exits, another one enters the call it asks for.
\* init (user/init.c) only forks and waits.
Syscall(c, p) ==
  /\ At(c, p, "user") /\ IsFree(lock[p])
  /\ IF killed[p]
     THEN Goto(p, "exit") /\ UNCHANGED <<idx, target>>
     ELSE \/ /\ Goto(p, "fork")
             /\ idx' = [idx EXCEPT ![p] = 1]
             /\ UNCHANGED target
          \/ /\ Goto(p, "wait")
             /\ UNCHANGED <<idx, target>>
          \/ /\ p # initproc
             /\ Goto(p, "exit")
             /\ UNCHANGED <<idx, target>>
          \/ /\ p \in Unruly /\ p # initproc
             /\ \E k \in KillPids : target' = [target EXCEPT ![p] = k]
             /\ Goto(p, "kill")
             /\ idx' = [idx EXCEPT ![p] = 1]
  /\ UNCHANGED <<procVars, lock, wait_lock, nextpid, cpuVars, ret, widx, havekids>>

\* After syscall(): killed(p) is checked once more.
SyscallRet(c, p) ==
  /\ At(c, p, "ret") /\ IsFree(lock[p])
  /\ Goto(p, IF killed[p] THEN "exit" ELSE "user")
  /\ idx' = [idx EXCEPT ![p] = 1]
  /\ target' = [target EXCEPT ![p] = 0]
  /\ UNCHANGED <<procVars, lock, wait_lock, nextpid, cpuVars, ret, widx, havekids>>

-----------------------------------------------------------------------------
(* fork() and allocproc().                                                 *)

\* One iteration of allocproc()'s search.  A slot that is found stays locked.
AllocProc(c, p) ==
  /\ At(c, p, "fork")
  /\ \/ /\ idx[p] > NPROC
        /\ Goto(p, "ret")
        /\ UNCHANGED <<state, pid, lock, nextpid, idx>>
     \/ /\ idx[p] \in Slot /\ IsFree(lock[idx[p]])
        /\ state[idx[p]] # "UNUSED"
        /\ idx' = [idx EXCEPT ![p] = @ + 1]
        /\ UNCHANGED <<state, pid, lock, nextpid, pc>>
     \/ /\ idx[p] \in Slot /\ IsFree(lock[idx[p]])
        /\ state[idx[p]] = "UNUSED"
        /\ IF nextpid > MAXPID
           THEN Goto(p, "ret") /\ UNCHANGED <<state, pid, lock, nextpid>>
           ELSE /\ pid' = [pid EXCEPT ![idx[p]] = nextpid]
                /\ nextpid' = nextpid + 1
                /\ state' = [state EXCEPT ![idx[p]] = "USED"]
                /\ lock' = [lock EXCEPT ![idx[p]] = c]
                /\ Goto(p, "fork_copy")
        /\ UNCHANGED idx
  /\ UNCHANGED <<chan, killed, parent, wait_lock, cpuVars, ret, widx, havekids, target>>

\* What freeproc() leaves of slot q.
FreeProc(q) ==
  /\ state'  = [state EXCEPT ![q] = "UNUSED"]
  /\ chan'   = [chan EXCEPT ![q] = Null]
  /\ killed' = [killed EXCEPT ![q] = FALSE]
  /\ pid'    = [pid EXCEPT ![q] = 0]
  /\ parent' = [parent EXCEPT ![q] = Null]

\* A page could not be allocated: freeproc(np), release(&np->lock), -1.
ForkFail(c, p) ==
  /\ At(c, p, "fork_copy")
  /\ FreeProc(idx[p])
  /\ lock' = [lock EXCEPT ![idx[p]] = NoCpu]
  /\ Goto(p, "ret")
  /\ UNCHANGED <<wait_lock, nextpid, cpuVars, locals>>

\* Mutant of ForkCopy: np->lock is kept until the child is RUNNABLE.
ForkCopyLocked(c, p) ==
  /\ At(c, p, "fork_copy")
  /\ pc'  = [pc EXCEPT ![p] = "fork_parent", ![idx[p]] = "resume"]
  /\ ret' = [ret EXCEPT ![idx[p]] = "user"]
  /\ UNCHANGED <<procVars, lock, wait_lock, nextpid, cpuVars, idx, widx, havekids, target>>

\* The child is set up to start in forkret(); release(&np->lock).
ForkCopy(c, p) ==
  /\ At(c, p, "fork_copy")
  /\ lock' = [lock EXCEPT ![idx[p]] = NoCpu]
  /\ pc'  = [pc EXCEPT ![p] = "fork_parent", ![idx[p]] = "resume"]
  /\ ret' = [ret EXCEPT ![idx[p]] = "user"]
  /\ UNCHANGED <<procVars, wait_lock, nextpid, cpuVars, idx, widx, havekids, target>>

\* acquire(&wait_lock); np->parent = p; release(&wait_lock).
ForkParent(c, p) ==
  /\ At(c, p, "fork_parent") /\ IsFree(wait_lock)
  /\ parent' = [parent EXCEPT ![idx[p]] = p]
  /\ Goto(p, "fork_run")
  /\ UNCHANGED <<state, chan, killed, pid, lock, wait_lock, nextpid, cpuVars, locals>>

\* acquire(&np->lock); np->state = RUNNABLE; release(&np->lock).
ForkRun(c, p) ==
  /\ At(c, p, "fork_run") /\ IsFree(lock[idx[p]])
  /\ state' = [state EXCEPT ![idx[p]] = "RUNNABLE"]
  /\ Goto(p, "ret")
  /\ UNCHANGED <<chan, killed, pid, parent, lock, wait_lock, nextpid, cpuVars, locals>>

-----------------------------------------------------------------------------
(* wakeup(), as exit() and reparent() call it.                             *)

\* One iteration, at label l, of wakeup(ch); the caller goes on with done.
Wakeup(c, p, l, ch, done) ==
  /\ At(c, p, l)
  /\ \/ /\ widx[p] > NPROC
        /\ widx' = [widx EXCEPT ![p] = 1]
        /\ done
        /\ UNCHANGED state
     \/ /\ widx[p] \in Slot
        /\ widx[p] # p => IsFree(lock[widx[p]])
        /\ widx' = [widx EXCEPT ![p] = @ + 1]
        /\ state' = [state EXCEPT ![widx[p]] =
                       IF widx[p] # p /\ @ = "SLEEPING" /\ chan[widx[p]] = ch
                       THEN "RUNNABLE" ELSE @]
        /\ UNCHANGED <<pc, idx>>
  /\ UNCHANGED <<chan, killed, pid, parent, lock, wait_lock, nextpid, cpuVars,
                 ret, havekids, target>>

-----------------------------------------------------------------------------
(* exit() and reparent().                                                  *)

\* init must not exit.  Another process closes its files, and once that is
\* done: acquire(&wait_lock).
Exit(c, p) ==
  /\ At(c, p, "exit")
  /\ \/ p = initproc /\ Panic(c) /\ UNCHANGED <<wait_lock, pc, idx>>
     \/ /\ p # initproc /\ IsFree(wait_lock)
        /\ wait_lock' = c
        /\ idx' = [idx EXCEPT ![p] = 1]
        /\ Goto(p, "reparent")
        /\ UNCHANGED cpc
  /\ UNCHANGED <<procVars, lock, nextpid, cproc, ret, widx, havekids, target>>

\* fileclose(), begin_op(), iput() and end_op() in exit() may sleep() on
\* channels of their own, any number of times: acquire(&p->lock), SLEEPING,
\* sched().
CloseSleep(c, p) ==
  /\ At(c, p, "exit") /\ p # initproc /\ IsFree(lock[p])
  /\ lock' = [lock EXCEPT ![p] = c]
  /\ chan' = [chan EXCEPT ![p] = Files]
  /\ state' = [state EXCEPT ![p] = "SLEEPING"]
  /\ Goto(p, "sched_sleep")
  /\ UNCHANGED <<killed, pid, parent, wait_lock, nextpid, cpuVars, locals>>

\* The wakeup() on that channel, by another process or a device interrupt.
CloseWakeup(p) ==
  /\ IsFree(lock[p]) /\ state[p] = "SLEEPING" /\ chan[p] = Files
  /\ state' = [state EXCEPT ![p] = "RUNNABLE"]
  /\ UNCHANGED <<chan, killed, pid, parent, lock, wait_lock, nextpid, cpuVars, pc, locals>>

\* Mutant of Reparent: the loop stops short of the last slot.
ReparentShort(c, p) ==
  /\ At(c, p, "reparent")
  /\ \/ /\ idx[p] >= NPROC
        /\ Goto(p, "wake_parent")
        /\ idx' = [idx EXCEPT ![p] = 1]
        /\ UNCHANGED parent
     \/ /\ idx[p] < NPROC /\ parent[idx[p]] # p
        /\ idx' = [idx EXCEPT ![p] = @ + 1]
        /\ UNCHANGED <<pc, parent>>
     \/ /\ idx[p] < NPROC /\ parent[idx[p]] = p
        /\ parent' = [parent EXCEPT ![idx[p]] = initproc]
        /\ Goto(p, "wake_init")
        /\ UNCHANGED idx
  /\ UNCHANGED <<state, chan, killed, pid, lock, wait_lock, nextpid, cpuVars,
                 ret, widx, havekids, target>>

\* One iteration of reparent(p): a child of p becomes a child of init.
Reparent(c, p) ==
  /\ At(c, p, "reparent")
  /\ \/ /\ idx[p] > NPROC
        /\ Goto(p, "wake_parent")
        /\ idx' = [idx EXCEPT ![p] = 1]
        /\ UNCHANGED parent
     \/ /\ idx[p] \in Slot /\ parent[idx[p]] # p
        /\ idx' = [idx EXCEPT ![p] = @ + 1]
        /\ UNCHANGED <<pc, parent>>
     \/ /\ idx[p] \in Slot /\ parent[idx[p]] = p
        /\ parent' = [parent EXCEPT ![idx[p]] = initproc]
        /\ Goto(p, "wake_init")
        /\ UNCHANGED idx
  /\ UNCHANGED <<state, chan, killed, pid, lock, wait_lock, nextpid, cpuVars,
                 ret, widx, havekids, target>>

\* wakeup(initproc) of reparent(), which then looks at the next slot.
WakeInit(c, p) ==
  Wakeup(c, p, "wake_init", initproc,
         Goto(p, "reparent") /\ idx' = [idx EXCEPT ![p] = @ + 1])

\* wakeup(p->parent) of exit().
WakeParent(c, p) ==
  Wakeup(c, p, "wake_parent", parent[p], Goto(p, "zombie") /\ UNCHANGED idx)

\* acquire(&p->lock); p->state = ZOMBIE.
Zombie(c, p) ==
  /\ At(c, p, "zombie") /\ IsFree(lock[p])
  /\ lock' = [lock EXCEPT ![p] = c]
  /\ state' = [state EXCEPT ![p] = "ZOMBIE"]
  /\ Goto(p, "exit_unlock")
  /\ UNCHANGED <<chan, killed, pid, parent, wait_lock, nextpid, cpuVars, locals>>

\* Mutant of ExitUnlock: no release(&wait_lock).
ExitKeepsLock(c, p) ==
  /\ At(c, p, "exit_unlock")
  /\ Goto(p, "sched_exit")
  /\ UNCHANGED <<procVars, lock, wait_lock, nextpid, cpuVars, locals>>

\* release(&wait_lock), and on to sched().
ExitUnlock(c, p) ==
  /\ At(c, p, "exit_unlock")
  /\ wait_lock' = NoCpu
  /\ Goto(p, "sched_exit")
  /\ UNCHANGED <<procVars, lock, nextpid, cpuVars, locals>>

\* An exception in user space: setkilled(p), and exit(-1).
Fault(c, p) ==
  /\ At(c, p, "user") /\ p \in Unruly /\ p # initproc /\ IsFree(lock[p])
  /\ killed' = [killed EXCEPT ![p] = TRUE]
  /\ Goto(p, "exit")
  /\ UNCHANGED <<state, chan, pid, parent, lock, wait_lock, nextpid, cpuVars, locals>>

-----------------------------------------------------------------------------
(* wait(), and sleep(p, &wait_lock) as it calls it.                        *)

\* acquire(&wait_lock), on entry and at the end of sleep(); then scan afresh.
WaitLock(c, p) ==
  /\ At(c, p, "wait") \/ At(c, p, "wait_relock")
  /\ IsFree(wait_lock)
  /\ wait_lock' = c
  /\ idx' = [idx EXCEPT ![p] = 1]
  /\ havekids' = [havekids EXCEPT ![p] = FALSE]
  /\ Goto(p, "wait_scan")
  /\ UNCHANGED <<procVars, lock, nextpid, cpuVars, ret, widx, target>>

\* wait() returns to the system call's caller; wait_lock is released.
WaitReturn(p) ==
  /\ wait_lock' = NoCpu
  /\ havekids' = [havekids EXCEPT ![p] = FALSE]
  /\ Goto(p, "ret")

\* Mutant of WaitScan: any ZOMBIE will do.
WaitScanAny(c, p) ==
  /\ At(c, p, "wait_scan")
  /\ \/ /\ idx[p] > NPROC
        /\ Goto(p, "wait_killed")
        /\ UNCHANGED <<procVars, wait_lock, idx, havekids>>
     \/ /\ idx[p] \in Slot /\ IsFree(lock[idx[p]]) /\ state[idx[p]] # "ZOMBIE"
        /\ havekids' = [havekids EXCEPT ![p] = @ \/ parent[idx[p]] = p]
        /\ idx' = [idx EXCEPT ![p] = @ + 1]
        /\ UNCHANGED <<procVars, wait_lock, pc>>
     \/ /\ idx[p] \in Slot /\ IsFree(lock[idx[p]]) /\ state[idx[p]] = "ZOMBIE"
        /\ FreeProc(idx[p]) /\ WaitReturn(p)
        /\ UNCHANGED idx
  /\ UNCHANGED <<lock, nextpid, cpuVars, ret, widx, target>>

\* One iteration of the scan: a ZOMBIE child is freed, or, when copyout()
\* of its status fails, left as it is.
WaitScan(c, p) ==
  /\ At(c, p, "wait_scan")
  /\ \/ /\ idx[p] > NPROC
        /\ Goto(p, "wait_killed")
        /\ UNCHANGED <<procVars, wait_lock, idx, havekids>>
     \/ /\ idx[p] \in Slot /\ parent[idx[p]] # p
        /\ idx' = [idx EXCEPT ![p] = @ + 1]
        /\ UNCHANGED <<procVars, wait_lock, pc, havekids>>
     \/ /\ idx[p] \in Slot /\ parent[idx[p]] = p
        /\ IsFree(lock[idx[p]])
        /\ state[idx[p]] # "ZOMBIE"
        /\ havekids' = [havekids EXCEPT ![p] = TRUE]
        /\ idx' = [idx EXCEPT ![p] = @ + 1]
        /\ UNCHANGED <<procVars, wait_lock, pc>>
     \/ /\ idx[p] \in Slot /\ parent[idx[p]] = p
        /\ IsFree(lock[idx[p]])
        /\ state[idx[p]] = "ZOMBIE"
        /\ FreeProc(idx[p]) \/ (p # initproc /\ UNCHANGED procVars)
        /\ WaitReturn(p)
        /\ UNCHANGED idx
  /\ UNCHANGED <<lock, nextpid, cpuVars, ret, widx, target>>

\* Mutant of WaitKilled: release(&wait_lock) before sleep().
WaitKilledUnlocks(c, p) ==
  /\ At(c, p, "wait_killed")
  /\ havekids[p] => IsFree(lock[p])
  /\ wait_lock' = NoCpu
  /\ Goto(p, IF ~havekids[p] \/ killed[p] THEN "ret" ELSE "sleep")
  /\ UNCHANGED <<procVars, lock, nextpid, cpuVars, locals>>

\* No child, or killed(p): return -1.  Else sleep.
WaitKilled(c, p) ==
  /\ At(c, p, "wait_killed")
  /\ havekids[p] => IsFree(lock[p])
  /\ \/ /\ ~havekids[p] \/ killed[p]
        /\ WaitReturn(p)
     \/ /\ havekids[p] /\ ~killed[p]
        /\ Goto(p, "sleep")
        /\ UNCHANGED <<wait_lock, havekids>>
  /\ UNCHANGED <<procVars, lock, nextpid, cpuVars, ret, idx, widx, target>>

\* acquire(&p->lock).
Sleep(c, p) ==
  /\ At(c, p, "sleep") /\ IsFree(lock[p])
  /\ lock' = [lock EXCEPT ![p] = c]
  /\ Goto(p, "sleep_unlock")
  /\ UNCHANGED <<procVars, wait_lock, nextpid, cpuVars, locals>>

\* release(lk).
SleepUnlock(c, p) ==
  /\ At(c, p, "sleep_unlock")
  /\ wait_lock' = NoCpu
  /\ Goto(p, "sleep_set")
  /\ UNCHANGED <<procVars, lock, nextpid, cpuVars, locals>>

\* Mutant of SleepSet: p->chan is not set.
SleepNoChan(c, p) ==
  /\ At(c, p, "sleep_set")
  /\ state' = [state EXCEPT ![p] = "SLEEPING"]
  /\ Goto(p, "sched_sleep")
  /\ UNCHANGED <<chan, killed, pid, parent, lock, wait_lock, nextpid, cpuVars, locals>>

\* p->chan = chan; p->state = SLEEPING; on to sched().
SleepSet(c, p) ==
  /\ At(c, p, "sleep_set")
  /\ chan' = [chan EXCEPT ![p] = p]
  /\ state' = [state EXCEPT ![p] = "SLEEPING"]
  /\ Goto(p, "sched_sleep")
  /\ UNCHANGED <<killed, pid, parent, lock, wait_lock, nextpid, cpuVars, locals>>

\* sched() returned: p->chan = 0; release(&p->lock); then reacquire lk, in
\* wait() or in the file system.
Awake(c, p) ==
  /\ At(c, p, "awake")
  /\ chan' = [chan EXCEPT ![p] = Null]
  /\ lock' = [lock EXCEPT ![p] = NoCpu]
  /\ Goto(p, IF chan[p] = Files THEN "exit" ELSE "wait_relock")
  /\ UNCHANGED <<state, killed, pid, parent, wait_lock, nextpid, cpuVars, locals>>

-----------------------------------------------------------------------------
\* One iteration of kill(target): the first slot with that pid is marked,
\* and made RUNNABLE when it sleeps.
Kill(c, p) ==
  /\ At(c, p, "kill")
  /\ \/ /\ idx[p] > NPROC
        /\ Goto(p, "ret")
        /\ UNCHANGED <<state, killed, idx>>
     \/ /\ idx[p] \in Slot /\ IsFree(lock[idx[p]])
        /\ pid[idx[p]] # target[p]
        /\ idx' = [idx EXCEPT ![p] = @ + 1]
        /\ UNCHANGED <<state, killed, pc>>
     \/ /\ idx[p] \in Slot /\ IsFree(lock[idx[p]])
        /\ pid[idx[p]] = target[p]
        /\ killed' = [killed EXCEPT ![idx[p]] = TRUE]
        /\ state' = [state EXCEPT ![idx[p]] = IF @ = "SLEEPING" THEN "RUNNABLE" ELSE @]
        /\ Goto(p, "ret")
        /\ UNCHANGED idx
  /\ UNCHANGED <<chan, pid, parent, lock, wait_lock, nextpid, cpuVars,
                 ret, widx, havekids, target>>

-----------------------------------------------------------------------------
Scheduler(c, p) == SchedPick(c, p) \/ SchedBack(c, p)

\* The two sides of swtch() in the thread of p.
Switch(c, p) ==
  \/ Resume(c, p)
  \/ Sched(c, p, "sched_yield", "resume")
  \/ Sched(c, p, "sched_sleep", "awake")
  \/ Sched(c, p, "sched_exit", "dead")

\* What the thread of p does by itself while it runs on c.
Work(c, p) ==
  \/ SyscallRet(c, p)
  \/ AllocProc(c, p) \/ ForkFail(c, p) \/ ForkCopy(c, p) \/ ForkParent(c, p) \/ ForkRun(c, p)
  \/ Exit(c, p) \/ CloseSleep(c, p) \/ Reparent(c, p) \/ WakeInit(c, p) \/ WakeParent(c, p)
  \/ Zombie(c, p) \/ ExitUnlock(c, p)
  \/ WaitLock(c, p) \/ WaitScan(c, p) \/ WaitKilled(c, p)
  \/ Sleep(c, p) \/ SleepUnlock(c, p) \/ SleepSet(c, p) \/ Awake(c, p)
  \/ Kill(c, p)

\* What user space and the timer do to it.
Environment(c, p) == Timer(c, p) \/ Syscall(c, p) \/ Fault(c, p)

Step(c, p) ==
  \/ Scheduler(c, p) \/ CloseWakeup(p)
  \/ On(c, p) /\ (Switch(c, p) \/ Work(c, p) \/ Environment(c, p))

Next == \E c \in CPU, p \in Slot : Step(c, p)

Spec == Init /\ [][Next]_vars

-----------------------------------------------------------------------------
(* Properties.                                                             *)

\* Type invariant: every field of struct proc, every CPU and every local of
\* a kernel thread stays in its range.
TypeOK ==
  /\ state  \in [Slot -> ProcState]
  /\ chan   \in [Slot -> Slot \cup {Null, Files}]
  /\ killed \in [Slot -> BOOLEAN]
  /\ pid    \in [Slot -> Nat]
  /\ parent \in [Slot -> Slot \cup {Null}]
  /\ lock   \in [Slot -> CPU \cup {NoCpu}]
  /\ wait_lock \in CPU \cup {NoCpu}
  /\ nextpid \in Nat
  /\ cproc \in [CPU -> Slot \cup {Null}]
  /\ cpc   \in [CPU -> {"scan", "run", "back", "halted"}]
  /\ pc    \in [Slot -> Labels]
  /\ ret   \in [Slot -> Preemptible]
  /\ idx   \in [Slot -> Index]
  /\ widx  \in [Slot -> Index]
  /\ havekids \in [Slot -> BOOLEAN]
  /\ target \in [Slot -> Nat]

\* The hand-over of p->lock across swtch() keeps kernel stacks exclusive: no
\* two CPUs are ever inside the same process, and the stack of a slot that
\* wait() or fork() has freed, or that is being set up, is on no CPU.
KernelStackExclusive ==
  \A p \in Slot :
    /\ \A c, d \in CPU : cproc[c] = p /\ cproc[d] = p => c = d
    /\ state[p] \in {"UNUSED", "USED"} => \A c \in CPU : cproc[c] # p

\* The panics of sched() and the "zombie exit" of exit() are unreachable:
\* the only CPU that stops is one on which init itself exits.
OnlyInitPanics ==
  \A c \in CPU :
    /\ cpc[c] = "halted" => cproc[c] = initproc
    /\ cpc[c] = "run" => pc[cproc[c]] # "dead"

\* sleep() in wait() misses no wakeup() of exit(): while nobody holds
\* wait_lock, no process sleeps in wait() that has a ZOMBIE child, whether
\* its own or one that reparent() handed to init.
NoLostWakeup ==
  IsFree(wait_lock) =>
    \A p, q \in Slot : ~(state[p] = "SLEEPING" /\ chan[p] = p
                         /\ state[q] = "ZOMBIE" /\ parent[q] = p)

\* Every process but init that can run, sleep or be reaped has a parent, and
\* that parent can still call wait(): exit() hands all children to init
\* before it becomes a ZOMBIE, even one that fork() is just creating.
ParentAlive ==
  \A q \in Slot \ {initproc} :
    /\ state[q] \notin {"UNUSED", "USED"} => parent[q] # Null
    /\ parent[q] # Null => state[parent[q]] \in {"RUNNABLE", "RUNNING", "SLEEPING"}

\* What the comments of kill() say: it "kill[s] the process with the given
\* pid", and when that sleeps, "wake[s] process from sleep()".  So a killed
\* process is not left sleeping in wait(), to stay there as long as its
\* children run.
KilledNotAsleep == \A p \in Slot : killed[p] => ~(state[p] = "SLEEPING" /\ IsFree(lock[p]))

\* kill() marks processes: a free slot, and so the process that allocproc()
\* makes of it, carries no mark of an earlier kill().
FreeNotKilled == \A p \in Slot : state[p] = "UNUSED" => ~killed[p]

\* The thread on CPU c is about to acquire() wait_lock, or the lock of q.
\* (A scheduler thread acquires a lock too, and holds no other then.)
WantsWaitLock(c) ==
  cpc[c] = "run" /\ pc[cproc[c]] \in {"fork_parent", "exit", "wait", "wait_relock"}
WantsLock(c, q) ==
  /\ cpc[c] = "run"
  /\ LET p == cproc[c]
     IN \/ pc[p] \in Preemptible \cup {"zombie", "wait_killed", "sleep"} /\ q = p
        \/ pc[p] \in {"fork", "fork_run", "wait_scan", "kill"} /\ q = idx[p]
        \/ pc[p] \in {"wake_init", "wake_parent"} /\ q = widx[p] /\ q # p

\* CPU c may spin in acquire() until CPU d calls release().
WaitsFor(c, d) ==
  \/ wait_lock = d /\ WantsWaitLock(c)
  \/ \E q \in Slot : lock[q] = d /\ WantsLock(c, q)

\* The spinlocks of proc.c cannot deadlock: wait_lock comes first, then one
\* p->lock.  A CPU that others wait for holds a p->lock and waits for nobody,
\* or has wait_lock and waits for such a CPU; nobody waits for itself.
NoCircularWait ==
  \A c, d \in CPU : WaitsFor(c, d) =>
    \A e \in CPU : WaitsFor(d, e) => \A f \in CPU : ~WaitsFor(e, f)

\* A step that ends a ZOMBIE frees it, by wait() in its parent.
Reap == \A q \in Slot : state[q] = "ZOMBIE" /\ state'[q] # "ZOMBIE" =>
          state'[q] = "UNUSED" /\ wait_lock \in CPU /\ On(wait_lock, parent[q])

\* A ZOMBIE disappears only into UNUSED, and only in the hands of the CPU
\* that holds wait_lock and executes its parent (the freeproc() of wait()).
ReapedByParent == [][Reap]_vars

=============================================================================
