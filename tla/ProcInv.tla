------------------------------ MODULE ProcInv -------------------------------
(***************************************************************************)
(* The inductive invariants of Proc: what the locks, the CPUs, the labels  *)
(* and the process states have to do with each other in every reachable    *)
(* state.  MCProc checks them on small instances, ProcProofs proves them.  *)
(***************************************************************************)
EXTENDS Proc

\* Labels at which the thread of p, executing, holds p->lock / wait_lock.
HoldsOwn == {"resume", "awake", "sleep_unlock", "sleep_set", "exit_unlock",
             "sched_yield", "sched_sleep", "sched_exit"}
HoldsWait == {"reparent", "wake_init", "wake_parent", "zombie", "exit_unlock",
              "wait_scan", "wait_killed", "sleep", "sleep_unlock"}

\* p->state at label l, while the thread executes.
RunState(l) ==
  CASE l = "sched_yield" -> "RUNNABLE"
    [] l = "sched_sleep" -> "SLEEPING"
    [] l \in {"exit_unlock", "sched_exit"} -> "ZOMBIE"
    [] OTHER -> "RUNNING"

CpuInv ==
  \A c \in CPU :
    /\ cpc[c] = "scan" <=> cproc[c] = Null
    /\ cpc[c] = "run" => /\ state[cproc[c]] = RunState(pc[cproc[c]])
                         /\ pc[cproc[c]] \in HoldsOwn => lock[cproc[c]] = c
    /\ cpc[c] = "back" => /\ lock[cproc[c]] = c
                          /\ pc[cproc[c]] \in {"resume", "awake", "dead"}
                          /\ state[cproc[c]] \in {"RUNNABLE", "SLEEPING", "ZOMBIE"}
    /\ cpc[c] = "halted" => /\ cproc[c] = initproc /\ pc[initproc] = "exit"
                            /\ state[initproc] = "RUNNING"
    /\ \A d \in CPU : cproc[c] = cproc[d] /\ cproc[c] # Null => c = d

\* The labels at which a thread can be found, by p->state.
PcInv ==
  \A p \in Slot :
    /\ state[p] \in {"UNUSED", "USED"} => pc[p] \in {"resume", "dead"}
    /\ state[p] = "RUNNABLE" => pc[p] \in {"sched_yield", "resume", "awake"}
    /\ state[p] = "SLEEPING" => pc[p] \in {"sched_sleep", "awake"}
    /\ state[p] = "ZOMBIE" => pc[p] \in {"exit_unlock", "sched_exit", "dead"}
    /\ state[p] = "RUNNING" =>
         pc[p] \notin {"sched_yield", "sched_sleep", "sched_exit", "exit_unlock", "dead"}

\* A thread between acquire(&p->lock) and swtch() still has the lock, and one
\* at a label of HoldsWait executes on the CPU that has wait_lock.
HeldInv ==
  \A p \in Slot :
    /\ pc[p] \in HoldsOwn \ {"resume", "awake"} => lock[p] # NoCpu
    /\ pc[p] \in HoldsWait => wait_lock \in CPU /\ On(wait_lock, p)

LoopInv ==
  \A p \in Slot :
    /\ pc[p] = "wake_init" => idx[p] \in Slot
    /\ pc[p] \notin {"wake_init", "wake_parent"} => widx[p] = 1

\* What a CPU that holds a lock is doing.
LockInv ==
  \A c \in CPU :
    /\ wait_lock = c => cpc[c] = "run" /\ pc[cproc[c]] \in HoldsWait
    /\ \A p \in Slot : lock[p] = c =>
         \/ cproc[c] = p /\ cpc[c] = "back"
         \/ cproc[c] = p /\ cpc[c] = "run" /\ pc[p] \in HoldsOwn
         \/ cpc[c] = "run" /\ pc[cproc[c]] = "fork_copy" /\ idx[cproc[c]] = p

\* The label p goes on from after an involuntary yield(), if it is in one.
Cont(p) == IF pc[p] \in {"sched_yield", "resume"} THEN ret[p] ELSE pc[p]

Forking(p) == /\ state[p] \notin {"UNUSED", "USED"}
              /\ Cont(p) \in {"fork_copy", "fork_parent", "fork_run"}

\* fork() owns the slot of the child until it makes it RUNNABLE.
ForkInv ==
  \A p \in Slot : Forking(p) =>
    /\ idx[p] \in Slot /\ state[idx[p]] = "USED"
    /\ pc[p] = "fork_copy" => \A c \in CPU : On(c, p) => lock[idx[p]] = c
    /\ Cont(p) # "fork_copy" => pc[idx[p]] = "resume" /\ ret[idx[p]] = "user"

ForkUnique ==
  \A p, q \in Slot : Forking(p) /\ Forking(q) /\ idx[q] = idx[p] => p = q

\* The locks, the CPUs and the process states agree: the strengthening of
\* KernelStackExclusive and OnlyInitPanics that every step preserves.
HandoverInv == CpuInv /\ PcInv /\ HeldInv /\ LoopInv /\ LockInv /\ ForkInv /\ ForkUnique

\* init never exits, so it is never reaped and nobody's child.
InitInv ==
  /\ state[initproc] \notin {"UNUSED", "USED", "ZOMBIE"}
  /\ pc[initproc] \notin {"reparent", "wake_init", "wake_parent", "zombie",
                          "exit_unlock", "sched_exit", "dead"}
  /\ parent[initproc] = Null /\ chan[initproc] # Files

\* p, in wait(), is past the release(lk) of sleep() and no wakeup() has
\* reached it.
Asleep(p) == \/ pc[p] = "sleep_set"
             \/ pc[p] = "sched_sleep" /\ chan[p] # Files
             \/ pc[p] = "awake" /\ state[p] = "SLEEPING" /\ chan[p] # Files

\* p, in wait() and with wait_lock, has already passed over slot q.
PassedOver(p, q) == \/ pc[p] \in {"wait_killed", "sleep", "sleep_unlock"}
                    \/ pc[p] = "wait_scan" /\ q < idx[p]

\* q, in exit() and with wait_lock, has already woken up its parent p.
Notified(q, p) == pc[q] = "zombie" \/ (pc[q] = "wake_parent" /\ widx[q] > p)

\* Some process has just handed a child to init and not woken it up yet.
Handing == \E x \in Slot : pc[x] = "wake_init" /\ widx[x] = initproc

\* A ZOMBIE child is never behind the back of a parent on its way to sleep.
ScanInv ==
  \A p, q \in Slot : parent[q] = p /\ state[q] = "ZOMBIE" => ~PassedOver(p, q)

\* An exiting child that has called wakeup() has found its parent awake, and
\* so will find it awake, or init about to be woken, once it is a ZOMBIE.
AsleepInv ==
  \A p, q \in Slot : parent[q] = p /\ Asleep(p) =>
    /\ ~Notified(q, p)
    /\ state[q] = "ZOMBIE" => p = initproc /\ Handing

\* Whoever sleeps, sleeps in wait() or closes files.
ChanInv == \A p \in Slot : state[p] = "SLEEPING" => chan[p] \in {p, Files}

\* The strengthening of NoLostWakeup that every step preserves.
WakeInv == ChanInv /\ ScanInv /\ AsleepInv

\* Who has a parent: from the second half of fork() on, until wait().
ParentInv ==
  \A q \in Slot :
    /\ state[q] = "UNUSED" => parent[q] = Null
    /\ state[q] \notin {"UNUSED", "USED"} /\ q # initproc => parent[q] # Null
    /\ parent[q] # Null => state[parent[q]] \notin {"UNUSED", "USED"}

ForkParentInv ==
  \A p \in Slot : Forking(p) /\ Cont(p) = "fork_run" => parent[idx[p]] # Null

\* exit() leaves no child behind the loop variable of reparent().
ReparentInv ==
  \A p, q \in Slot : parent[q] = p =>
    /\ pc[p] \notin {"wake_parent", "zombie", "exit_unlock", "sched_exit", "dead"}
    /\ pc[p] = "reparent" => q >= idx[p]
    /\ pc[p] = "wake_init" => q > idx[p]

\* The strengthening of ParentAlive that every step preserves.
FamilyInv == ParentInv /\ ForkParentInv /\ ReparentInv

\* The whole inductive invariant.
Inv == TypeOK /\ HandoverInv /\ InitInv /\ FamilyInv /\ WakeInv

=============================================================================
