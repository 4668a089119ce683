---------------------------- MODULE ProcHandover ----------------------------
(***************************************************************************)
(* Every step of Proc preserves the types and HandoverInv (module ProcInv): *)
(* what the locks, the CPUs and the labels of the kernel threads have to do *)
(* with each other.  One lemma per part of it, one step per action.        *)
(***************************************************************************)
EXTENDS ProcInv, TLAPS

(* Slots, loop variables over proc[], and the null pointer.                *)
LEMMA SlotFacts ==
  /\ initproc = 1 /\ initproc \in Slot /\ Null \notin Slot
  /\ 1 \in Index /\ Slot \subseteq Index
  /\ \A i \in Slot : i + 1 \in Index /\ i <= NPROC
  /\ \A i \in Index : i \in Nat /\ 1 <= i /\ (i \in Slot <=> ~(i > NPROC))
  /\ NPROC \in Nat /\ NoCpu \notin CPU /\ Files \notin Slot /\ Files # Null
BY ProcAssumption DEF Slot, Index, Null, initproc, Files

(* The part of it that does not speak of the order of slots.               *)
LEMMA NullFacts ==
  /\ initproc \in Slot /\ Null \notin Slot /\ NoCpu \notin CPU
  /\ Files \notin Slot /\ Files # Null
BY SlotFacts

(* The part of it that the types of the loop variables need.               *)
LEMMA IndexFacts ==
  /\ 1 \in Index /\ Slot \subseteq Index
  /\ \A i \in Slot : i + 1 \in Index
  /\ \A i \in Index : i \in Slot <=> ~(i > NPROC)
BY SlotFacts

(* A thread that calls sched() holds its own lock and nothing else, and    *)
(* has changed its state: none of the panics of sched() is reached.        *)
LEMMA SchedNeverPanics ==
  ASSUME Inv, NEW c \in CPU, NEW p \in Slot, NEW l, NEW l2,
         l \in {"sched_yield", "sched_sleep", "sched_exit"}, Sched(c, p, l, l2)
  PROVE  SchedOK(c, p)
<1>1. /\ cpc[c] = "run" /\ cproc[c] = p /\ pc[p] = l
  BY DEF Sched, At, On
<1>2. /\ lock[p] = c /\ state[p] # "RUNNING"
  BY <1>1 DEF Inv, HandoverInv, CpuInv, HoldsOwn, RunState
<1>3. /\ wait_lock # c /\ \A q \in Slot \ {p} : lock[q] # c
  BY <1>1 DEF Inv, HandoverInv, LockInv, HoldsWait
<1> QED BY <1>2, <1>3 DEF SchedOK

(* So sched() comes back to the scheduler thread, and does nothing else.   *)
LEMMA SchedIs ==
  ASSUME Inv, NEW c \in CPU, NEW p \in Slot, NEW l, NEW l2,
         l \in {"sched_yield", "sched_sleep", "sched_exit"}, Sched(c, p, l, l2)
  PROVE  /\ cpc[c] = "run" /\ cproc[c] = p /\ pc[p] = l /\ lock[p] = c
         /\ cpc' = [cpc EXCEPT ![c] = "back"] /\ pc' = [pc EXCEPT ![p] = l2]
         /\ state' = state /\ chan' = chan /\ parent' = parent
         /\ lock' = lock /\ wait_lock' = wait_lock /\ cproc' = cproc
         /\ ret' = ret /\ idx' = idx /\ widx' = widx
<1>1. SchedOK(c, p)
  BY SchedNeverPanics
<1> QED BY <1>1 DEF Sched, At, On, Goto, SchedOK, procVars, locals

(* Where yield() returns to, no spinlock is held.                          *)
LEMMA RetFacts ==
  ASSUME TypeOK, NEW p \in Slot
  PROVE  /\ ret[p] \in Labels
         /\ ret[p] \notin HoldsOwn \cup HoldsWait \cup {"dead", "fork_copy"}
         /\ RunState(ret[p]) = "RUNNING"
BY DEF TypeOK, Preemptible, HoldsOwn, HoldsWait, RunState, Labels

(* Every step keeps the fields of struct proc and the locals in range.     *)
LEMMA TypeStep ==
  ASSUME Inv, NEW c \in CPU, NEW p \in Slot, Step(c, p)
  PROVE  TypeOK'
<1> USE IndexFacts DEF Inv, TypeOK, At, On, Goto, IsFree, procVars, cpuVars, locals
<1>1. CASE SchedPick(c, p)
  BY <1>1 DEF SchedPick, ProcState, Labels, Preemptible
<1>2. CASE SchedBack(c, p)
  BY <1>2 DEF SchedBack, ProcState, Labels, Preemptible
<1>3. CASE Timer(c, p)
  BY <1>3, SMTT(20) DEF Timer, ProcState, Labels, Preemptible
<1>4. CASE Resume(c, p)
  BY <1>4 DEF Resume, ProcState, Labels, Preemptible
<1>5. CASE Sched(c, p, "sched_yield", "resume")
  BY <1>5 DEF Sched, Panic, Labels
<1>6. CASE Sched(c, p, "sched_sleep", "awake")
  BY <1>6 DEF Sched, Panic, Labels
<1>7. CASE Sched(c, p, "sched_exit", "dead")
  BY <1>7 DEF Sched, Panic, Labels
<1>8. CASE Syscall(c, p)
  <2>1. pc' \in [Slot -> Labels]
    BY <1>8 DEF Syscall, Labels
  <2>2. idx' \in [Slot -> Index]
    BY <1>8 DEF Syscall
  <2>3. target' \in [Slot -> Nat]
    BY <1>8, ProcAssumption DEF Syscall
  <2> QED BY <1>8, <2>1, <2>2, <2>3 DEF Syscall
<1>9. CASE SyscallRet(c, p)
  BY <1>9 DEF SyscallRet, ProcState, Labels, Preemptible
<1>10. CASE AllocProc(c, p)
  BY <1>10 DEF AllocProc, ProcState, Labels
<1>11. CASE ForkFail(c, p)
  BY <1>11 DEF ForkFail, FreeProc, ProcState, Labels, Preemptible, HandoverInv, ForkInv, Forking,
     Cont, CpuInv, RunState
<1>12. CASE ForkCopy(c, p)
  BY <1>12, SMTT(20) DEF ForkCopy, ProcState, Labels, Preemptible, HandoverInv, ForkInv, Forking,
     Cont, CpuInv, RunState
<1>13. CASE ForkParent(c, p)
  BY <1>13 DEF ForkParent, ProcState, Labels, Preemptible, HandoverInv, ForkInv, Forking, Cont,
     CpuInv, RunState
<1>14. CASE ForkRun(c, p)
  BY <1>14 DEF ForkRun, ProcState, Labels, Preemptible, HandoverInv, ForkInv, Forking, Cont,
     CpuInv, RunState
<1>15. CASE Exit(c, p)
  BY <1>15 DEF Exit, Panic, ProcState, Labels, Preemptible
<1>16. CASE Reparent(c, p)
  <2>1. CASE idx[p] \in Slot
    <3> initproc \in Slot
      BY SlotFacts
    <3> QED BY <1>16, <2>1 DEF Reparent, Labels
  <2>2. CASE idx[p] \notin Slot
    BY <1>16, <2>2 DEF Reparent, Labels
  <2> QED BY <2>1, <2>2
<1>17. CASE WakeInit(c, p)
  <2>1. CASE widx[p] \in Slot
    BY <1>17, <2>1 DEF WakeInit, Wakeup, ProcState
  <2>2. CASE widx[p] \notin Slot
    BY <1>17, <2>2 DEF WakeInit, Wakeup, Labels, HandoverInv, LoopInv
  <2> QED BY <2>1, <2>2
<1>18. CASE WakeParent(c, p)
  <2>1. CASE widx[p] \in Slot
    BY <1>18, <2>1 DEF WakeParent, Wakeup, ProcState
  <2>2. CASE widx[p] \notin Slot
    BY <1>18, <2>2 DEF WakeParent, Wakeup, Labels
  <2> QED BY <2>1, <2>2
<1>19. CASE Zombie(c, p)
  BY <1>19 DEF Zombie, ProcState, Labels, Preemptible
<1>20. CASE ExitUnlock(c, p)
  BY <1>20 DEF ExitUnlock, ProcState, Labels, Preemptible
<1>21. CASE Fault(c, p)
  BY <1>21 DEF Fault, ProcState, Labels, Preemptible
<1>22. CASE WaitLock(c, p)
  BY <1>22 DEF WaitLock, ProcState, Labels, Preemptible
<1>23. CASE WaitScan(c, p)
  <2>1. CASE UNCHANGED procVars
    <3>1. pc' \in [Slot -> Labels] /\ wait_lock' \in CPU \cup {NoCpu}
      BY <1>23, <2>1 DEF WaitScan, WaitReturn, Labels
    <3>2. idx' \in [Slot -> Index]
      BY <1>23, <2>1 DEF WaitScan, WaitReturn
    <3>3. havekids' \in [Slot -> BOOLEAN]
      BY <1>23, <2>1, Zenon DEF WaitScan, WaitReturn
    <3> QED BY <1>23, <2>1, <3>1, <3>2, <3>3 DEF WaitScan
  <2>2. CASE idx[p] \in Slot /\ FreeProc(idx[p]) /\ WaitReturn(p)
    BY <1>23, <2>2 DEF WaitScan, FreeProc, WaitReturn, Labels, ProcState
  <2> QED BY <1>23, <2>1, <2>2 DEF WaitScan
<1>24. CASE WaitKilled(c, p)
  <2>1. CASE WaitReturn(p)
    BY <1>24, <2>1 DEF WaitKilled, WaitReturn, Labels
  <2>2. CASE ~ WaitReturn(p)
    BY <1>24, <2>2 DEF WaitKilled, Labels
  <2> QED BY <2>1, <2>2
<1>25. CASE Sleep(c, p)
  BY <1>25 DEF Sleep, ProcState, Labels, Preemptible
<1>26. CASE SleepUnlock(c, p)
  BY <1>26 DEF SleepUnlock, ProcState, Labels, Preemptible
<1>27. CASE SleepSet(c, p)
  BY <1>27 DEF SleepSet, ProcState, Labels, Preemptible
<1>28. CASE Awake(c, p)
  BY <1>28 DEF Awake, ProcState, Labels, Preemptible
<1>29. CASE Kill(c, p)
  <2>1. CASE idx[p] \in Slot
    <3>1. state' \in [Slot -> ProcState]
      BY <1>29, <2>1 DEF Kill, ProcState
    <3>2. killed' \in [Slot -> BOOLEAN]
      BY <1>29, <2>1, ZenonT(30) DEF Kill
    <3> QED BY <1>29, <2>1, <3>1, <3>2 DEF Kill, Labels
  <2>2. CASE idx[p] \notin Slot
    BY <1>29, <2>2 DEF Kill, Labels
  <2> QED BY <2>1, <2>2
<1>30. CASE CloseSleep(c, p)
  BY <1>30 DEF CloseSleep, ProcState, Labels
<1>31. CASE CloseWakeup(p)
  BY <1>31 DEF CloseWakeup, ProcState
<1> QED
  BY <1>1, <1>2, <1>3, <1>4, <1>5, <1>6, <1>7, <1>8, <1>9, <1>10, <1>11, <1>12,
     <1>13, <1>14, <1>15, <1>16, <1>17, <1>18, <1>19, <1>20, <1>21, <1>22, <1>23, <1>24,
     <1>25, <1>26, <1>27, <1>28, <1>29, <1>30, <1>31, ZenonT(30)
     DEF Step, Scheduler, Switch, Work, Environment

(* What the scheduler threads know about the process they run.             *)
LEMMA CpuStep ==
  ASSUME Inv, NEW c \in CPU, NEW p \in Slot, Step(c, p)
  PROVE  CpuInv'
<1>a. CpuInv /\ initproc \in Slot /\ Null \notin Slot /\ NoCpu \notin CPU
  BY NullFacts DEF Inv, HandoverInv
<1>b. /\ state \in [Slot -> ProcState] /\ pc \in [Slot -> Labels]
      /\ lock \in [Slot -> CPU \cup {NoCpu}]
      /\ cpc \in [CPU -> {"scan", "run", "back", "halted"}]
      /\ cproc \in [CPU -> Slot \cup {Null}] /\ idx \in [Slot -> Index]
  BY DEF Inv, TypeOK
<1>c. /\ \A d \in CPU : cproc[d] \in Slot => state[cproc[d]] \notin {"UNUSED", "USED"}
      /\ state[p] = "RUNNABLE" /\ lock[p] = NoCpu => pc[p] \in {"resume", "awake"}
  BY <1>a, <1>b DEF Inv, HandoverInv, CpuInv, PcInv, HeldInv, HoldsOwn, RunState
<1>d. pc[p] \in {"fork_copy", "fork_parent", "fork_run"} /\ On(c, p) =>
        idx[p] \in Slot /\ state[idx[p]] = "USED"
  BY DEF Inv, HandoverInv, CpuInv, RunState, ForkInv, Forking, Cont, On
<1> USE <1>a, <1>b, <1>c DEF At, On, Goto, IsFree, procVars, cpuVars, locals,
      CpuInv, RunState, HoldsOwn
<1>1. CASE SchedPick(c, p)
  BY <1>1 DEF SchedPick
<1>2. CASE SchedBack(c, p)
  BY <1>2 DEF SchedBack
<1>3. CASE Timer(c, p)
  BY <1>3 DEF Timer, Preemptible
<1>4. CASE Resume(c, p)
  BY <1>4, RetFacts DEF Resume, Inv
<1>5. CASE Sched(c, p, "sched_yield", "resume")
  BY <1>5, SchedIs
<1>6. CASE Sched(c, p, "sched_sleep", "awake")
  BY <1>6, SchedIs
<1>7. CASE Sched(c, p, "sched_exit", "dead")
  BY <1>7, SchedIs
<1>8. CASE Syscall(c, p)
  BY <1>8 DEF Syscall
<1>9. CASE SyscallRet(c, p)
  BY <1>9 DEF SyscallRet
<1>10. CASE AllocProc(c, p)
  BY <1>10 DEF AllocProc
<1>11. CASE ForkFail(c, p)
  BY <1>11, <1>d DEF ForkFail, FreeProc
<1>12. CASE ForkCopy(c, p)
  BY <1>12, <1>d DEF ForkCopy
<1>13. CASE ForkParent(c, p)
  BY <1>13 DEF ForkParent
<1>14. CASE ForkRun(c, p)
  BY <1>14, <1>d DEF ForkRun
<1>15. CASE Exit(c, p)
  BY <1>15 DEF Exit, Panic
<1>16. CASE Reparent(c, p)
  BY <1>16 DEF Reparent
<1>17. CASE WakeInit(c, p)
  BY <1>17 DEF WakeInit, Wakeup
<1>18. CASE WakeParent(c, p)
  BY <1>18 DEF WakeParent, Wakeup
<1>19. CASE Zombie(c, p)
  BY <1>19 DEF Zombie
<1>20. CASE ExitUnlock(c, p)
  BY <1>20 DEF ExitUnlock
<1>21. CASE Fault(c, p)
  BY <1>21 DEF Fault
<1>22. CASE WaitLock(c, p)
  BY <1>22 DEF WaitLock
<1>23. CASE WaitScan(c, p)
  BY <1>23 DEF WaitScan, FreeProc, WaitReturn
<1>24. CASE WaitKilled(c, p)
  BY <1>24 DEF WaitKilled, WaitReturn
<1>25. CASE Sleep(c, p)
  BY <1>25 DEF Sleep
<1>26. CASE SleepUnlock(c, p)
  BY <1>26 DEF SleepUnlock
<1>27. CASE SleepSet(c, p)
  BY <1>27 DEF SleepSet
<1>28. CASE Awake(c, p)
  BY <1>28 DEF Awake
<1>29. CASE Kill(c, p)
  BY <1>29 DEF Kill
<1>30. CASE CloseSleep(c, p)
  BY <1>30 DEF CloseSleep
<1>31. CASE CloseWakeup(p)
  BY <1>31 DEF CloseWakeup
<1> QED
  BY <1>1, <1>2, <1>3, <1>4, <1>5, <1>6, <1>7, <1>8, <1>9, <1>10, <1>11, <1>12,
     <1>13, <1>14, <1>15, <1>16, <1>17, <1>18, <1>19, <1>20, <1>21, <1>22, <1>23, <1>24,
     <1>25, <1>26, <1>27, <1>28, <1>29, <1>30, <1>31, ZenonT(30)
     DEF Step, Scheduler, Switch, Work, Environment

(* Where a kernel thread can be, by p->state.                              *)
LEMMA PcStep ==
  ASSUME Inv, NEW c \in CPU, NEW p \in Slot, Step(c, p)
  PROVE  PcInv'
<1>a. PcInv /\ NoCpu \notin CPU
  BY NullFacts DEF Inv, HandoverInv
<1>b. /\ state \in [Slot -> ProcState] /\ pc \in [Slot -> Labels]
  BY DEF Inv, TypeOK
<1>c. /\ On(c, p) => state[p] = RunState(pc[p])
      /\ \A q \in Slot : lock[q] = NoCpu =>
           pc[q] \notin {"sched_yield", "sched_sleep", "sched_exit", "exit_unlock"}
      /\ cpc[c] = "back" /\ cproc[c] = p => pc[p] \in {"resume", "awake", "dead"}
  BY NullFacts DEF Inv, HandoverInv, CpuInv, PcInv, HeldInv, HoldsOwn, On
<1>d. pc[p] \in {"fork_copy", "fork_parent", "fork_run"} /\ On(c, p) =>
        /\ idx[p] \in Slot /\ state[idx[p]] = "USED"
        /\ pc[p] # "fork_copy" => pc[idx[p]] = "resume"
  BY DEF Inv, HandoverInv, CpuInv, RunState, ForkInv, Forking, Cont, On
<1> USE <1>a, <1>b, <1>c DEF At, On, Goto, IsFree, procVars, cpuVars, locals,
      PcInv, RunState
<1>1. CASE SchedPick(c, p)
  BY <1>1 DEF SchedPick
<1>2. CASE SchedBack(c, p)
  BY <1>2 DEF SchedBack
<1>3. CASE Timer(c, p)
  BY <1>3 DEF Timer, Preemptible
<1>4. CASE Resume(c, p)
  BY <1>4, RetFacts DEF Resume, Inv
<1>5. CASE Sched(c, p, "sched_yield", "resume")
  BY <1>5, SchedIs
<1>6. CASE Sched(c, p, "sched_sleep", "awake")
  BY <1>6, SchedIs
<1>7. CASE Sched(c, p, "sched_exit", "dead")
  BY <1>7, SchedIs
<1>8. CASE Syscall(c, p)
  BY <1>8 DEF Syscall
<1>9. CASE SyscallRet(c, p)
  BY <1>9 DEF SyscallRet
<1>10. CASE AllocProc(c, p)
  BY <1>10 DEF AllocProc
<1>11. CASE ForkFail(c, p)
  BY <1>11, <1>d DEF ForkFail, FreeProc
<1>12. CASE ForkCopy(c, p)
  BY <1>12, <1>d DEF ForkCopy
<1>13. CASE ForkParent(c, p)
  BY <1>13 DEF ForkParent
<1>14. CASE ForkRun(c, p)
  BY <1>14, <1>d DEF ForkRun
<1>15. CASE Exit(c, p)
  BY <1>15 DEF Exit, Panic
<1>16. CASE Reparent(c, p)
  BY <1>16 DEF Reparent
<1>17. CASE WakeInit(c, p)
  BY <1>17 DEF WakeInit, Wakeup
<1>18. CASE WakeParent(c, p)
  BY <1>18 DEF WakeParent, Wakeup
<1>19. CASE Zombie(c, p)
  BY <1>19 DEF Zombie
<1>20. CASE ExitUnlock(c, p)
  BY <1>20 DEF ExitUnlock
<1>21. CASE Fault(c, p)
  BY <1>21 DEF Fault
<1>22. CASE WaitLock(c, p)
  BY <1>22 DEF WaitLock
<1>23. CASE WaitScan(c, p)
  BY <1>23 DEF WaitScan, FreeProc, WaitReturn
<1>24. CASE WaitKilled(c, p)
  BY <1>24 DEF WaitKilled, WaitReturn
<1>25. CASE Sleep(c, p)
  BY <1>25 DEF Sleep
<1>26. CASE SleepUnlock(c, p)
  BY <1>26 DEF SleepUnlock
<1>27. CASE SleepSet(c, p)
  BY <1>27 DEF SleepSet
<1>28. CASE Awake(c, p)
  BY <1>28 DEF Awake
<1>29. CASE Kill(c, p)
  BY <1>29 DEF Kill
<1>30. CASE CloseSleep(c, p)
  BY <1>30 DEF CloseSleep
<1>31. CASE CloseWakeup(p)
  BY <1>31 DEF CloseWakeup
<1> QED
  BY <1>1, <1>2, <1>3, <1>4, <1>5, <1>6, <1>7, <1>8, <1>9, <1>10, <1>11, <1>12,
     <1>13, <1>14, <1>15, <1>16, <1>17, <1>18, <1>19, <1>20, <1>21, <1>22, <1>23, <1>24,
     <1>25, <1>26, <1>27, <1>28, <1>29, <1>30, <1>31, ZenonT(30)
     DEF Step, Scheduler, Switch, Work, Environment

(* A thread has the locks its label says it has.                           *)
LEMMA HeldStep ==
  ASSUME Inv, NEW c \in CPU, NEW p \in Slot, Step(c, p)
  PROVE  HeldInv'
<1>a. HeldInv /\ NoCpu \notin CPU /\ c # NoCpu
  BY NullFacts DEF Inv, HandoverInv
<1>b. /\ lock \in [Slot -> CPU \cup {NoCpu}] /\ pc \in [Slot -> Labels]
      /\ cpc \in [CPU -> {"scan", "run", "back", "halted"}]
      /\ cproc \in [CPU -> Slot \cup {Null}]
  BY DEF Inv, TypeOK
<1>c. /\ \A d \in CPU : cproc[c] = p /\ cproc[d] = p => d = c
      /\ cpc[c] = "back" /\ cproc[c] = p => pc[p] \in {"resume", "awake", "dead"}
  BY NullFacts DEF Inv, HandoverInv, CpuInv
<1>d. pc[p] = "fork_copy" /\ On(c, p) => idx[p] \in Slot /\ pc[idx[p]] \in {"resume", "dead"}
  BY DEF Inv, HandoverInv, CpuInv, PcInv, RunState, ForkInv, Forking, Cont, On
<1> USE <1>a, <1>b, <1>c DEF At, On, Goto, IsFree, procVars, cpuVars, locals,
      HeldInv, HoldsOwn, HoldsWait
<1>1. CASE SchedPick(c, p)
  BY <1>1 DEF SchedPick
<1>2. CASE SchedBack(c, p)
  BY <1>2 DEF SchedBack
<1>3. CASE Timer(c, p)
  BY <1>3 DEF Timer, Preemptible
<1>4. CASE Resume(c, p)
  BY <1>4, RetFacts DEF Resume, Inv
<1>5. CASE Sched(c, p, "sched_yield", "resume")
  BY <1>5, SchedIs
<1>6. CASE Sched(c, p, "sched_sleep", "awake")
  BY <1>6, SchedIs
<1>7. CASE Sched(c, p, "sched_exit", "dead")
  BY <1>7, SchedIs
<1>8. CASE Syscall(c, p)
  BY <1>8 DEF Syscall
<1>9. CASE SyscallRet(c, p)
  BY <1>9 DEF SyscallRet
<1>10. CASE AllocProc(c, p)
  BY <1>10 DEF AllocProc
<1>11. CASE ForkFail(c, p)
  BY <1>11, <1>d DEF ForkFail, FreeProc
<1>12. CASE ForkCopy(c, p)
  BY <1>12, <1>d DEF ForkCopy
<1>13. CASE ForkParent(c, p)
  BY <1>13 DEF ForkParent
<1>14. CASE ForkRun(c, p)
  BY <1>14 DEF ForkRun
<1>15. CASE Exit(c, p)
  BY <1>15 DEF Exit, Panic
<1>16. CASE Reparent(c, p)
  BY <1>16 DEF Reparent
<1>17. CASE WakeInit(c, p)
  BY <1>17 DEF WakeInit, Wakeup
<1>18. CASE WakeParent(c, p)
  BY <1>18 DEF WakeParent, Wakeup
<1>19. CASE Zombie(c, p)
  BY <1>19 DEF Zombie
<1>20. CASE ExitUnlock(c, p)
  BY <1>20 DEF ExitUnlock
<1>21. CASE Fault(c, p)
  BY <1>21 DEF Fault
<1>22. CASE WaitLock(c, p)
  BY <1>22 DEF WaitLock
<1>23. CASE WaitScan(c, p)
  BY <1>23 DEF WaitScan, FreeProc, WaitReturn
<1>24. CASE WaitKilled(c, p)
  BY <1>24 DEF WaitKilled, WaitReturn
<1>25. CASE Sleep(c, p)
  BY <1>25 DEF Sleep
<1>26. CASE SleepUnlock(c, p)
  BY <1>26 DEF SleepUnlock
<1>27. CASE SleepSet(c, p)
  BY <1>27 DEF SleepSet
<1>28. CASE Awake(c, p)
  BY <1>28 DEF Awake
<1>29. CASE Kill(c, p)
  BY <1>29 DEF Kill
<1>30. CASE CloseSleep(c, p)
  BY <1>30 DEF CloseSleep
<1>31. CASE CloseWakeup(p)
  BY <1>31 DEF CloseWakeup
<1> QED
  BY <1>1, <1>2, <1>3, <1>4, <1>5, <1>6, <1>7, <1>8, <1>9, <1>10, <1>11, <1>12,
     <1>13, <1>14, <1>15, <1>16, <1>17, <1>18, <1>19, <1>20, <1>21, <1>22, <1>23, <1>24,
     <1>25, <1>26, <1>27, <1>28, <1>29, <1>30, <1>31, ZenonT(30)
     DEF Step, Scheduler, Switch, Work, Environment

(* The loop variables of reparent() and wakeup().                          *)
LEMMA LoopStep ==
  ASSUME Inv, NEW c \in CPU, NEW p \in Slot, Step(c, p)
  PROVE  LoopInv'
<1>a. LoopInv /\ 1 \in Index
  BY IndexFacts DEF Inv, HandoverInv
<1>b. /\ pc \in [Slot -> Labels] /\ idx \in [Slot -> Index] /\ widx \in [Slot -> Index]
  BY DEF Inv, TypeOK
<1>d. pc[p] = "fork_copy" /\ On(c, p) => idx[p] \in Slot /\ pc[idx[p]] \in {"resume", "dead"}
  BY DEF Inv, HandoverInv, CpuInv, PcInv, RunState, ForkInv, Forking, Cont, On
<1> USE <1>a, <1>b DEF At, On, Goto, IsFree, procVars, cpuVars, locals,
      LoopInv
<1>1. CASE SchedPick(c, p)
  BY <1>1 DEF SchedPick
<1>2. CASE SchedBack(c, p)
  BY <1>2 DEF SchedBack
<1>3. CASE Timer(c, p)
  BY <1>3 DEF Timer, Preemptible
<1>4. CASE Resume(c, p)
  BY <1>4, RetFacts DEF Resume, HoldsWait, Inv
<1>5. CASE Sched(c, p, "sched_yield", "resume")
  BY <1>5, SchedIs
<1>6. CASE Sched(c, p, "sched_sleep", "awake")
  BY <1>6, SchedIs
<1>7. CASE Sched(c, p, "sched_exit", "dead")
  BY <1>7, SchedIs
<1>8. CASE Syscall(c, p)
  BY <1>8 DEF Syscall
<1>9. CASE SyscallRet(c, p)
  BY <1>9 DEF SyscallRet
<1>10. CASE AllocProc(c, p)
  BY <1>10 DEF AllocProc
<1>11. CASE ForkFail(c, p)
  BY <1>11 DEF ForkFail, FreeProc
<1>12. CASE ForkCopy(c, p)
  BY <1>12, <1>d DEF ForkCopy
<1>13. CASE ForkParent(c, p)
  BY <1>13 DEF ForkParent
<1>14. CASE ForkRun(c, p)
  BY <1>14 DEF ForkRun
<1>15. CASE Exit(c, p)
  BY <1>15 DEF Exit, Panic
<1>16. CASE Reparent(c, p)
  BY <1>16 DEF Reparent
<1>17. CASE WakeInit(c, p)
  BY <1>17 DEF WakeInit, Wakeup
<1>18. CASE WakeParent(c, p)
  BY <1>18 DEF WakeParent, Wakeup
<1>19. CASE Zombie(c, p)
  BY <1>19 DEF Zombie
<1>20. CASE ExitUnlock(c, p)
  BY <1>20 DEF ExitUnlock
<1>21. CASE Fault(c, p)
  BY <1>21 DEF Fault
<1>22. CASE WaitLock(c, p)
  BY <1>22 DEF WaitLock
<1>23. CASE WaitScan(c, p)
  BY <1>23 DEF WaitScan, FreeProc, WaitReturn
<1>24. CASE WaitKilled(c, p)
  BY <1>24 DEF WaitKilled, WaitReturn
<1>25. CASE Sleep(c, p)
  BY <1>25 DEF Sleep
<1>26. CASE SleepUnlock(c, p)
  BY <1>26 DEF SleepUnlock
<1>27. CASE SleepSet(c, p)
  BY <1>27 DEF SleepSet
<1>28. CASE Awake(c, p)
  BY <1>28 DEF Awake
<1>29. CASE Kill(c, p)
  BY <1>29 DEF Kill
<1>30. CASE CloseSleep(c, p)
  BY <1>30 DEF CloseSleep
<1>31. CASE CloseWakeup(p)
  BY <1>31 DEF CloseWakeup
<1> QED
  BY <1>1, <1>2, <1>3, <1>4, <1>5, <1>6, <1>7, <1>8, <1>9, <1>10, <1>11, <1>12,
     <1>13, <1>14, <1>15, <1>16, <1>17, <1>18, <1>19, <1>20, <1>21, <1>22, <1>23, <1>24,
     <1>25, <1>26, <1>27, <1>28, <1>29, <1>30, <1>31, ZenonT(30)
     DEF Step, Scheduler, Switch, Work, Environment

(* A CPU holds no lock but the ones its label says.                        *)
LEMMA LockStep ==
  ASSUME Inv, NEW c \in CPU, NEW p \in Slot, Step(c, p)
  PROVE  LockInv'
<1>a. LockInv /\ NoCpu \notin CPU /\ (p \in Slot => p # Null)
  BY NullFacts DEF Inv, HandoverInv
<1>b. /\ lock \in [Slot -> CPU \cup {NoCpu}] /\ pc \in [Slot -> Labels]
      /\ cpc \in [CPU -> {"scan", "run", "back", "halted"}]
      /\ cproc \in [CPU -> Slot \cup {Null}] /\ idx \in [Slot -> Index]
  BY DEF Inv, TypeOK
<1>c. \A d \in CPU : /\ cproc[c] = p /\ cproc[d] = p => d = c
                     /\ cpc[d] \in {"run", "back"} => cproc[d] \in Slot
  BY <1>a, <1>b DEF Inv, HandoverInv, CpuInv
<1> USE <1>a, <1>b, <1>c DEF At, On, Goto, IsFree, procVars, cpuVars, locals,
      LockInv, HoldsOwn, HoldsWait
<1>1. CASE SchedPick(c, p)
  <2>1. pc[p] \in HoldsOwn
    BY <1>1 DEF SchedPick, Inv, HandoverInv, PcInv
  <2> QED
    BY <1>1, <2>1 DEF SchedPick
<1>2. CASE SchedBack(c, p)
  BY <1>2 DEF SchedBack
<1>3. CASE Timer(c, p)
  BY <1>3 DEF Timer, Preemptible
<1>4. CASE Resume(c, p)
  BY <1>4, RetFacts DEF Resume
<1>5. CASE Sched(c, p, "sched_yield", "resume")
  BY <1>5, SchedIs
<1>6. CASE Sched(c, p, "sched_sleep", "awake")
  BY <1>6, SchedIs
<1>7. CASE Sched(c, p, "sched_exit", "dead")
  BY <1>7, SchedIs
<1>8. CASE Syscall(c, p)
  BY <1>8 DEF Syscall
<1>9. CASE SyscallRet(c, p)
  BY <1>9 DEF SyscallRet
<1>10. CASE AllocProc(c, p)
  <2>1. At(c, p, "fork") /\ UNCHANGED <<wait_lock, cproc, cpc>>
    BY <1>10 DEF AllocProc
  <2>2. \/ /\ lock' = lock /\ pc' \in {pc, [pc EXCEPT ![p] = "ret"]}
           /\ idx' \in {idx, [idx EXCEPT ![p] = @ + 1]}
        \/ /\ idx[p] \in Slot /\ lock' = [lock EXCEPT ![idx[p]] = c]
           /\ pc' = [pc EXCEPT ![p] = "fork_copy"] /\ idx' = idx
    BY <1>10 DEF AllocProc
  <2> QED BY <2>1, <2>2
<1>11. CASE ForkFail(c, p)
  <2>1. idx[p] \in Slot
    BY <1>11 DEF ForkFail, Inv, HandoverInv, CpuInv, RunState, ForkInv, Forking, Cont
  <2> QED
    BY <1>11, <2>1 DEF ForkFail
<1>12. CASE ForkCopy(c, p)
  <2>1. idx[p] \in Slot /\ state[idx[p]] = "USED"
    BY <1>12 DEF ForkCopy, Inv, HandoverInv, CpuInv, RunState, ForkInv, Forking, Cont
  <2>2. \A d \in CPU : cproc[d] # idx[p]
    BY <2>1, NullFacts DEF Inv, HandoverInv, CpuInv, RunState
  <2> QED
    BY <1>12, <2>1, <2>2 DEF ForkCopy
<1>13. CASE ForkParent(c, p)
  BY <1>13 DEF ForkParent
<1>14. CASE ForkRun(c, p)
  BY <1>14 DEF ForkRun
<1>15. CASE Exit(c, p)
  BY <1>15 DEF Exit, Panic
<1>16. CASE Reparent(c, p)
  BY <1>16 DEF Reparent
<1>17. CASE WakeInit(c, p)
  <2>1. At(c, p, "wake_init") /\ UNCHANGED <<lock, wait_lock, cproc, cpc>>
    BY <1>17 DEF WakeInit, Wakeup
  <2>2. /\ pc' \in {pc, [pc EXCEPT ![p] = "reparent"]}
        /\ idx' \in {idx, [idx EXCEPT ![p] = @ + 1]}
    BY <1>17 DEF WakeInit, Wakeup
  <2> QED BY <2>1, <2>2
<1>18. CASE WakeParent(c, p)
  <2>1. At(c, p, "wake_parent") /\ UNCHANGED <<lock, wait_lock, cproc, cpc, idx>>
    BY <1>18 DEF WakeParent, Wakeup
  <2>2. pc' \in {pc, [pc EXCEPT ![p] = "zombie"]}
    BY <1>18 DEF WakeParent, Wakeup
  <2> QED BY <2>1, <2>2
<1>19. CASE Zombie(c, p)
  BY <1>19 DEF Zombie
<1>20. CASE ExitUnlock(c, p)
  BY <1>20 DEF ExitUnlock
<1>21. CASE Fault(c, p)
  BY <1>21 DEF Fault
<1>22. CASE WaitLock(c, p)
  BY <1>22 DEF WaitLock
<1>23. CASE WaitScan(c, p)
  <2>1. At(c, p, "wait_scan") /\ UNCHANGED <<lock, cproc, cpc>>
    BY <1>23 DEF WaitScan
  <2>2. \/ /\ wait_lock' = wait_lock /\ pc' \in {pc, [pc EXCEPT ![p] = "wait_killed"]}
           /\ idx' \in {idx, [idx EXCEPT ![p] = @ + 1]}
        \/ wait_lock' = NoCpu /\ pc' = [pc EXCEPT ![p] = "ret"] /\ idx' = idx
    BY <1>23 DEF WaitScan, WaitReturn
  <2> QED BY <2>1, <2>2
<1>24. CASE WaitKilled(c, p)
  BY <1>24 DEF WaitKilled, WaitReturn
<1>25. CASE Sleep(c, p)
  BY <1>25 DEF Sleep
<1>26. CASE SleepUnlock(c, p)
  BY <1>26 DEF SleepUnlock
<1>27. CASE SleepSet(c, p)
  BY <1>27 DEF SleepSet
<1>28. CASE Awake(c, p)
  <2>1. /\ At(c, p, "awake") /\ UNCHANGED <<wait_lock, cproc, cpc, idx>>
        /\ pc' \in {[pc EXCEPT ![p] = "wait_relock"], [pc EXCEPT ![p] = "exit"]}
        /\ lock' = [lock EXCEPT ![p] = NoCpu]
    BY <1>28 DEF Awake
  <2> QED BY <2>1
<1>29. CASE Kill(c, p)
  <2>1. /\ At(c, p, "kill") /\ UNCHANGED <<lock, wait_lock, cproc, cpc>>
        /\ pc' \in {pc, [pc EXCEPT ![p] = "ret"]}
        /\ idx' \in {idx, [idx EXCEPT ![p] = @ + 1]}
    BY <1>29 DEF Kill
  <2> QED BY <2>1
<1>30. CASE CloseSleep(c, p)
  BY <1>30 DEF CloseSleep
<1>31. CASE CloseWakeup(p)
  BY <1>31 DEF CloseWakeup
<1> QED
  BY <1>1, <1>2, <1>3, <1>4, <1>5, <1>6, <1>7, <1>8, <1>9, <1>10, <1>11, <1>12,
     <1>13, <1>14, <1>15, <1>16, <1>17, <1>18, <1>19, <1>20, <1>21, <1>22, <1>23, <1>24,
     <1>25, <1>26, <1>27, <1>28, <1>29, <1>30, <1>31, ZenonT(30)
     DEF Step, Scheduler, Switch, Work, Environment

(* fork() owns the slot of the child it sets up.                           *)
LEMMA ForkStep ==
  ASSUME Inv, NEW c \in CPU, NEW p \in Slot, Step(c, p)
  PROVE  ForkInv'
<1>a. ForkInv /\ ForkUnique /\ NoCpu \notin CPU
  BY NullFacts DEF Inv, HandoverInv
<1>b. /\ state \in [Slot -> ProcState] /\ pc \in [Slot -> Labels]
      /\ ret \in [Slot -> Preemptible] /\ idx \in [Slot -> Index]
      /\ lock \in [Slot -> CPU \cup {NoCpu}] /\ cproc \in [CPU -> Slot \cup {Null}]
      /\ cpc \in [CPU -> {"scan", "run", "back", "halted"}]
  BY DEF Inv, TypeOK
<1>c. /\ On(c, p) => state[p] = RunState(pc[p])
      /\ \A q \in Slot : /\ state[q] \in {"UNUSED", "USED"} => pc[q] \in {"resume", "dead"}
                         /\ state[q] # "RUNNING" => pc[q] # "fork_copy"
      /\ \A d \in CPU : On(c, p) /\ On(d, p) => d = c
  BY NullFacts DEF Inv, HandoverInv, TypeOK, ProcState, CpuInv, PcInv, On
<1> USE <1>a, <1>b, <1>c DEF At, On, Goto, IsFree, procVars, cpuVars, locals,
      ForkInv, ForkUnique, Forking, Cont, RunState
<1>1. CASE SchedPick(c, p)
  BY <1>1 DEF SchedPick
<1>2. CASE SchedBack(c, p)
  <2>1. state[p] # "USED"
    BY <1>2 DEF SchedBack, Inv, HandoverInv, CpuInv
  <2> QED BY <1>2, <2>1 DEF SchedBack
<1>3. CASE Timer(c, p)
  BY <1>3 DEF Timer, Preemptible
<1>4. CASE Resume(c, p)
  BY <1>4, RetFacts DEF Resume, Inv
<1>5. CASE Sched(c, p, "sched_yield", "resume")
  BY <1>5, SchedIs
<1>6. CASE Sched(c, p, "sched_sleep", "awake")
  BY <1>6, SchedIs
<1>7. CASE Sched(c, p, "sched_exit", "dead")
  BY <1>7, SchedIs
<1>8. CASE Syscall(c, p)
  BY <1>8 DEF Syscall
<1>9. CASE SyscallRet(c, p)
  BY <1>9 DEF SyscallRet
<1>10. CASE AllocProc(c, p)
  BY <1>10 DEF AllocProc
<1>11. CASE ForkFail(c, p)
  BY <1>11 DEF ForkFail, FreeProc
<1>12. CASE ForkCopy(c, p)
  BY <1>12 DEF ForkCopy
<1>13. CASE ForkParent(c, p)
  BY <1>13 DEF ForkParent
<1>14. CASE ForkRun(c, p)
  BY <1>14 DEF ForkRun
<1>15. CASE Exit(c, p)
  BY <1>15 DEF Exit, Panic
<1>16. CASE Reparent(c, p)
  BY <1>16 DEF Reparent
<1>17. CASE WakeInit(c, p)
  BY <1>17 DEF WakeInit, Wakeup
<1>18. CASE WakeParent(c, p)
  BY <1>18 DEF WakeParent, Wakeup
<1>19. CASE Zombie(c, p)
  BY <1>19 DEF Zombie
<1>20. CASE ExitUnlock(c, p)
  BY <1>20 DEF ExitUnlock
<1>21. CASE Fault(c, p)
  BY <1>21 DEF Fault
<1>22. CASE WaitLock(c, p)
  BY <1>22 DEF WaitLock
<1>23. CASE WaitScan(c, p)
  BY <1>23 DEF WaitScan, FreeProc, WaitReturn
<1>24. CASE WaitKilled(c, p)
  BY <1>24 DEF WaitKilled, WaitReturn
<1>25. CASE Sleep(c, p)
  BY <1>25 DEF Sleep
<1>26. CASE SleepUnlock(c, p)
  BY <1>26 DEF SleepUnlock
<1>27. CASE SleepSet(c, p)
  BY <1>27 DEF SleepSet
<1>28. CASE Awake(c, p)
  BY <1>28 DEF Awake
<1>29. CASE Kill(c, p)
  BY <1>29 DEF Kill
<1>30. CASE CloseSleep(c, p)
  BY <1>30 DEF CloseSleep
<1>31. CASE CloseWakeup(p)
  BY <1>31 DEF CloseWakeup
<1> QED
  BY <1>1, <1>2, <1>3, <1>4, <1>5, <1>6, <1>7, <1>8, <1>9, <1>10, <1>11, <1>12,
     <1>13, <1>14, <1>15, <1>16, <1>17, <1>18, <1>19, <1>20, <1>21, <1>22, <1>23, <1>24,
     <1>25, <1>26, <1>27, <1>28, <1>29, <1>30, <1>31, ZenonT(30)
     DEF Step, Scheduler, Switch, Work, Environment

(* No two fork() calls set up the same slot.                               *)
LEMMA UniqueStep ==
  ASSUME Inv, NEW c \in CPU, NEW p \in Slot, Step(c, p)
  PROVE  ForkUnique'
<1>a. ForkInv /\ ForkUnique /\ NoCpu \notin CPU
  BY NullFacts DEF Inv, HandoverInv
<1>b. /\ state \in [Slot -> ProcState] /\ pc \in [Slot -> Labels]
      /\ ret \in [Slot -> Preemptible] /\ idx \in [Slot -> Index]
      /\ lock \in [Slot -> CPU \cup {NoCpu}] /\ cproc \in [CPU -> Slot \cup {Null}]
      /\ cpc \in [CPU -> {"scan", "run", "back", "halted"}]
  BY DEF Inv, TypeOK
<1>c. /\ On(c, p) => state[p] = RunState(pc[p])
      /\ \A q \in Slot : /\ state[q] \in {"UNUSED", "USED"} => pc[q] \in {"resume", "dead"}
                         /\ state[q] # "RUNNING" => pc[q] # "fork_copy"
      /\ \A d \in CPU : On(c, p) /\ On(d, p) => d = c
  BY NullFacts DEF Inv, HandoverInv, TypeOK, ProcState, CpuInv, PcInv, On
<1> USE <1>a, <1>b, <1>c DEF At, On, Goto, IsFree, procVars, cpuVars, locals,
      ForkInv, ForkUnique, Forking, Cont, RunState
<1>1. CASE SchedPick(c, p)
  BY <1>1 DEF SchedPick
<1>2. CASE SchedBack(c, p)
  BY <1>2 DEF SchedBack
<1>3. CASE Timer(c, p)
  BY <1>3 DEF Timer, Preemptible
<1>4. CASE Resume(c, p)
  BY <1>4, RetFacts DEF Resume, Inv
<1>5. CASE Sched(c, p, "sched_yield", "resume")
  BY <1>5, SchedIs
<1>6. CASE Sched(c, p, "sched_sleep", "awake")
  BY <1>6, SchedIs
<1>7. CASE Sched(c, p, "sched_exit", "dead")
  BY <1>7, SchedIs
<1>8. CASE Syscall(c, p)
  BY <1>8 DEF Syscall
<1>9. CASE SyscallRet(c, p)
  BY <1>9 DEF SyscallRet
<1>10. CASE AllocProc(c, p)
  BY <1>10 DEF AllocProc
<1>11. CASE ForkFail(c, p)
  BY <1>11 DEF ForkFail, FreeProc
<1>12. CASE ForkCopy(c, p)
  BY <1>12 DEF ForkCopy
<1>13. CASE ForkParent(c, p)
  BY <1>13 DEF ForkParent
<1>14. CASE ForkRun(c, p)
  BY <1>14 DEF ForkRun
<1>15. CASE Exit(c, p)
  BY <1>15 DEF Exit, Panic
<1>16. CASE Reparent(c, p)
  BY <1>16 DEF Reparent
<1>17. CASE WakeInit(c, p)
  BY <1>17 DEF WakeInit, Wakeup
<1>18. CASE WakeParent(c, p)
  BY <1>18 DEF WakeParent, Wakeup
<1>19. CASE Zombie(c, p)
  BY <1>19 DEF Zombie
<1>20. CASE ExitUnlock(c, p)
  BY <1>20 DEF ExitUnlock
<1>21. CASE Fault(c, p)
  BY <1>21 DEF Fault
<1>22. CASE WaitLock(c, p)
  BY <1>22 DEF WaitLock
<1>23. CASE WaitScan(c, p)
  <2>1. ~Forking(p) /\ ~Forking(p)'
    BY <1>23 DEF WaitScan, WaitReturn
  <2>2. ASSUME NEW q \in Slot, Forking(q)', q # p PROVE Forking(q) /\ idx'[q] = idx[q]
    BY <1>23, <2>2 DEF WaitScan, FreeProc, WaitReturn
  <2> QED
    BY <2>1, <2>2 DEF ForkUnique
<1>24. CASE WaitKilled(c, p)
  BY <1>24 DEF WaitKilled, WaitReturn
<1>25. CASE Sleep(c, p)
  BY <1>25 DEF Sleep
<1>26. CASE SleepUnlock(c, p)
  BY <1>26 DEF SleepUnlock
<1>27. CASE SleepSet(c, p)
  BY <1>27 DEF SleepSet
<1>28. CASE Awake(c, p)
  BY <1>28 DEF Awake
<1>29. CASE Kill(c, p)
  BY <1>29 DEF Kill
<1>30. CASE CloseSleep(c, p)
  BY <1>30 DEF CloseSleep
<1>31. CASE CloseWakeup(p)
  BY <1>31 DEF CloseWakeup
<1> QED
  BY <1>1, <1>2, <1>3, <1>4, <1>5, <1>6, <1>7, <1>8, <1>9, <1>10, <1>11, <1>12,
     <1>13, <1>14, <1>15, <1>16, <1>17, <1>18, <1>19, <1>20, <1>21, <1>22, <1>23, <1>24,
     <1>25, <1>26, <1>27, <1>28, <1>29, <1>30, <1>31, ZenonT(30)
     DEF Step, Scheduler, Switch, Work, Environment
=============================================================================
