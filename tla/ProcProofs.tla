----------------------------- MODULE ProcProofs -----------------------------
(***************************************************************************)
(* Machine-checked proofs about Proc, for every number of slots, every set *)
(* of CPUs, every bound on pids and all programs that kill or fault.        *)
(* Inv (module ProcInv) is inductive: ProcHandover has the lemmas about    *)
(* locks and CPUs, this module the ones about parents and about wakeups.   *)
(***************************************************************************)
EXTENDS ProcHandover

-----------------------------------------------------------------------------
(* init never exits, and a process that can be reaped has a parent to do it. *)

(* init stays out of exit(), so it is never reaped.                        *)
LEMMA InitStep ==
  ASSUME Inv, NEW c \in CPU, NEW p \in Slot, Step(c, p)
  PROVE  InitInv'
<1>a. InitInv /\ initproc \in Slot /\ Null \notin Slot /\ Files \notin Slot /\ Files # Null
  BY NullFacts DEF Inv
<1>b. /\ state \in [Slot -> ProcState] /\ pc \in [Slot -> Labels]
      /\ parent \in [Slot -> Slot \cup {Null}] /\ chan \in [Slot -> Slot \cup {Null, Files}]
  BY DEF Inv, TypeOK
<1>c. On(c, p) => state[p] = RunState(pc[p])
  BY NullFacts DEF Inv, HandoverInv, CpuInv, On
<1>d. pc[p] \in {"fork_copy", "fork_parent", "fork_run"} /\ On(c, p) =>
        idx[p] \in Slot /\ state[idx[p]] = "USED"
  BY DEF Inv, HandoverInv, CpuInv, RunState, ForkInv, Forking, Cont, On
<1> USE <1>a, <1>b, <1>c DEF At, On, Goto, IsFree, procVars, cpuVars, locals,
      InitInv, RunState, Preemptible
<1>1. CASE SchedPick(c, p)
  BY <1>1 DEF SchedPick
<1>2. CASE SchedBack(c, p)
  BY <1>2 DEF SchedBack
<1>3. CASE Timer(c, p)
  BY <1>3 DEF Timer
<1>4. CASE Resume(c, p)
  BY <1>4, RetFacts DEF Resume, HoldsWait, Inv
<1>5. CASE Sched(c, p, "sched_yield", "resume")
  BY <1>5, SchedIs
<1>6. CASE Sched(c, p, "sched_sleep", "awake")
  BY <1>6, SchedIs
<1>7. CASE Sched(c, p, "sched_exit", "dead")
  BY <1>7, SchedIs
<1>8. CASE Syscall(c, p)
  BY <1>8 DEF Syscall
<1>9. CASE SyscallRet(c, p)
  BY <1>9 DEF SyscallRet
<1>10. CASE AllocProc(c, p)
  BY <1>10 DEF AllocProc
<1>11. CASE ForkFail(c, p)
  BY <1>11, <1>d DEF ForkFail, FreeProc
<1>12. CASE ForkCopy(c, p)
  BY <1>12, <1>d DEF ForkCopy
<1>13. CASE ForkParent(c, p)
  BY <1>13, <1>d DEF ForkParent
<1>14. CASE ForkRun(c, p)
  BY <1>14, <1>d DEF ForkRun
<1>15. CASE Exit(c, p)
  BY <1>15 DEF Exit, Panic
<1>16. CASE Reparent(c, p)
  BY <1>16 DEF Reparent
<1>17. CASE WakeInit(c, p)
  BY <1>17 DEF WakeInit, Wakeup
<1>18. CASE WakeParent(c, p)
  BY <1>18 DEF WakeParent, Wakeup
<1>19. CASE Zombie(c, p)
  BY <1>19 DEF Zombie
<1>20. CASE ExitUnlock(c, p)
  BY <1>20 DEF ExitUnlock
<1>21. CASE Fault(c, p)
  BY <1>21 DEF Fault
<1>22. CASE WaitLock(c, p)
  BY <1>22 DEF WaitLock
<1>23. CASE WaitScan(c, p)
  BY <1>23 DEF WaitScan, FreeProc, WaitReturn
<1>24. CASE WaitKilled(c, p)
  BY <1>24 DEF WaitKilled, WaitReturn
<1>25. CASE Sleep(c, p)
  BY <1>25 DEF Sleep
<1>26. CASE SleepUnlock(c, p)
  BY <1>26 DEF SleepUnlock
<1>27. CASE SleepSet(c, p)
  BY <1>27 DEF SleepSet
<1>28. CASE Awake(c, p)
  BY <1>28 DEF Awake
<1>29. CASE Kill(c, p)
  BY <1>29 DEF Kill
<1>30. CASE CloseSleep(c, p)
  BY <1>30 DEF CloseSleep
<1>31. CASE CloseWakeup(p)
  BY <1>31 DEF CloseWakeup
<1> QED
  BY <1>1, <1>2, <1>3, <1>4, <1>5, <1>6, <1>7, <1>8, <1>9, <1>10, <1>11, <1>12,
     <1>13, <1>14, <1>15, <1>16, <1>17, <1>18, <1>19, <1>20, <1>21, <1>22, <1>23, <1>24,
     <1>25, <1>26, <1>27, <1>28, <1>29, <1>30, <1>31, ZenonT(30)
     DEF Step, Scheduler, Switch, Work, Environment

(* Who has a parent, and that the parent's slot is in use.                 *)
LEMMA ParentStep ==
  ASSUME Inv, NEW c \in CPU, NEW p \in Slot, Step(c, p)
  PROVE  ParentInv'
<1>a. ParentInv /\ initproc \in Slot /\ Null \notin Slot
  BY NullFacts DEF Inv, FamilyInv
<1>b. state \in [Slot -> ProcState] /\ parent \in [Slot -> Slot \cup {Null}]
  BY DEF Inv, TypeOK
<1>c. On(c, p) => state[p] = RunState(pc[p])
  BY NullFacts DEF Inv, HandoverInv, CpuInv, On
<1>d. pc[p] \in {"fork_copy", "fork_parent", "fork_run"} /\ On(c, p) =>
        idx[p] \in Slot /\ state[idx[p]] = "USED"
  BY DEF Inv, HandoverInv, CpuInv, RunState, ForkInv, Forking, Cont, On
<1>e. pc[p] = "fork_run" /\ On(c, p) => parent[idx[p]] # Null
  BY <1>c DEF Inv, FamilyInv, ForkParentInv, RunState, Forking, Cont
<1>f. \A q, r \in Slot : state[q] = "ZOMBIE" => parent[r] # q
  BY DEF Inv, HandoverInv, PcInv, FamilyInv, ReparentInv
<1> USE <1>a, <1>b, <1>c DEF At, On, Goto, IsFree, procVars, cpuVars, locals,
      ParentInv, RunState
<1>1. CASE SchedPick(c, p)
  BY <1>1 DEF SchedPick
<1>2. CASE SchedBack(c, p)
  BY <1>2 DEF SchedBack
<1>3. CASE Timer(c, p)
  BY <1>3 DEF Timer, Preemptible
<1>4. CASE Resume(c, p)
  BY <1>4, RetFacts DEF Resume, HoldsWait, Inv
<1>5. CASE Sched(c, p, "sched_yield", "resume")
  BY <1>5, SchedIs
<1>6. CASE Sched(c, p, "sched_sleep", "awake")
  BY <1>6, SchedIs
<1>7. CASE Sched(c, p, "sched_exit", "dead")
  BY <1>7, SchedIs
<1>8. CASE Syscall(c, p)
  BY <1>8 DEF Syscall
<1>9. CASE SyscallRet(c, p)
  BY <1>9 DEF SyscallRet
<1>10. CASE AllocProc(c, p)
  BY <1>10 DEF AllocProc
<1>11. CASE ForkFail(c, p)
  BY <1>11, <1>d DEF ForkFail, FreeProc
<1>12. CASE ForkCopy(c, p)
  BY <1>12, <1>d DEF ForkCopy
<1>13. CASE ForkParent(c, p)
  BY <1>13, <1>d DEF ForkParent
<1>14. CASE ForkRun(c, p)
  BY <1>14, <1>d, <1>e DEF ForkRun
<1>15. CASE Exit(c, p)
  BY <1>15 DEF Exit, Panic
<1>16. CASE Reparent(c, p)
  BY <1>16 DEF Reparent, Inv, InitInv
<1>17. CASE WakeInit(c, p)
  BY <1>17 DEF WakeInit, Wakeup
<1>18. CASE WakeParent(c, p)
  BY <1>18 DEF WakeParent, Wakeup
<1>19. CASE Zombie(c, p)
  BY <1>19 DEF Zombie
<1>20. CASE ExitUnlock(c, p)
  BY <1>20 DEF ExitUnlock
<1>21. CASE Fault(c, p)
  BY <1>21 DEF Fault
<1>22. CASE WaitLock(c, p)
  BY <1>22 DEF WaitLock
<1>23. CASE WaitScan(c, p)
  BY <1>23, <1>f DEF WaitScan, FreeProc, WaitReturn
<1>24. CASE WaitKilled(c, p)
  BY <1>24 DEF WaitKilled, WaitReturn
<1>25. CASE Sleep(c, p)
  BY <1>25 DEF Sleep
<1>26. CASE SleepUnlock(c, p)
  BY <1>26 DEF SleepUnlock
<1>27. CASE SleepSet(c, p)
  BY <1>27 DEF SleepSet
<1>28. CASE Awake(c, p)
  BY <1>28 DEF Awake
<1>29. CASE Kill(c, p)
  BY <1>29 DEF Kill
<1>30. CASE CloseSleep(c, p)
  BY <1>30 DEF CloseSleep
<1>31. CASE CloseWakeup(p)
  BY <1>31 DEF CloseWakeup
<1> QED
  BY <1>1, <1>2, <1>3, <1>4, <1>5, <1>6, <1>7, <1>8, <1>9, <1>10, <1>11, <1>12,
     <1>13, <1>14, <1>15, <1>16, <1>17, <1>18, <1>19, <1>20, <1>21, <1>22, <1>23, <1>24,
     <1>25, <1>26, <1>27, <1>28, <1>29, <1>30, <1>31, ZenonT(30)
     DEF Step, Scheduler, Switch, Work, Environment

(* The child has its parent before fork() makes it RUNNABLE.               *)
LEMMA ForkParentStep ==
  ASSUME Inv, NEW c \in CPU, NEW p \in Slot, Step(c, p)
  PROVE  ForkParentInv'
<1>a. ForkParentInv /\ ForkUnique /\ ForkInv /\ initproc \in Slot /\ Null \notin Slot
  BY NullFacts DEF Inv, HandoverInv, FamilyInv
<1>b. /\ state \in [Slot -> ProcState] /\ pc \in [Slot -> Labels]
      /\ ret \in [Slot -> Preemptible] /\ idx \in [Slot -> Index]
      /\ parent \in [Slot -> Slot \cup {Null}]
  BY DEF Inv, TypeOK
<1>c. /\ On(c, p) => state[p] = RunState(pc[p])
      /\ \A q \in Slot : state[q] \in {"UNUSED", "USED"} => pc[q] \in {"resume", "dead"}
  BY NullFacts DEF Inv, HandoverInv, CpuInv, PcInv, On
<1> USE <1>a, <1>b, <1>c DEF At, On, Goto, IsFree, procVars, cpuVars, locals,
      ForkParentInv, ForkUnique, ForkInv, Forking, Cont, RunState
<1>1. CASE SchedPick(c, p)
  BY <1>1 DEF SchedPick
<1>2. CASE SchedBack(c, p)
  BY <1>2 DEF SchedBack
<1>3. CASE Timer(c, p)
  BY <1>3 DEF Timer, Preemptible
<1>4. CASE Resume(c, p)
  BY <1>4, RetFacts DEF Resume, HoldsWait, Inv
<1>5. CASE Sched(c, p, "sched_yield", "resume")
  BY <1>5, SchedIs
<1>6. CASE Sched(c, p, "sched_sleep", "awake")
  BY <1>6, SchedIs
<1>7. CASE Sched(c, p, "sched_exit", "dead")
  BY <1>7, SchedIs
<1>8. CASE Syscall(c, p)
  BY <1>8 DEF Syscall
<1>9. CASE SyscallRet(c, p)
  BY <1>9 DEF SyscallRet
<1>10. CASE AllocProc(c, p)
  <2>1. CASE idx[p] \in Slot /\ state[idx[p]] = "UNUSED" /\ ~(nextpid > MAXPID)
    <3> idx[p] # p
      BY <1>10, <2>1 DEF AllocProc, CpuInv, RunState
    <3> QED BY <1>10, <2>1 DEF AllocProc, ForkParentInv, Forking, Cont, ForkInv, CpuInv, RunState
  <2>2. CASE UNCHANGED state
    BY <1>10, <2>2 DEF AllocProc, ForkParentInv, Forking, Cont
  <2> QED BY <1>10, <2>1, <2>2 DEF AllocProc
<1>11. CASE ForkFail(c, p)
  BY <1>11 DEF ForkFail, FreeProc
<1>12. CASE ForkCopy(c, p)
  BY <1>12 DEF ForkCopy
<1>13. CASE ForkParent(c, p)
  BY <1>13 DEF ForkParent
<1>14. CASE ForkRun(c, p)
  BY <1>14 DEF ForkRun
<1>15. CASE Exit(c, p)
  BY <1>15 DEF Exit, Panic
<1>16. CASE Reparent(c, p)
  BY <1>16 DEF Reparent
<1>17. CASE WakeInit(c, p)
  BY <1>17 DEF WakeInit, Wakeup
<1>18. CASE WakeParent(c, p)
  BY <1>18 DEF WakeParent, Wakeup
<1>19. CASE Zombie(c, p)
  BY <1>19 DEF Zombie
<1>20. CASE ExitUnlock(c, p)
  BY <1>20 DEF ExitUnlock
<1>21. CASE Fault(c, p)
  BY <1>21 DEF Fault
<1>22. CASE WaitLock(c, p)
  BY <1>22 DEF WaitLock
<1>23. CASE WaitScan(c, p)
  <2>1. CASE UNCHANGED procVars
    BY <1>23, <2>1 DEF WaitScan, WaitReturn
  <2>2. CASE idx[p] \in Slot /\ FreeProc(idx[p]) /\ state[idx[p]] = "ZOMBIE" /\ WaitReturn(p)
    BY <1>23, <2>2 DEF WaitScan, FreeProc, WaitReturn
  <2> QED BY <1>23, <2>1, <2>2 DEF WaitScan
<1>24. CASE WaitKilled(c, p)
  BY <1>24 DEF WaitKilled, WaitReturn
<1>25. CASE Sleep(c, p)
  BY <1>25 DEF Sleep
<1>26. CASE SleepUnlock(c, p)
  BY <1>26 DEF SleepUnlock
<1>27. CASE SleepSet(c, p)
  BY <1>27 DEF SleepSet
<1>28. CASE Awake(c, p)
  BY <1>28 DEF Awake
<1>29. CASE Kill(c, p)
  BY <1>29 DEF Kill
<1>30. CASE CloseSleep(c, p)
  BY <1>30 DEF CloseSleep
<1>31. CASE CloseWakeup(p)
  BY <1>31 DEF CloseWakeup
<1> QED
  BY <1>1, <1>2, <1>3, <1>4, <1>5, <1>6, <1>7, <1>8, <1>9, <1>10, <1>11, <1>12,
     <1>13, <1>14, <1>15, <1>16, <1>17, <1>18, <1>19, <1>20, <1>21, <1>22, <1>23, <1>24,
     <1>25, <1>26, <1>27, <1>28, <1>29, <1>30, <1>31, ZenonT(30)
     DEF Step, Scheduler, Switch, Work, Environment

(* exit() leaves no child behind.                                          *)
LEMMA ReparentStep ==
  ASSUME Inv, NEW c \in CPU, NEW p \in Slot, Step(c, p)
  PROVE  ReparentInv'
<1>a. ReparentInv /\ initproc \in Slot /\ Null \notin Slot
  BY NullFacts DEF Inv, FamilyInv
<1>b. /\ pc \in [Slot -> Labels] /\ idx \in [Slot -> Index]
      /\ parent \in [Slot -> Slot \cup {Null}]
  BY DEF Inv, TypeOK
<1>c. /\ \A q \in Slot : On(c, p) /\ pc[p] \in HoldsWait /\ pc[q] \in HoldsWait => q = p
      /\ pc[initproc] \notin {"reparent", "wake_init", "wake_parent", "zombie",
                              "exit_unlock", "sched_exit", "dead"}
  BY NullFacts DEF Inv, HandoverInv, HeldInv, On, InitInv
<1>d. pc[p] \in {"fork_copy", "fork_parent", "fork_run"} /\ On(c, p) =>
        idx[p] \in Slot /\ \A q \in Slot : parent[q] # idx[p]
  BY NullFacts DEF Inv, FamilyInv, ParentInv, HandoverInv, CpuInv, RunState, ForkInv, Forking,
                   Cont, On
<1> USE <1>a, <1>b, <1>c DEF At, On, Goto, IsFree, procVars, cpuVars, locals,
      ReparentInv, HoldsWait
<1>1. CASE SchedPick(c, p)
  BY <1>1 DEF SchedPick
<1>2. CASE SchedBack(c, p)
  BY <1>2 DEF SchedBack
<1>3. CASE Timer(c, p)
  BY <1>3 DEF Timer, Preemptible
<1>4. CASE Resume(c, p)
  BY <1>4, RetFacts DEF Resume, Inv, HoldsOwn
<1>5. CASE Sched(c, p, "sched_yield", "resume")
  BY <1>5, SchedIs
<1>6. CASE Sched(c, p, "sched_sleep", "awake")
  BY <1>6, SchedIs
<1>7. CASE Sched(c, p, "sched_exit", "dead")
  BY <1>7, SchedIs
<1>8. CASE Syscall(c, p)
  BY <1>8 DEF Syscall
<1>9. CASE SyscallRet(c, p)
  BY <1>9 DEF SyscallRet
<1>10. CASE AllocProc(c, p)
  BY <1>10 DEF AllocProc
<1>11. CASE ForkFail(c, p)
  BY <1>11, <1>d DEF ForkFail, FreeProc
<1>12. CASE ForkCopy(c, p)
  BY <1>12, <1>d DEF ForkCopy
<1>13. CASE ForkParent(c, p)
  BY <1>13 DEF ForkParent
<1>14. CASE ForkRun(c, p)
  BY <1>14, <1>d DEF ForkRun
<1>15. CASE Exit(c, p)
  BY <1>15, SlotFacts DEF Exit, Panic
<1>16. CASE Reparent(c, p)
  <2> SUFFICES ASSUME NEW a \in Slot, NEW b \in Slot, parent'[b] = a
               PROVE  /\ pc'[a] \notin {"wake_parent", "zombie", "exit_unlock", "sched_exit", "dead"}
                      /\ pc'[a] = "reparent" => b >= idx'[a]
                      /\ pc'[a] = "wake_init" => b > idx'[a]
    OBVIOUS
  <2> idx[p] \in Nat /\ b \in Nat /\ b <= NPROC /\ NPROC \in Nat
    BY SlotFacts, ZenonT(30)
  <2>1. CASE a = p
    <3>1. p # initproc /\ pc[p] = "reparent"
      BY <1>16 DEF Reparent
    <3>2. parent[b] = p
      BY <1>16, <2>1, <3>1 DEF Reparent
    <3>3. b >= idx[p]
      BY <3>1, <3>2
    <3> QED BY <1>16, <2>1, <3>1, <3>2, <3>3 DEF Reparent
  <2>2. CASE a # p
    <3>1. pc'[a] = pc[a] /\ idx'[a] = idx[a]
      BY <1>16, <2>2 DEF Reparent
    <3>2. parent[b] = a \/ a = initproc
      BY <1>16 DEF Reparent
    <3> QED BY <3>1, <3>2
  <2> QED BY <2>1, <2>2
<1>17. CASE WakeInit(c, p)
  <2>1. /\ At(c, p, "wake_init") /\ parent' = parent
        /\ \/ pc' = pc /\ idx' = idx
           \/ pc' = [pc EXCEPT ![p] = "reparent"] /\ idx' = [idx EXCEPT ![p] = @ + 1]
    BY <1>17 DEF WakeInit, Wakeup
  <2>2. \A q \in Slot : idx[p] \in Nat /\ q \in Nat
    BY SlotFacts
  <2> QED BY <2>1, <2>2
<1>18. CASE WakeParent(c, p)
  BY <1>18 DEF WakeParent, Wakeup
<1>19. CASE Zombie(c, p)
  BY <1>19 DEF Zombie
<1>20. CASE ExitUnlock(c, p)
  BY <1>20 DEF ExitUnlock
<1>21. CASE Fault(c, p)
  BY <1>21 DEF Fault
<1>22. CASE WaitLock(c, p)
  BY <1>22 DEF WaitLock
<1>23. CASE WaitScan(c, p)
  BY <1>23 DEF WaitScan, FreeProc, WaitReturn
<1>24. CASE WaitKilled(c, p)
  BY <1>24 DEF WaitKilled, WaitReturn
<1>25. CASE Sleep(c, p)
  BY <1>25 DEF Sleep
<1>26. CASE SleepUnlock(c, p)
  BY <1>26 DEF SleepUnlock
<1>27. CASE SleepSet(c, p)
  BY <1>27 DEF SleepSet
<1>28. CASE Awake(c, p)
  BY <1>28 DEF Awake
<1>29. CASE Kill(c, p)
  BY <1>29 DEF Kill
<1>30. CASE CloseSleep(c, p)
  BY <1>30 DEF CloseSleep
<1>31. CASE CloseWakeup(p)
  BY <1>31 DEF CloseWakeup
<1> QED
  BY <1>1, <1>2, <1>3, <1>4, <1>5, <1>6, <1>7, <1>8, <1>9, <1>10, <1>11, <1>12,
     <1>13, <1>14, <1>15, <1>16, <1>17, <1>18, <1>19, <1>20, <1>21, <1>22, <1>23, <1>24,
     <1>25, <1>26, <1>27, <1>28, <1>29, <1>30, <1>31, ZenonT(30)
     DEF Step, Scheduler, Switch, Work, Environment

-----------------------------------------------------------------------------
(* Wakeups.                                                                *)

(* Whoever sleeps, sleeps in wait() or closes files in exit().             *)
LEMMA ChanStep ==
  ASSUME Inv, NEW c \in CPU, NEW p \in Slot, Step(c, p)
  PROVE  ChanInv'
<1>a. ChanInv
  BY DEF Inv, WakeInv
<1>b. state \in [Slot -> ProcState] /\ chan \in [Slot -> Slot \cup {Null, Files}]
  BY DEF Inv, TypeOK
<1>c. On(c, p) => state[p] = RunState(pc[p])
  BY NullFacts DEF Inv, HandoverInv, CpuInv, On
<1> USE <1>a, <1>b, <1>c DEF At, On, Goto, IsFree, procVars, cpuVars, locals,
      ChanInv, RunState
<1>1. CASE SchedPick(c, p)
  BY <1>1 DEF SchedPick
<1>2. CASE SchedBack(c, p)
  BY <1>2 DEF SchedBack
<1>3. CASE Timer(c, p)
  BY <1>3 DEF Timer, Preemptible
<1>4. CASE Resume(c, p)
  BY <1>4 DEF Resume
<1>5. CASE Sched(c, p, "sched_yield", "resume")
  BY <1>5, SchedIs
<1>6. CASE Sched(c, p, "sched_sleep", "awake")
  BY <1>6, SchedIs
<1>7. CASE Sched(c, p, "sched_exit", "dead")
  BY <1>7, SchedIs
<1>8. CASE Syscall(c, p)
  BY <1>8 DEF Syscall
<1>9. CASE SyscallRet(c, p)
  BY <1>9 DEF SyscallRet
<1>10. CASE AllocProc(c, p)
  BY <1>10 DEF AllocProc
<1>11. CASE ForkFail(c, p)
  BY <1>11 DEF ForkFail, FreeProc
<1>12. CASE ForkCopy(c, p)
  BY <1>12 DEF ForkCopy
<1>13. CASE ForkParent(c, p)
  BY <1>13 DEF ForkParent
<1>14. CASE ForkRun(c, p)
  BY <1>14 DEF ForkRun
<1>15. CASE Exit(c, p)
  BY <1>15 DEF Exit, Panic
<1>16. CASE Reparent(c, p)
  BY <1>16 DEF Reparent
<1>17. CASE WakeInit(c, p)
  BY <1>17 DEF WakeInit, Wakeup
<1>18. CASE WakeParent(c, p)
  BY <1>18 DEF WakeParent, Wakeup
<1>19. CASE Zombie(c, p)
  BY <1>19 DEF Zombie
<1>20. CASE ExitUnlock(c, p)
  BY <1>20 DEF ExitUnlock
<1>21. CASE Fault(c, p)
  BY <1>21 DEF Fault
<1>22. CASE WaitLock(c, p)
  BY <1>22 DEF WaitLock
<1>23. CASE WaitScan(c, p)
  BY <1>23 DEF WaitScan, FreeProc, WaitReturn
<1>24. CASE WaitKilled(c, p)
  BY <1>24 DEF WaitKilled, WaitReturn
<1>25. CASE Sleep(c, p)
  BY <1>25 DEF Sleep
<1>26. CASE SleepUnlock(c, p)
  BY <1>26 DEF SleepUnlock
<1>27. CASE SleepSet(c, p)
  BY <1>27 DEF SleepSet
<1>28. CASE Awake(c, p)
  BY <1>28 DEF Awake
<1>29. CASE Kill(c, p)
  BY <1>29 DEF Kill
<1>30. CASE CloseSleep(c, p)
  BY <1>30 DEF CloseSleep
<1>31. CASE CloseWakeup(p)
  BY <1>31 DEF CloseWakeup
<1> QED
  BY <1>1, <1>2, <1>3, <1>4, <1>5, <1>6, <1>7, <1>8, <1>9, <1>10, <1>11, <1>12,
     <1>13, <1>14, <1>15, <1>16, <1>17, <1>18, <1>19, <1>20, <1>21, <1>22, <1>23, <1>24,
     <1>25, <1>26, <1>27, <1>28, <1>29, <1>30, <1>31, ZenonT(30)
     DEF Step, Scheduler, Switch, Work, Environment

(* wait() passes over no ZOMBIE child.                                     *)
LEMMA ScanStep ==
  ASSUME Inv, NEW c \in CPU, NEW p \in Slot, Step(c, p)
  PROVE  ScanInv'
<1>a. ScanInv /\ initproc \in Slot /\ Null \notin Slot
  BY NullFacts DEF Inv, WakeInv
<1>b. /\ state \in [Slot -> ProcState] /\ pc \in [Slot -> Labels]
      /\ parent \in [Slot -> Slot \cup {Null}] /\ idx \in [Slot -> Index]
  BY DEF Inv, TypeOK
<1>c. /\ On(c, p) => state[p] = RunState(pc[p])
      /\ \A q \in Slot : On(c, p) /\ pc[p] \in HoldsWait /\ pc[q] \in HoldsWait => q = p
  BY NullFacts DEF Inv, HandoverInv, CpuInv, HeldInv, On
<1>d. pc[p] \in {"fork_copy", "fork_parent", "fork_run"} /\ On(c, p) =>
        idx[p] \in Slot /\ state[idx[p]] = "USED"
  BY DEF Inv, HandoverInv, CpuInv, RunState, ForkInv, Forking, Cont, On
<1> USE <1>a, <1>b, <1>c DEF At, On, Goto, IsFree, procVars, cpuVars, locals,
      ScanInv, PassedOver, HoldsWait, RunState
<1>1. CASE SchedPick(c, p)
  BY <1>1 DEF SchedPick
<1>2. CASE SchedBack(c, p)
  BY <1>2 DEF SchedBack
<1>3. CASE Timer(c, p)
  BY <1>3 DEF Timer, Preemptible
<1>4. CASE Resume(c, p)
  BY <1>4, RetFacts DEF Resume, Inv
<1>5. CASE Sched(c, p, "sched_yield", "resume")
  BY <1>5, SchedIs
<1>6. CASE Sched(c, p, "sched_sleep", "awake")
  BY <1>6, SchedIs
<1>7. CASE Sched(c, p, "sched_exit", "dead")
  BY <1>7, SchedIs
<1>8. CASE Syscall(c, p)
  BY <1>8 DEF Syscall
<1>9. CASE SyscallRet(c, p)
  BY <1>9 DEF SyscallRet
<1>10. CASE AllocProc(c, p)
  BY <1>10 DEF AllocProc
<1>11. CASE ForkFail(c, p)
  BY <1>11, <1>d DEF ForkFail, FreeProc
<1>12. CASE ForkCopy(c, p)
  BY <1>12, <1>d DEF ForkCopy
<1>13. CASE ForkParent(c, p)
  BY <1>13, <1>d DEF ForkParent
<1>14. CASE ForkRun(c, p)
  BY <1>14, <1>d DEF ForkRun
<1>15. CASE Exit(c, p)
  BY <1>15 DEF Exit, Panic
<1>16. CASE Reparent(c, p)
  BY <1>16 DEF Reparent
<1>17. CASE WakeInit(c, p)
  BY <1>17 DEF WakeInit, Wakeup
<1>18. CASE WakeParent(c, p)
  BY <1>18 DEF WakeParent, Wakeup
<1>19. CASE Zombie(c, p)
  BY <1>19 DEF Zombie
<1>20. CASE ExitUnlock(c, p)
  BY <1>20 DEF ExitUnlock
<1>21. CASE Fault(c, p)
  BY <1>21 DEF Fault
<1>22. CASE WaitLock(c, p)
  BY <1>22, SlotFacts DEF WaitLock
<1>23. CASE WaitScan(c, p)
  <2> SUFFICES ASSUME NEW a \in Slot, NEW b \in Slot, parent'[b] = a, state'[b] = "ZOMBIE"
               PROVE  ~PassedOver(a, b)'
    OBVIOUS
  <2> idx[p] \in Nat /\ b \in Nat /\ b <= NPROC /\ NPROC \in Nat
    BY SlotFacts, ZenonT(30)
  <2>1. parent[b] = a /\ state[b] = "ZOMBIE"
    BY <1>23 DEF WaitScan, FreeProc
  <2>2. CASE a # p
    BY <1>23, <2>1, <2>2 DEF WaitScan, FreeProc, WaitReturn
  <2>3. CASE a = p /\ idx[p] \notin Slot
    BY <1>23, <2>1, <2>3 DEF WaitScan
  <2>4. CASE a = p /\ WaitReturn(p)
    BY <2>4 DEF WaitReturn
  <2>5. CASE a = p /\ idx[p] \in Slot /\ ~WaitReturn(p)
    <3>1. b # idx[p] /\ idx'[p] = idx[p] + 1 /\ pc[p] = "wait_scan" /\ pc'[p] = "wait_scan"
      BY <1>23, <2>1, <2>5 DEF WaitScan
    <3> QED BY <2>1, <2>5, <3>1
  <2> QED BY <2>2, <2>3, <2>4, <2>5
<1>24. CASE WaitKilled(c, p)
  BY <1>24 DEF WaitKilled, WaitReturn
<1>25. CASE Sleep(c, p)
  BY <1>25 DEF Sleep
<1>26. CASE SleepUnlock(c, p)
  BY <1>26 DEF SleepUnlock
<1>27. CASE SleepSet(c, p)
  BY <1>27 DEF SleepSet
<1>28. CASE Awake(c, p)
  BY <1>28 DEF Awake
<1>29. CASE Kill(c, p)
  BY <1>29 DEF Kill
<1>30. CASE CloseSleep(c, p)
  BY <1>30 DEF CloseSleep
<1>31. CASE CloseWakeup(p)
  BY <1>31 DEF CloseWakeup
<1> QED
  BY <1>1, <1>2, <1>3, <1>4, <1>5, <1>6, <1>7, <1>8, <1>9, <1>10, <1>11, <1>12,
     <1>13, <1>14, <1>15, <1>16, <1>17, <1>18, <1>19, <1>20, <1>21, <1>22, <1>23, <1>24,
     <1>25, <1>26, <1>27, <1>28, <1>29, <1>30, <1>31, ZenonT(30)
     DEF Step, Scheduler, Switch, Work, Environment

(* Only wait() ends a ZOMBIE.                                              *)
LEMMA ReapStep ==
  ASSUME Inv, NEW c \in CPU, NEW p \in Slot, Step(c, p)
  PROVE  Reap
<1>b. state \in [Slot -> ProcState]
  BY DEF Inv, TypeOK
<1>c. /\ On(c, p) => state[p] = RunState(pc[p])
      /\ \A q \in Slot : pc[q] \in HoldsWait => wait_lock \in CPU /\ On(wait_lock, q)
      /\ On(c, p) /\ pc[p] = "wait_scan" => wait_lock = c
  BY NullFacts DEF Inv, HandoverInv, CpuInv, HeldInv, On, HoldsWait
<1>d. pc[p] \in {"fork_copy", "fork_parent", "fork_run"} /\ On(c, p) =>
        idx[p] \in Slot /\ state[idx[p]] = "USED"
  BY DEF Inv, HandoverInv, CpuInv, RunState, ForkInv, Forking, Cont, On
<1> USE <1>b, <1>c DEF At, On, Goto, IsFree, procVars, cpuVars, locals,
      Reap, RunState
<1>1. CASE SchedPick(c, p)
  BY <1>1 DEF SchedPick
<1>2. CASE SchedBack(c, p)
  BY <1>2 DEF SchedBack
<1>3. CASE Timer(c, p)
  BY <1>3 DEF Timer, Preemptible
<1>4. CASE Resume(c, p)
  BY <1>4 DEF Resume
<1>5. CASE Sched(c, p, "sched_yield", "resume")
  BY <1>5, SchedIs
<1>6. CASE Sched(c, p, "sched_sleep", "awake")
  BY <1>6, SchedIs
<1>7. CASE Sched(c, p, "sched_exit", "dead")
  BY <1>7, SchedIs
<1>8. CASE Syscall(c, p)
  BY <1>8 DEF Syscall
<1>9. CASE SyscallRet(c, p)
  BY <1>9 DEF SyscallRet
<1>10. CASE AllocProc(c, p)
  BY <1>10 DEF AllocProc
<1>11. CASE ForkFail(c, p)
  BY <1>11, <1>d DEF ForkFail, FreeProc
<1>12. CASE ForkCopy(c, p)
  BY <1>12, <1>d DEF ForkCopy
<1>13. CASE ForkParent(c, p)
  BY <1>13, <1>d DEF ForkParent
<1>14. CASE ForkRun(c, p)
  BY <1>14, <1>d DEF ForkRun
<1>15. CASE Exit(c, p)
  BY <1>15 DEF Exit, Panic
<1>16. CASE Reparent(c, p)
  BY <1>16 DEF Reparent
<1>17. CASE WakeInit(c, p)
  BY <1>17 DEF WakeInit, Wakeup
<1>18. CASE WakeParent(c, p)
  BY <1>18 DEF WakeParent, Wakeup
<1>19. CASE Zombie(c, p)
  BY <1>19 DEF Zombie
<1>20. CASE ExitUnlock(c, p)
  BY <1>20 DEF ExitUnlock
<1>21. CASE Fault(c, p)
  BY <1>21 DEF Fault
<1>22. CASE WaitLock(c, p)
  BY <1>22 DEF WaitLock
<1>23. CASE WaitScan(c, p)
  BY <1>23 DEF WaitScan, FreeProc, WaitReturn
<1>24. CASE WaitKilled(c, p)
  BY <1>24 DEF WaitKilled, WaitReturn
<1>25. CASE Sleep(c, p)
  BY <1>25 DEF Sleep
<1>26. CASE SleepUnlock(c, p)
  BY <1>26 DEF SleepUnlock
<1>27. CASE SleepSet(c, p)
  BY <1>27 DEF SleepSet
<1>28. CASE Awake(c, p)
  BY <1>28 DEF Awake
<1>29. CASE Kill(c, p)
  BY <1>29 DEF Kill
<1>30. CASE CloseSleep(c, p)
  BY <1>30 DEF CloseSleep
<1>31. CASE CloseWakeup(p)
  BY <1>31 DEF CloseWakeup
<1> QED
  BY <1>1, <1>2, <1>3, <1>4, <1>5, <1>6, <1>7, <1>8, <1>9, <1>10, <1>11, <1>12,
     <1>13, <1>14, <1>15, <1>16, <1>17, <1>18, <1>19, <1>20, <1>21, <1>22, <1>23, <1>24,
     <1>25, <1>26, <1>27, <1>28, <1>29, <1>30, <1>31, ZenonT(30)
     DEF Step, Scheduler, Switch, Work, Environment

(* wakeup() in exit() reaches a parent that sleeps, or that is about to.   *)
LEMMA AsleepStep ==
  ASSUME Inv, NEW c \in CPU, NEW p \in Slot, Step(c, p)
  PROVE  AsleepInv'
<1>a. /\ AsleepInv /\ ScanInv /\ ChanInv
      /\ initproc \in Slot /\ Null \notin Slot /\ Files \notin Slot /\ Files # Null
  BY NullFacts DEF Inv, WakeInv
<1>b. /\ state \in [Slot -> ProcState] /\ pc \in [Slot -> Labels]
      /\ parent \in [Slot -> Slot \cup {Null}] /\ chan \in [Slot -> Slot \cup {Null, Files}]
      /\ idx \in [Slot -> Index] /\ widx \in [Slot -> Index]
  BY DEF Inv, TypeOK
<1>c. /\ On(c, p) => state[p] = RunState(pc[p])
      /\ \A q \in Slot : On(c, p) /\ pc[p] \in HoldsWait /\ pc[q] \in HoldsWait => q = p
      /\ \A q \in Slot : lock[q] = NoCpu => pc[q] \notin {"sleep_set", "sched_sleep"}
      /\ \A q \in Slot : pc[q] \notin {"wake_init", "wake_parent"} => widx[q] = 1
  BY NullFacts DEF Inv, HandoverInv, CpuInv, HeldInv, On, LoopInv, HoldsOwn
<1>d. pc[p] \in {"fork_copy", "fork_parent", "fork_run"} /\ On(c, p) =>
        idx[p] \in Slot /\ state[idx[p]] = "USED" /\ pc[idx[p]] \in {"resume", "dead"}
  BY DEF Inv, HandoverInv, CpuInv, PcInv, RunState, ForkInv, Forking, Cont, On
<1> USE <1>a, <1>b, <1>c DEF At, On, Goto, IsFree, procVars, cpuVars, locals,
      ChanInv, ScanInv, AsleepInv, PassedOver, Asleep, Notified, Handing,
      HoldsWait, RunState
<1>1. CASE SchedPick(c, p)
  BY <1>1 DEF SchedPick
<1>2. CASE SchedBack(c, p)
  BY <1>2 DEF SchedBack
<1>3. CASE Timer(c, p)
  BY <1>3 DEF Timer, Preemptible
<1>4. CASE Resume(c, p)
  BY <1>4, RetFacts DEF Resume, Inv, HoldsOwn
<1>5. CASE Sched(c, p, "sched_yield", "resume")
  BY <1>5, SchedIs
<1>6. CASE Sched(c, p, "sched_sleep", "awake")
  BY <1>6, SchedIs
<1>7. CASE Sched(c, p, "sched_exit", "dead")
  BY <1>7, SchedIs
<1>8. CASE Syscall(c, p)
  BY <1>8 DEF Syscall
<1>9. CASE SyscallRet(c, p)
  BY <1>9 DEF SyscallRet
<1>10. CASE AllocProc(c, p)
  BY <1>10 DEF AllocProc
<1>11. CASE ForkFail(c, p)
  BY <1>11, <1>d DEF ForkFail, FreeProc
<1>12. CASE ForkCopy(c, p)
  BY <1>12, <1>d DEF ForkCopy
<1>13. CASE ForkParent(c, p)
  BY <1>13, <1>d DEF ForkParent
<1>14. CASE ForkRun(c, p)
  BY <1>14, <1>d DEF ForkRun
<1>15. CASE Exit(c, p)
  BY <1>15 DEF Exit, Panic
<1>16. CASE Reparent(c, p)
  BY <1>16, SlotFacts DEF Reparent
<1>17. CASE WakeInit(c, p)
  BY <1>17, SlotFacts DEF WakeInit, Wakeup
<1>18. CASE WakeParent(c, p)
  <2> SUFFICES ASSUME NEW a \in Slot, NEW b \in Slot, parent[b] = a, Asleep(a)'
         PROVE  /\ ~Notified(b, a)'
                /\ state'[b] = "ZOMBIE" => a = initproc /\ Handing'
     BY <1>18 DEF AsleepInv, WakeParent, Wakeup
  <2> HIDE DEF RunState, ScanInv, PassedOver
  <2>1. Asleep(a) /\ ~Notified(b, a) /\ (state[b] = "ZOMBIE" => a = initproc /\ Handing)
    BY <1>18 DEF AsleepInv, WakeParent, Wakeup, Asleep
  <2>2. state'[b] = "ZOMBIE" => state[b] = "ZOMBIE"
    BY <1>18 DEF WakeParent, Wakeup
  <2>3. Handing => Handing'
    BY <1>18 DEF WakeParent, Wakeup, Handing
  <2>4. b # p => ~Notified(b, a)'
    BY <1>18, <2>1 DEF WakeParent, Wakeup, Notified
  <2>5. b = p => ~Notified(b, a)'
    <3> SUFFICES ASSUME b = p PROVE ~Notified(b, a)'
      OBVIOUS
    <3> widx[p] \in Nat /\ a \in Nat /\ a <= NPROC /\ NPROC \in Nat
      BY SlotFacts, ZenonT(30)
    <3>1. widx[p] <= a
      BY <1>18, <2>1 DEF WakeParent, Wakeup, Notified
    <3>2. CASE widx[p] = a
      <4> widx[p] \in Slot /\ ~(widx[p] > NPROC)
        BY <3>2
      <4>1. a # p
        BY <1>18, <2>1 DEF WakeParent, Wakeup, Asleep
      <4>2. pc[a] = "awake" /\ state[a] = "SLEEPING" /\ chan[a] = parent[p]
        BY <1>18, <2>1, <3>2, <4>1 DEF WakeParent, Wakeup, Asleep
      <4>3. state'[a] = "RUNNABLE" /\ pc'[a] = "awake"
        BY <1>18, <3>2, <4>1, <4>2 DEF WakeParent, Wakeup
      <4> QED BY <4>3 DEF Asleep
    <3>3. CASE widx[p] < a
      BY <1>18, <3>3 DEF WakeParent, Wakeup, Notified
    <3> QED BY <3>1, <3>2, <3>3
  <2> QED BY <2>1, <2>2, <2>3, <2>4, <2>5
<1>19. CASE Zombie(c, p)
  BY <1>19 DEF Zombie
<1>20. CASE ExitUnlock(c, p)
  BY <1>20 DEF ExitUnlock
<1>21. CASE Fault(c, p)
  BY <1>21 DEF Fault
<1>22. CASE WaitLock(c, p)
  BY <1>22 DEF WaitLock
<1>23. CASE WaitScan(c, p)
  BY <1>23 DEF WaitScan, FreeProc, WaitReturn
<1>24. CASE WaitKilled(c, p)
  BY <1>24 DEF WaitKilled, WaitReturn
<1>25. CASE Sleep(c, p)
  BY <1>25 DEF Sleep
<1>26. CASE SleepUnlock(c, p)
  BY <1>26 DEF SleepUnlock
<1>27. CASE SleepSet(c, p)
  BY <1>27 DEF SleepSet
<1>28. CASE Awake(c, p)
  BY <1>28 DEF Awake
<1>29. CASE Kill(c, p)
  BY <1>29 DEF Kill
<1>30. CASE CloseSleep(c, p)
  BY <1>30 DEF CloseSleep
<1>31. CASE CloseWakeup(p)
  BY <1>31 DEF CloseWakeup
<1> QED
  BY <1>1, <1>2, <1>3, <1>4, <1>5, <1>6, <1>7, <1>8, <1>9, <1>10, <1>11, <1>12,
     <1>13, <1>14, <1>15, <1>16, <1>17, <1>18, <1>19, <1>20, <1>21, <1>22, <1>23, <1>24,
     <1>25, <1>26, <1>27, <1>28, <1>29, <1>30, <1>31, ZenonT(30)
     DEF Step, Scheduler, Switch, Work, Environment

(* The state userinit() sets up satisfies the invariant.                   *)
LEMMA InitHolds == Init => Inv
<1> SUFFICES ASSUME Init PROVE Inv
  OBVIOUS
<1> USE NullFacts DEF Init
<1>1. TypeOK
  <2> 1 \in Index /\ 1 \in Nat /\ 2 \in Nat /\ 0 \in Nat
    BY SlotFacts
  <2> QED BY DEF TypeOK, ProcState, Labels, Preemptible
<1>2. HandoverInv
  BY DEF HandoverInv, CpuInv, PcInv, HeldInv, LoopInv, LockInv, ForkInv, ForkUnique,
         Forking, Cont, HoldsOwn, HoldsWait, RunState, On
<1>3. InitInv /\ FamilyInv
  BY DEF InitInv, FamilyInv, ParentInv, ForkParentInv, ReparentInv, Forking, Cont
<1>4. WakeInv
  BY DEF WakeInv, ChanInv, ScanInv, AsleepInv, Asleep, PassedOver, Notified
<1> QED BY <1>1, <1>2, <1>3, <1>4 DEF Inv

(* Inv is inductive.                                                       *)
LEMMA InvStep == Inv /\ [Next]_vars => Inv'
<1> SUFFICES ASSUME Inv, [Next]_vars PROVE Inv'
  OBVIOUS
<1>1. CASE Next
  <2> PICK c \in CPU, p \in Slot : Step(c, p)
    BY <1>1 DEF Next
  <2>1. HandoverInv'
    BY CpuStep, PcStep, HeldStep, LoopStep, LockStep, ForkStep, UniqueStep DEF HandoverInv
  <2>2. FamilyInv'
    BY ParentStep, ForkParentStep, ReparentStep DEF FamilyInv
  <2>3. WakeInv'
    BY ChanStep, ScanStep, AsleepStep DEF WakeInv
  <2> QED BY TypeStep, InitStep, <2>1, <2>2, <2>3 DEF Inv
<1>2. CASE UNCHANGED vars
  <2> USE <1>2 DEF vars, procVars, cpuVars, locals
  <2>1. TypeOK'
    BY DEF Inv, TypeOK
  <2>2. HandoverInv'
    <3>1. CpuInv' /\ PcInv'
      BY SMTT(20) DEF Inv, HandoverInv, CpuInv, PcInv
    <3>2. HeldInv' /\ LoopInv' /\ LockInv'
      BY SMTT(20) DEF Inv, HandoverInv, HeldInv, LoopInv, LockInv, On
    <3>3. ForkInv' /\ ForkUnique'
      BY SMTT(20) DEF Inv, HandoverInv, ForkInv, ForkUnique, Forking, Cont, On
    <3> QED BY <3>1, <3>2, <3>3, SMTT(20) DEF HandoverInv
  <2>3. InitInv' /\ FamilyInv'
    BY DEF Inv, InitInv, FamilyInv, ParentInv, ForkParentInv, ReparentInv, Forking, Cont
  <2>4. WakeInv'
    BY DEF Inv, WakeInv, ChanInv, ScanInv, AsleepInv, Asleep, PassedOver, Notified, Handing
  <2> QED BY <2>1, <2>2, <2>3, <2>4 DEF Inv
<1> QED BY <1>1, <1>2

(* Inv holds in every reachable state of the process table.                *)
THEOREM Invariance == Spec => []Inv
BY InitHolds, InvStep, PTL DEF Spec

(* The fields of struct proc, the CPUs and the locals of kernel threads    *)
(* stay in range.                                                          *)
THEOREM TypeCorrect == Spec => []TypeOK
BY Invariance, PTL DEF Inv

(* No kernel stack is ever used by two CPUs, nor freed while it is in use: *)
(* the hand-over of p->lock across swtch() is sound.                       *)
THEOREM StackSafety == Spec => []KernelStackExclusive
<1>1. Inv => KernelStackExclusive
  BY NullFacts DEF Inv, HandoverInv, TypeOK, CpuInv, RunState, KernelStackExclusive
<1> QED BY <1>1, Invariance, PTL

(* No panic of sched() or of exit() is reachable but "init exiting".       *)
THEOREM PanicSafety == Spec => []OnlyInitPanics
<1>1. Inv => OnlyInitPanics
  BY NullFacts, SMTT(20) DEF Inv, HandoverInv, TypeOK, CpuInv, PcInv, RunState, OnlyInitPanics
<1> QED BY <1>1, Invariance, PTL

(* wait() and exit() lose no wakeup.                                       *)
THEOREM WakeupSafety == Spec => []NoLostWakeup
<1>1. Inv => NoLostWakeup
  BY NullFacts, ZenonT(30) DEF Inv, HandoverInv, WakeInv, AsleepInv, Asleep, Handing, PcInv,
     HeldInv, HoldsOwn,
                   HoldsWait, NoLostWakeup, IsFree
<1> QED BY <1>1, Invariance, PTL

(* A process that can still be reaped has a parent that can still wait.    *)
THEOREM ParentSafety == Spec => []ParentAlive
<1>1. Inv => ParentAlive
  BY DEF Inv, HandoverInv, FamilyInv, ParentInv, ReparentInv, PcInv, TypeOK, ProcState, ParentAlive
<1> QED BY <1>1, Invariance, PTL

(* Who holds a p->lock is not about to acquire any lock.                   *)
LEMMA LockHolder ==
  ASSUME Inv, NEW d \in CPU, NEW q \in Slot, lock[q] = d
  PROVE  ~WantsWaitLock(d) /\ \A r \in Slot : ~WantsLock(d, r)
<1>1. cpc[d] = "run" => pc[cproc[d]] \in HoldsOwn \cup {"fork_copy"}
  BY DEF Inv, HandoverInv, LockInv
<1> QED BY <1>1 DEF WantsWaitLock, WantsLock, HoldsOwn, Preemptible

(* Who holds wait_lock is not about to acquire it again.                   *)
LEMMA WaitLockHolder ==
  ASSUME Inv, NEW d \in CPU, wait_lock = d
  PROVE  ~WantsWaitLock(d)
<1>1. cpc[d] = "run" => pc[cproc[d]] \in HoldsWait
  BY DEF Inv, HandoverInv, LockInv
<1> QED BY <1>1 DEF WantsWaitLock, HoldsWait

(* wait_lock and the p->lock of every slot are acquired in one order, so   *)
(* that no CPUs spin for each other.                                       *)
THEOREM LockOrder == Spec => []NoCircularWait
<1>1. ASSUME Inv, NEW c \in CPU, NEW d \in CPU, NEW e \in CPU, NEW f \in CPU,
             WaitsFor(c, d), WaitsFor(d, e), WaitsFor(e, f)
      PROVE  FALSE
  <2>1. \A q \in Slot : lock[q] # d /\ lock[q] # e
    BY <1>1, LockHolder DEF WaitsFor
  <2>2. wait_lock = d /\ wait_lock = e
    BY <1>1, <2>1 DEF WaitsFor
  <2> QED BY <1>1, <2>1, <2>2, WaitLockHolder DEF WaitsFor
<1>2. Inv => NoCircularWait
  BY <1>1 DEF NoCircularWait
<1> QED BY <1>2, Invariance, PTL

(* Only wait(), run by the parent under wait_lock, removes a ZOMBIE.       *)
THEOREM ReapSafety == Spec => ReapedByParent
<1>1. Inv /\ [Next]_vars => [Reap]_vars
  BY ReapStep DEF Next
<1> QED BY <1>1, Invariance, PTL DEF Spec, ReapedByParent
=============================================================================
