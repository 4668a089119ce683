-------------------------------- MODULE Cfs --------------------------------
(***************************************************************************)
(* The scheduling policy that is compiled in (SCHEDULER_TYPE 2 of          *)
(* scheduler() in kernel/proc.c): cfsScheduler(), getMinVruntime(), and    *)
(* everything that writes the fields they read: the counting of ticks in   *)
(* update_ticks() and wakeup(), set_cfs_priority() and fork().             *)
(*                                                                         *)
(* The counters rtime, stime and retime are kept as "has counted": with    *)
(* the decay the code computes, 1 for cfs_priority 0 and else 0, vruntime  *)
(* tells only zero from non-zero.  Of a pid only whether it is above       *)
(* EXEMPT matters, so that nextpid stops there and fork() goes on for ever. *)
(* Locks are left to module Proc; a scan of the table by getMinVruntime()  *)
(* is one step.                                                            *)
(***************************************************************************)
EXTENDS Integers

CONSTANTS NPROC,
          CPU, Hart0,   \* Hart0 is the CPU whose timer counts ticks
          Priorities,   \* what user programs pass to set_cfs_priority()
          EXEMPT        \* wakeup() counts ticks for pids above this (4)

ASSUME CfsAssumption ==
  /\ NPROC \in Nat \ {0}
  /\ Hart0 \in CPU
  /\ Priorities \subseteq Int
  /\ EXEMPT \in Nat

VARIABLES
  state, pid, cfs_priority,
  asked,     \* history: what the process last passed to set_cfs_priority()
  ran,       \* rtime > 0
  waited,    \* stime + retime > 0
  newborn,   \* the child whose scheduling fields fork() still has to set
  nextpid,
  cur,       \* c->proc
  at         \* the loop variable of scheduler()

fields == <<pid, cfs_priority, asked, ran, waited, newborn, nextpid>>
vars   == <<state, fields, cur, at>>

Slot == 1..NPROC
None == -1

-----------------------------------------------------------------------------
\* The quotient in cfsScheduler(); RISC-V division by zero gives -1.
Vruntime(p) ==
  IF ~ran[p] /\ ~waited[p] THEN -1
  ELSE IF cfs_priority[p] = 0 /\ ran[p] /\ ~waited[p] THEN 1 ELSE 0

Candidate(p) == state[p] \in {"RUNNABLE", "RUNNING"}

\* Mutant of GetMinVruntime: without the test for 0.
GetMinVruntimeFrom0 ==
  LET min[i \in 0..NPROC] ==
        IF i = 0 THEN 0
        ELSE IF Candidate(i) /\ Vruntime(i) < min[i - 1] THEN Vruntime(i) ELSE min[i - 1]
  IN  min[NPROC]

\* The loop of getMinVruntime(), with 0 as "no value yet".
GetMinVruntime ==
  LET min[i \in 0..NPROC] ==
        IF i = 0 THEN 0
        ELSE IF Candidate(i) /\ (min[i - 1] = 0 \/ Vruntime(i) < min[i - 1])
             THEN Vruntime(i) ELSE min[i - 1]
  IN  min[NPROC]

Init ==
  /\ state = [p \in Slot |-> IF p = 1 THEN "RUNNABLE" ELSE "UNUSED"]
  /\ pid = [p \in Slot |-> IF p = 1 THEN 1 ELSE 0]
  /\ cfs_priority = [p \in Slot |-> IF p = 1 THEN 1 ELSE 0]
  /\ asked = [p \in Slot |-> None]
  /\ ran = [p \in Slot |-> FALSE] /\ waited = [p \in Slot |-> FALSE]
  /\ newborn = [p \in Slot |-> None]
  /\ nextpid = 2
  /\ cur = [c \in CPU |-> None]
  /\ at = [c \in CPU |-> 1]

-----------------------------------------------------------------------------
(* scheduler(), on CPU c.                                                  *)

Eligible(p) == state[p] = "RUNNABLE" /\ Vruntime(p) = GetMinVruntime

NextSlot(p) == (p % NPROC) + 1

\* One iteration: run the process at hand, or go to the next slot.
Scan(c) ==
  /\ cur[c] = None
  /\ IF Eligible(at[c])
     THEN /\ state' = [state EXCEPT ![at[c]] = "RUNNING"]
          /\ cur' = [cur EXCEPT ![c] = at[c]]
          /\ UNCHANGED at
     ELSE at' = [at EXCEPT ![c] = NextSlot(@)] /\ UNCHANGED <<state, cur>>
  /\ UNCHANGED fields

\* The process on c leaves it in state s, and scheduler() goes on.
Leave(c, s) ==
  /\ state' = [state EXCEPT ![cur[c]] = s]
  /\ cur' = [cur EXCEPT ![c] = None]
  /\ at' = [at EXCEPT ![c] = NextSlot(@)]

\* Processes in P are counted by the state they are in.
Count(P) ==
  /\ ran' = [p \in Slot |-> ran[p] \/ (p \in P /\ state[p] = "RUNNING")]
  /\ waited' = [p \in Slot |-> waited[p] \/ (p \in P /\ state[p] \in {"SLEEPING", "RUNNABLE"})]

\* Mutant of Timer: update_ticks() is not called.
TimerUncounted(c) ==
  /\ IF cur[c] = None THEN UNCHANGED <<state, cur, at>> ELSE Leave(c, "RUNNABLE")
  /\ UNCHANGED fields

Sleepers == {p \in Slot : state[p] = "SLEEPING"}

\* A timer interrupt.  On hart 0, clockintr() wakes sleepers of sys_sleep()
\* and update_ticks() counts; then the process that runs here, if any, yields.
Timer(c) ==
  /\ IF c = Hart0 THEN Count(Slot) ELSE UNCHANGED <<ran, waited>>
  /\ \E S \in SUBSET (IF c = Hart0 THEN Sleepers ELSE {}) :
       state' = [p \in Slot |-> IF p \in S \cup {cur[c]} THEN "RUNNABLE" ELSE state[p]]
  /\ IF cur[c] = None THEN UNCHANGED <<cur, at>>
     ELSE cur' = [cur EXCEPT ![c] = None] /\ at' = [at EXCEPT ![c] = NextSlot(@)]
  /\ UNCHANGED <<pid, cfs_priority, asked, newborn, nextpid>>

\* wakeup(), called on some CPU: it counts the late pids once more and wakes
\* the sleepers of one channel.
Wakeup ==
  /\ Count({p \in Slot : pid[p] > EXEMPT})
  /\ \E S \in SUBSET Sleepers :
       state' = [p \in Slot |-> IF p \in S THEN "RUNNABLE" ELSE state[p]]
  /\ UNCHANGED <<pid, cfs_priority, asked, newborn, nextpid, cur, at>>

-----------------------------------------------------------------------------
(* System calls of the process on c.                                       *)

InUser(c) == cur[c] # None /\ newborn[cur[c]] = None

Sleep(c) == InUser(c) /\ Leave(c, "SLEEPING") /\ UNCHANGED fields

\* exit(), up to the wait() of the parent that frees the slot.  The fields
\* of the policy are left as they are.
Exit(c) ==
  /\ InUser(c) /\ cur[c] # 1
  /\ pid' = [pid EXCEPT ![cur[c]] = 0]
  /\ asked' = [asked EXCEPT ![cur[c]] = None]
  /\ Leave(c, "UNUSED")
  /\ UNCHANGED <<cfs_priority, ran, waited, newborn, nextpid>>

\* fork() until the child is RUNNABLE.
Fork(c) ==
  /\ InUser(c)
  /\ \E q \in Slot :
       /\ state[q] = "UNUSED" /\ \A r \in 1..(q - 1) : state[r] # "UNUSED"
       /\ state' = [state EXCEPT ![q] = "RUNNABLE"]
       /\ pid' = [pid EXCEPT ![q] = nextpid]
       /\ newborn' = [newborn EXCEPT ![cur[c]] = q]
  /\ nextpid' = IF nextpid > EXEMPT THEN nextpid ELSE nextpid + 1
  /\ UNCHANGED <<cfs_priority, asked, ran, waited, cur, at>>

\* The assignments at the end of fork(), which hold no lock.
ForkInit(c) ==
  /\ cur[c] # None /\ newborn[cur[c]] # None
  /\ LET np == newborn[cur[c]]
     IN  /\ cfs_priority' = [cfs_priority EXCEPT ![np] = cfs_priority[cur[c]]]
         /\ ran' = [ran EXCEPT ![np] = FALSE]
         /\ waited' = [waited EXCEPT ![np] = FALSE]
  /\ newborn' = [newborn EXCEPT ![cur[c]] = None]
  /\ UNCHANGED <<state, pid, asked, nextpid, cur, at>>

\* set_cfs_priority(k); a value out of range changes nothing.
SetCfsPriority(c) ==
  /\ InUser(c)
  /\ \E k \in Priorities \cap 0..2 : /\ cfs_priority' = [cfs_priority EXCEPT ![cur[c]] = k]
                                     /\ asked' = [asked EXCEPT ![cur[c]] = k]
  /\ UNCHANGED <<state, pid, ran, waited, newborn, nextpid, cur, at>>

-----------------------------------------------------------------------------
Next ==
  \/ \E c \in CPU : \/ Scan(c) \/ Timer(c)
                    \/ Sleep(c) \/ Exit(c) \/ Fork(c) \/ ForkInit(c) \/ SetCfsPriority(c)
  \/ Wakeup

\* scheduler() never stops, the timers tick, and fork() ends.
Spec ==
  /\ Init /\ [][Next]_vars
  /\ \A c \in CPU : WF_vars(Scan(c)) /\ WF_vars(Timer(c)) /\ WF_vars(ForkInit(c))

-----------------------------------------------------------------------------
(* Properties.                                                             *)

\* The machine does not idle for ever: when no process is RUNNING, the value
\* getMinVruntime() returns is the vruntime of a process that can be picked.
SomeoneEligible ==
  (\E p \in Slot : state[p] = "RUNNABLE") /\ (\A p \in Slot : state[p] # "RUNNING")
    => \E p \in Slot : Eligible(p)

\* Every RUNNABLE process gets a CPU.  ("The CFS scheduler is designed to
\* provide fair and balanced CPU allocation to all processes", ANSWERS.txt.)
AllRun == \A p \in Slot : (state[p] = "RUNNABLE") ~> (state[p] # "RUNNABLE")

NoHighPriority == \A p \in Slot : state[p] # "UNUSED" => cfs_priority[p] # 0

\* Nobody starves while no process has cfs_priority 0.  False: a child whose
\* ticks have not been counted has vruntime -1 and goes before all others,
\* and a process that forks one child after the other can be followed by its
\* child each time the scan comes by.
AllRunAtNormal == <>[]NoHighPriority => AllRun

\* Once the forks are over and no process has cfs_priority 0 any more,
\* cfsScheduler() is fair: a fresh process is preferred only until the next
\* tick counts it, and then the scan gets to everyone.
AllRunOnceQuiet == <>[]NoHighPriority /\ <>[][\A c \in CPU : ~Fork(c)]_vars => AllRun

\* set_cfs_priority() sticks: a process that has called it has the priority
\* it asked for.  (user/cfs.c "forks 3 processes with a low, normal and high
\* priority": each child sets its own and expects to run with it.)
PriorityKept == \A p \in Slot : asked[p] # None => cfs_priority[p] = asked[p]

=============================================================================
