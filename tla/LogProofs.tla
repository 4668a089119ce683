----------------------------- MODULE LogProofs ------------------------------
(***************************************************************************)
(* Proofs about Log: the part of Inv (module LogInv) about installation,   *)
(* the safety properties, and that Log implements AtomicDisk: every step   *)
(* of the log, of a crash and of the recovery after it is a step of        *)
(* AtomicDisk or leaves its state alone.                                   *)
(***************************************************************************)
EXTENDS LogSteps

\* InstallInv of the next state, from its parts.
LEMMA InstallIntro ==
  ASSUME cpc' = "write_log" => \A i \in 1..n' : i < tail' => dlog'[i] = cache'[block'[i]],
         cpc' = "install" => \A i \in 1..n' : i >= tail' => dlog'[i] = cache'[block'[i]],
         cpc' \in {"install", "recover"} => \A i \in 1..n' : i < tail' => dlog'[i] = disk'[block'[i]],
         \A i \in 1..dn' : dlog'[i] \in Data,
         \A b \in Block : disk'[b] = Torn =>
           ~Booted' /\ \E i \in 1..dn' : dblock'[i] = b /\ (cpc' = "recover" => i >= tail')
  PROVE  InstallInv'
BY DEF InstallInv

\* With both headers empty and no block torn there is nothing to install.
LEMMA NothingToInstall ==
  ASSUME \A b \in Block : disk'[b] # Torn, dn' = 0, cpc' \notin {"install", "recover"},
         cpc' = "write_log" => tail' = 1
  PROVE  InstallInv'
<1>1. \A i \in 1..dn' : FALSE
  OBVIOUS
<1>2. cpc' = "write_log" => \A i \in 1..n' : ~(i < tail')
  OBVIOUS
<1> QED BY <1>1, <1>2 DEF InstallInv

\* The log is complete before the header names it, and installed before it is erased.
LEMMA InstallStep ==
  ASSUME Inv, [Next]_vars
  PROVE  InstallInv'
<1>a. TypeOK /\ HeadInv /\ PhaseInv /\ BufInv /\ CacheInv /\ InstallInv
  BY DEF Inv
<1> USE <1>a
<1>y. /\ n \in Nat /\ tail \in Nat \ {0} /\ dn \in Nat
      /\ dlog \in [DSlots -> Data \cup {Torn}] /\ block \in [Slots -> Block \cup {Absent}]
      /\ disk \in [Block -> Data \cup {Torn}] /\ cache \in [Block -> Data \cup {Absent}]
      /\ buf \in [Op -> Block \cup {Absent}] /\ pinned \in SUBSET Block
  BY LogAssumption DEF TypeOK
<1>h. /\ n <= SIZE - 1 /\ \A i \in 1..n : block[i] \in Block
      /\ \A i, j \in 1..n : block[i] = block[j] => i = j
      /\ dn # 0 => cpc \in {"install", "read_head", "recover"}
      /\ cpc \in {"install", "recover"} => dn = n /\ dblock = block
      /\ cpc \in {"read_head", "done"} => n = 0
  BY Zenon DEF HeadInv
<1>c. /\ \A b \in pinned : cache[b] # Absent
      /\ ~Booted => pinned = {}
      /\ Booted => \A b \in Block :
           b \in pinned <=> \E i \in 1..n : block[i] = b /\ (cpc = "install" => i >= tail)
      /\ \A b \in Block : cache[b] = Absent \/ cache[b] = disk[b] \/ b \in pinned
                          \/ \E o \in Op : buf[o] = b
  BY Zenon DEF CacheInv
<1>i. /\ cpc = "write_log" => \A i \in 1..n : i < tail => dlog[i] = cache[block[i]]
      /\ cpc = "install" => \A i \in 1..n : i >= tail => dlog[i] = cache[block[i]]
      /\ cpc \in {"install", "recover"} => \A i \in 1..n : i < tail => dlog[i] = disk[block[i]]
      /\ \A i \in 1..dn : dlog[i] \in Data
      /\ \A b \in Block : disk[b] = Torn =>
           ~Booted /\ \E i \in 1..dn : dblock[i] = b /\ (cpc = "recover" => i >= tail)
  BY Zenon DEF InstallInv
<1>j. cpc = "install" => \A i \in 1..n : i >= tail => dlog[i] = cache[block[i]]
  BY <1>i
<1>k. cpc \in {"install", "recover"} => \A i \in 1..n : i < tail => dlog[i] = disk[block[i]]
  BY <1>i
<1>t. \A b \in Block : disk[b] = Torn =>
        ~Booted /\ \E i \in 1..dn : dblock[i] = b /\ (cpc = "recover" => i >= tail)
  BY <1>i
<1>1. ASSUME NEW o \in Op, BeginOp(o) PROVE InstallInv'
  <2>1. UNCHANGED <<cpc, n, tail, dlog, cache, block, disk, dn, dblock>>
    BY <1>1 DEF BeginOp, diskVars
  <2> QED BY <2>1, <1>i, InstallIntro, Zenon DEF Booted
<1>2. ASSUME NEW o \in Op, LogWrite(o) PROVE InstallInv'
  <2>1. /\ cpc = "none" /\ dn = 0 /\ cpc' \notin {"install", "recover"}
        /\ cpc' = "write_log" => tail' = 1
    BY <1>2, <1>h, SMTT(20) DEF PhaseInv, Running, Booted, LogWrite
  <2>2. UNCHANGED <<disk, dn>> /\ \A a \in Block : disk[a] # Torn
    BY <1>2, <2>1, <1>i DEF Booted, LogWrite, diskVars
  <2> QED BY <2>1, <2>2, NothingToInstall
<1>3. ASSUME NEW o \in Op, EndOp(o) PROVE InstallInv'
  <2>1. /\ cpc = "none" /\ dn = 0 /\ cpc' \notin {"install", "recover"}
        /\ cpc' = "write_log" => tail' = 1
    BY <1>3, <1>h, SMTT(20) DEF PhaseInv, Running, Booted, EndOp
  <2>2. UNCHANGED <<disk, dn>> /\ \A a \in Block : disk[a] # Torn
    BY <1>3, <2>1, <1>i DEF Booted, EndOp, diskVars
  <2> QED BY <2>1, <2>2, NothingToInstall
<1>4. ASSUME NEW o \in Op, EndCommit(o) PROVE InstallInv'
  <2>1. dn = 0 /\ cpc = "done" /\ cpc' = "none" /\ UNCHANGED <<disk, dn>>
    BY <1>4, <1>h DEF EndCommit, diskVars
  <2>2. \A a \in Block : disk[a] # Torn
    BY <2>1, <1>i DEF Booted
  <2> QED BY <2>1, <2>2, NothingToInstall
<1>5. ASSUME NEW o \in Op, NEW b \in Block, NEW d \in Data, Update(o, b, d) PROVE InstallInv'
  <2>1. /\ cpc = "none" /\ dn = 0 /\ cpc' \notin {"install", "recover"}
        /\ cpc' = "write_log" => tail' = 1
    BY <1>5, <1>h, ZenonT(30) DEF PhaseInv, Running, Booted, Update
  <2>2. UNCHANGED <<disk, dn>> /\ \A a \in Block : disk[a] # Torn
    BY <1>5, <2>1, <1>i DEF Booted, Update, diskVars
  <2> QED BY <2>1, <2>2, NothingToInstall
<1>6. CASE WriteLog
  <2>1. /\ cpc = "write_log" /\ tail \in 1..n /\ tail \in DSlots /\ block[tail] \in Block
        /\ dn = 0 /\ n \in Nat
    BY <1>6, LogAssumption, <1>h, <1>y DEF WriteLog, DSlots
  <2>2. cache[block[tail]] # Absent
    BY <2>1, <1>c DEF Booted
  <2>3. cache' = cache /\ dlog' = [dlog EXCEPT ![tail] = cache[block[tail]]]
    BY <1>6, <2>1, <2>2, <1>y, SMTT(20) DEF WriteLog, Bread
  <2>4. \A i \in 1..n : i \in DSlots /\ (i < tail' => i < tail \/ i = tail)
    BY <1>6, <2>1, LogAssumption, <1>h, <1>y, SMTT(20) DEF WriteLog, DSlots
  <2>5. \A i \in 1..n : i < tail' => dlog'[i] = cache'[block[i]]
    BY <2>1, <2>3, <2>4, <1>i, <1>y
  <2>6. UNCHANGED <<cpc, n, block, dn, dblock, disk>>
    BY <1>6 DEF WriteLog
  <2>7. cpc' = "write_log" /\ dn' = 0 /\ Booted /\ Booted' /\ n' = n /\ block' = block /\ disk' = disk
    BY <2>1, <2>6, Zenon DEF Booted
  <2>8. \A b \in Block : disk'[b] # Torn
    BY <2>7, <1>i, Zenon
  <2>9. \A i \in 1..dn' : dlog'[i] \in Data
    BY <2>7, SMTT(20)
  <2>10. \A i \in 1..n' : i < tail' => dlog'[i] = cache'[block'[i]]
    BY <2>5, <2>7, Zenon
  <2>11. cpc' # "install" /\ cpc' \notin {"install", "recover"}
    BY <2>7, Zenon
  <2> QED
    BY <2>8, <2>9, <2>10, <2>11, InstallIntro, ZenonT(30)
<1>7. CASE WriteHead
  <2>1. /\ cpc = "write_log" /\ cpc' = "install" /\ tail > n /\ tail' = 1
        /\ dn' = n /\ dblock' = block /\ UNCHANGED <<disk, dlog, cache, n, block>>
    BY <1>7, SMTT(20) DEF WriteHead
  <2>2. \A i \in 1..n : i < tail /\ ~(i < tail') /\ dlog[i] = cache[block[i]]
    BY <2>1, <1>i, <1>y, SMTT(20)
  <2>3. \A i \in 1..n : cache[block[i]] \in Data
    BY <2>1, <1>y, <1>h, <1>c, SMTT(20) DEF Booted
  <2> QED
    BY <2>1, <2>2, <2>3, <1>i, InstallIntro DEF Booted
<1>8. CASE InstallTrans(FALSE)
  <2>1. /\ tail \in 1..n /\ cpc = "install" /\ cpc' = "install" /\ tail' = tail + 1 /\ dn = n
        /\ UNCHANGED <<n, block, dlog, dn, dblock>>
    BY <1>8, <1>y, <1>h DEF InstallTrans
  <2>2. /\ \A i \in 1..n : block[i] \in Block /\ (block[i] = block[tail] => i = tail)
        /\ dlog[tail] \in Data
    BY <2>1, <1>i, <1>h, Zenon
  <2>3. \A a \in Block : IF a = block[tail] THEN disk'[a] = dlog[tail] /\ cache'[a] = dlog[tail]
                         ELSE UNCHANGED <<disk[a], cache[a]>>
    BY <1>8, <2>1, <1>y DEF InstallTrans
  <2>4. \A i \in 1..n : i >= tail' => dlog[i] = cache'[block[i]]
    BY <2>1, <2>2, <2>3, <1>j
  <2>5. \A i \in 1..n : i < tail' => dlog[i] = disk'[block[i]]
    BY <2>1, <2>2, <2>3, <1>k
  <2>6. \A a \in Block : disk'[a] # Torn
    BY <2>1, <2>2, <2>3, LogAssumption, <1>t DEF Booted
  <2> QED BY <2>1, <2>4, <2>5, <2>6, <1>i, InstallIntro
<1>9. CASE Erase
  <2>1. /\ tail > n /\ dn' = 0 /\ cpc' \in {"done", "none"} /\ disk' = disk
        /\ cpc \in {"install", "recover"} /\ dn = n
    BY <1>9, <1>h DEF Erase
  <2>2. \A a \in Block : disk[a] # Torn
    BY <2>1, <1>t, <1>y DEF Booted
  <2> QED BY <2>1, <2>2, NothingToInstall
<1>10. CASE ReadHead
  <2>1. /\ cpc = "read_head" /\ cpc' = "recover" /\ tail' = 1
        /\ UNCHANGED <<disk, dlog, dn, dblock>>
    BY <1>10 DEF ReadHead, diskVars
  <2>2. \A i \in 1..n' : ~(i < tail')
    BY <2>1
  <2>3. \A a \in Block : disk'[a] = Torn => \E i \in 1..dn' : dblock'[i] = a /\ i >= tail'
    BY <2>1, <1>i
  <2> QED BY <2>1, <2>2, <2>3, <1>i, InstallIntro DEF Booted
<1>11. CASE InstallTrans(TRUE)
  <2>1. /\ tail \in 1..n /\ cpc = "recover" /\ cpc' = "recover" /\ tail' = tail + 1 /\ dn = n
        /\ dblock = block /\ UNCHANGED <<n, block, dlog, dn, dblock>>
    BY <1>11, <1>y, <1>h DEF InstallTrans
  <2>2. /\ \A i \in 1..n : block[i] \in Block /\ (block[i] = block[tail] => i = tail)
        /\ dlog[tail] \in Data /\ Torn \notin Data
    BY <2>1, LogAssumption, <1>i, <1>h, Zenon
  <2>3. \A a \in Block : IF a = block[tail] THEN disk'[a] = dlog[tail] ELSE disk'[a] = disk[a]
    BY <1>11, <2>1, <1>y DEF InstallTrans
  <2>4. \A i \in 1..n : i < tail' => dlog[i] = disk'[block[i]]
    BY <2>1, <2>2, <2>3, <1>k
  <2>5. \A a \in Block : disk'[a] = Torn => \E i \in 1..dn : dblock[i] = a /\ i >= tail'
    BY <2>1, <2>2, <2>3, <1>t
  <2>6. ~Booted' /\ \A i \in 1..dn : dlog[i] \in Data
    BY <2>1, <1>i DEF Booted
  <2> QED BY <2>1, <2>4, <2>5, <2>6, InstallIntro
<1>12. ASSUME NEW b \in Block, Read(b) PROVE InstallInv'
  <2>1. \A i \in 1..n : Booted /\ (cpc = "install" => i >= tail) => block[i] # b
    BY <1>12, <1>c, ZenonT(30) DEF Read
  <2>2. UNCHANGED <<disk, dlog, dn, dblock, n, block, cpc, tail>>
    BY <1>12 DEF Read, diskVars
  <2>3. \A i \in 1..n : Booted /\ (cpc = "install" => i >= tail) =>
          cache'[block[i]] = cache[block[i]]
    BY <1>12, <2>1, <1>y, <1>h DEF Read
  <2> QED BY <2>2, <2>3, <1>i, InstallIntro DEF Booted
<1>13. ASSUME NEW b \in Block, Evict(b) PROVE InstallInv'
  <2>1. \A i \in 1..n : Booted /\ (cpc = "install" => i >= tail) => block[i] # b
    BY <1>13, <1>c, SMTT(20) DEF Evict
  <2>2. UNCHANGED <<disk, dlog, dn, dblock, n, block, cpc, tail>>
    BY <1>13 DEF Evict, diskVars
  <2>3. \A i \in 1..n : Booted /\ (cpc = "install" => i >= tail) =>
          cache'[block[i]] = cache[block[i]]
    BY <1>13, <2>1, <1>y, <1>h DEF Evict
  <2> QED BY <2>2, <2>3, <1>i, InstallIntro DEF Booted
<1>14. CASE Crash
  <2>1. cpc' = "read_head" /\ ~Booted' /\ UNCHANGED <<dn, dblock>>
    BY <1>14 DEF Crash, Booted
  <2>2. \A i \in 1..dn : dlog'[i] \in Data
    BY <1>14, <1>i, <1>h DEF Crash
  <2>3. \A a \in Block : disk'[a] = Torn =>
          disk[a] = Torn \/ (cpc \in {"install", "recover"} /\ tail \in 1..n /\ a = block[tail])
    BY <1>14, <1>y DEF Crash
  <2>4. \A a \in Block : disk'[a] = Torn => \E i \in 1..dn : dblock[i] = a
    BY <2>3, <1>t, <1>h
  <2> QED BY <2>1, <2>2, <2>4, InstallIntro
<1>15. CASE UNCHANGED vars
  BY <1>15, LogAssumption, Zenon DEF vars, diskVars, opVars, InstallInv, Booted
<1> QED
  BY <1>1, <1>2, <1>3, <1>4, <1>5, <1>6, <1>7, <1>8, <1>9, <1>10, <1>11, <1>12, <1>13, <1>14,
     <1>15, ZenonT(30) DEF Next, Operation, Committer, Recovery

\* A disk fresh from mkfs, before boot, satisfies the invariant.
LEMMA InitHolds == Init => Inv
<1> SUFFICES ASSUME Init PROVE Inv
  OBVIOUS
<1>1. TypeOK
  <2>1. /\ disk \in [Block -> Data \cup {Torn}] /\ dlog \in [DSlots -> Data \cup {Torn}]
        /\ dblock \in [Slots -> Block \cup {Absent}] /\ block \in [Slots -> Block \cup {Absent}]
        /\ cache \in [Block -> Data \cup {Absent}]
        /\ buf \in [Op -> Block \cup {Absent}] /\ wrote \in [Op -> SUBSET Block]
        /\ pc \in [Op -> {"idle", "asleep", "op", "dirty", "commit"}]
    BY DEF Init, NoBlocks
  <2>2. dn \in 0..LOGSIZE /\ n \in 0..LOGSIZE /\ tail \in 1..(LOGSIZE + 1)
    BY LogAssumption DEF Init
  <2> QED
    BY <2>1, <2>2, ZenonT(30) DEF Init, TypeOK
<1>2. Running = {} /\ ~Booted
  BY DEF Init, Running, Booted
<1>3. PhaseInv
  BY <1>2, FS_EmptySet DEF Init, PhaseInv, Booted
<1>4. HeadInv /\ BufInv
  BY LogAssumption, SMTT(20) DEF Init, HeadInv, BufInv
<1>5. CacheInv /\ InstallInv /\ SleeperHasWaker
  BY LogAssumption, SMTT(30) DEF Init, CacheInv, InstallInv, SleeperHasWaker, Booted
<1> QED
  BY <1>1, <1>3, <1>4, <1>5 DEF Inv

LEMMA InvStep == Inv /\ [Next]_vars => Inv'
BY TypeStep, HeadStep, PhaseStep, BufStep, CacheStep, InstallStep, WakeStep, Zenon DEF Inv

\* The invariant holds in every state the log can reach.
THEOREM LogInvariance == Spec => []Inv
BY InitHolds, InvStep, PTL DEF Spec

\* Type correctness of the log; a torn block is never read into the cache.
THEOREM LogTypeCorrect == Spec => []TypeOK
BY LogInvariance, PTL DEF Inv

\* begin_op(): no process sleeps without an operation or a commit that will
\* wake it, for any number of processes and any log size.
THEOREM LogWakeup == Spec => []SleeperHasWaker
BY LogInvariance, PTL DEF Inv

\* end_op(): when the last operation has returned from its commit, all that
\* was written is at its home location and the log is empty.
THEOREM LogDurability == Spec => []EndedIsDurable
<1>1. ASSUME Inv PROVE EndedIsDurable
  <2> SUFFICES ASSUME Booted, outstanding = 0, ~committing
               PROVE  n = 0 /\ dn = 0 /\ pinned = {} /\ \A b \in Block : disk[b] = Bread(b)
    BY SMTT(20) DEF EndedIsDurable
  <2>1. cpc = "none" /\ Running = {}
    <3>1. TypeOK /\ PhaseInv
      BY <1>1 DEF Inv
    <3> QED
      BY <1>1, <3>1, RunningFacts DEF PhaseInv, Booted, TypeOK
  <2>2. n = 0 /\ dn = 0
    BY <1>1, <2>1, SMTT(20) DEF Inv, PhaseInv, HeadInv
  <2>3. pinned = {} /\ \A o \in Op : buf[o] = Absent
    BY <1>1, <2>1, <2>2 DEF Inv, CacheInv, BufInv, Running, TypeOK
  <2> QED
    BY <1>1, <2>2, <2>3, LogAssumption DEF Inv, CacheInv, Bread
<1> QED
  BY <1>1, LogInvariance, PTL

-----------------------------------------------------------------------------

\* The header names a block once, so that the recovered contents are unique.
LEMMA UniqueIndex ==
  ASSUME NEW k, NEW f, NEW i \in 1..k, \A x, y \in 1..k : f[x] = f[y] => x = y
  PROVE  (CHOOSE j \in 1..k : f[j] = f[i]) = i
OBVIOUS

\* What recovery makes of the blocks in the on-disk header, and of others.
LEMMA RecoveredFacts ==
  ASSUME HeadInv
  PROVE  /\ \A i \in 1..dn : Recovered(dblock[i]) = dlog[i]
         /\ \A b \in Block : (\A i \in 1..dn : dblock[i] # b) => Recovered(b) = disk[b]
<1>1. \A i \in 1..dn : Recovered(dblock[i]) = dlog[i]
  <2>1. TAKE i \in 1..dn
  <2>2. (CHOOSE j \in 1..dn : dblock[j] = dblock[i]) = i
    BY UniqueIndex DEF HeadInv
  <2> QED
    BY <2>2, Zenon DEF Recovered
<1>2. \A b \in Block : (\A i \in 1..dn : dblock[i] # b) => Recovered(b) = disk[b]
  BY DEF Recovered
<1> QED
  BY <1>1, <1>2

\* The same in the next state.
LEMMA RecoveredNext ==
  ASSUME HeadInv'
  PROVE  /\ \A i \in 1..dn' : Recovered(dblock[i])' = dlog'[i]
         /\ \A b \in Block : (\A i \in 1..dn' : dblock'[i] # b) => Recovered(b)' = disk'[b]
<1>1. \A i \in 1..dn' : Recovered(dblock[i])' = dlog'[i]
  <2>1. TAKE i \in 1..dn'
  <2>2. (CHOOSE j \in 1..dn' : dblock'[j] = dblock'[i]) = i
    BY UniqueIndex DEF HeadInv
  <2> QED
    BY <2>2, Zenon DEF Recovered
<1>2. \A b \in Block : (\A i \in 1..dn' : dblock'[i] # b) => Recovered(b)' = disk'[b]
  BY DEF Recovered
<1> QED
  BY <1>1, <1>2

\* Every step of the log is a step of AtomicDisk, or leaves its state alone.
LEMMA RefineStep ==
  ASSUME Inv, HeadInv', [Next]_vars
  PROVE  AD!ADNext \/ UNCHANGED AD!adVars
<1>a. TypeOK /\ HeadInv /\ PhaseInv /\ BufInv /\ CacheInv /\ InstallInv
  BY DEF Inv
<1> USE <1>a
<1>y. /\ n \in Nat /\ tail \in Nat \ {0} /\ dn \in Nat
      /\ disk \in [Block -> Data \cup {Torn}] /\ cache \in [Block -> Data \cup {Absent}]
      /\ dlog \in [DSlots -> Data \cup {Torn}] /\ block \in [Slots -> Block \cup {Absent}]
      /\ pc \in [Op -> {"idle", "asleep", "op", "dirty", "commit"}]
      /\ pinned \in SUBSET Block
      /\ cpc \in {"none", "write_log", "install", "done", "read_head", "recover"}
  BY LogAssumption DEF TypeOK
<1>h. /\ \A i \in 1..n : block[i] \in Block
      /\ \A i, j \in 1..n : block[i] = block[j] => i = j
      /\ dn # 0 => cpc \in {"install", "read_head", "recover"}
      /\ cpc \in {"install", "recover"} => dn = n /\ dblock = block
      /\ cpc \in {"read_head", "done"} => n = 0
  BY Zenon DEF HeadInv
<1>1. ASSUME NEW o \in Op, BeginOp(o) PROVE AD!ADNext \/ UNCHANGED AD!adVars
  <2>1. Stable' = Stable /\ Cur' = Cur
    BY <1>1 DEF BeginOp, Stable, Cur, Recovered, Bread, Booted, diskVars
  <2>2. CASE committing \/ n + (outstanding + 1) * MAXOPBLOCKS > LOGSIZE
    <3>1. Running' = Running
      BY <1>1, <2>2, <1>y DEF BeginOp, Running
    <3> QED
      BY <2>1, <3>1 DEF AD!adVars
  <2>3. CASE ~(committing \/ n + (outstanding + 1) * MAXOPBLOCKS > LOGSIZE)
    <3>1. o \notin Running /\ Running' = Running \cup {o}
      BY <1>1, <2>3, <1>y DEF BeginOp, Running
    <3>2. ASSUME Running = {} PROVE Stable = Cur
      <4>1. cpc = "none" /\ n = 0 /\ dn = 0
        BY <1>1, <2>3, <3>2, <1>y, <1>h, SMTT(20) DEF BeginOp, PhaseInv, Booted
      <4>2. \A b \in Block : cache[b] = Absent \/ cache[b] = disk[b]
        <5>1. pinned = {} /\ \A p \in Op : buf[p] = Absent
          BY <3>2, <4>1, <1>y, SMTT(20) DEF CacheInv, BufInv, Booted, Running
        <5> QED
          BY <5>1, LogAssumption DEF CacheInv
      <4>3. \A b \in Block : Recovered(b) = disk[b]
        <5>1. 1..dn = {}
          BY <4>1
        <5> QED
          BY <5>1, RecoveredFacts, Zenon
      <4> QED
        BY <4>1, <4>2, <4>3, SMTT(20) DEF Stable, Cur, Bread, Booted
    <3> QED
      BY <2>1, <3>1, <3>2 DEF AD!ADNext, AD!Begin
  <2> QED
    BY <2>2, <2>3, SMTT(20)
<1>2. ASSUME NEW o \in Op, LogWrite(o) PROVE AD!ADNext \/ UNCHANGED AD!adVars
  <2>1. Stable' = Stable /\ Cur' = Cur
    BY <1>2, ZenonT(30) DEF LogWrite, Stable, Cur, Recovered, Bread, Booted, diskVars
  <2>2. Running' = Running
    BY <1>2, <1>y DEF LogWrite, Running
  <2> QED
    BY <2>1, <2>2 DEF AD!adVars
<1>3. ASSUME NEW o \in Op, EndOp(o) PROVE AD!ADNext \/ UNCHANGED AD!adVars
  <2>1. o \in Running
    BY <1>3 DEF EndOp, Running
  <2>2. cpc = "none" /\ ~committing /\ Booted /\ Booted'
    BY <1>3, <2>1, SMTT(20) DEF PhaseInv, EndOp, Booted
  <2>3. Running' = Running \ {o}
    BY <1>3, <2>2, <1>y, ZenonT(30) DEF EndOp, Running, WakeAll
  <2>4. Stable' = Stable /\ Cur' = Cur
    BY <1>3, <2>2 DEF EndOp, Stable, Cur, Recovered, Bread, diskVars
  <2> QED
    BY <2>1, <2>3, <2>4 DEF AD!ADNext, AD!End
<1>4. ASSUME NEW o \in Op, EndCommit(o) PROVE AD!ADNext \/ UNCHANGED AD!adVars
  <2>1. Stable' = Stable /\ Cur' = Cur
    BY <1>4 DEF EndCommit, Stable, Cur, Recovered, Bread, Booted, diskVars
  <2>2. Running' = Running
    BY <1>4, <1>y DEF EndCommit, Running, WakeAll
  <2> QED
    BY <2>1, <2>2 DEF AD!adVars
<1>5. ASSUME NEW o \in Op, NEW b \in Block, NEW d \in Data, Update(o, b, d) PROVE AD!ADNext \/ UNCHANGED AD!adVars
  <2>1. o \in Running /\ Running' = Running
    BY <1>5, <1>y DEF Update, Running
  <2>2. Booted /\ Booted'
    BY <1>5, <2>1 DEF Update, PhaseInv, Booted
  <2>3. Stable' = Stable
    BY <1>5, SMTT(20) DEF Update, Stable, Recovered, diskVars
  <2>4. \A x \in Block : Bread(x)' = IF x = b THEN d ELSE Bread(x)
    BY <1>5, LogAssumption, <1>y DEF Update, Bread, diskVars
  <2>5. Cur' = [Cur EXCEPT ![b] = d]
    BY <2>2, <2>4, ZenonT(30) DEF Cur
  <2> QED
    BY <2>1, <2>3, <2>5, ZenonT(30) DEF AD!ADNext, AD!Write
<1>6. CASE WriteLog
  <2>1. cpc = "write_log" /\ dn = 0 /\ UNCHANGED <<disk, dn, dblock, cpc, pc>> /\ tail \in 1..n
    BY <1>6, <1>y, <1>h, SMTT(30) DEF WriteLog, opVars
  <2>2. block[tail] \in Block /\ cache[block[tail]] # Absent
    BY <2>1, <1>h, ZenonT(30) DEF CacheInv, Booted
  <2>3. cache' = cache
    BY <1>6, <2>2, <1>y DEF WriteLog, Bread
  <2>4. Stable' = Stable
    BY <2>1, SMTT(20) DEF Stable, Recovered
  <2>5. Cur' = Cur /\ Running' = Running
    BY <2>1, <2>3 DEF Cur, Bread, Booted, Running
  <2> QED
    BY <2>4, <2>5 DEF AD!adVars
<1>7. CASE WriteHead
  <2>1. /\ cpc = "write_log" /\ cpc' = "install" /\ tail > n /\ dn' = n /\ dblock' = block
        /\ UNCHANGED <<disk, dlog, cache, block, pc>>
    BY <1>7, SMTT(20) DEF WriteHead, opVars
  <2>2. Running = {} /\ Running' = Running /\ Cur' = Cur
    BY <2>1, ZenonT(30) DEF PhaseInv, Running, Cur, Bread, Booted
  <2>3. ASSUME NEW i \in 1..n PROVE Recovered(block[i])' = Bread(block[i])
    <3>1. dlog[i] = cache[block[i]] /\ cache[block[i]] # Absent
      BY <2>1, <1>y, <1>h, SMTT(20) DEF InstallInv, CacheInv, Booted
    <3>2. Recovered(dblock[i])' = dlog'[i]
      BY <2>1, RecoveredNext, ZenonT(30)
    <3>3. Recovered(dblock[i])' = Recovered(block[i])'
      BY <2>1, Zenon DEF Recovered
    <3> QED
      BY <2>1, <3>1, <3>2, <3>3, SMTT(20) DEF Bread
  <2>4. ASSUME NEW b \in Block, \A i \in 1..n : block[i] # b PROVE Recovered(b)' = Bread(b)
    <3>1. Recovered(b)' = disk[b]
      BY <2>1, <2>4, RecoveredNext
    <3>2. cache[b] = Absent \/ cache[b] = disk[b]
      <4>1. b \notin pinned /\ \A p \in Op : buf[p] = Absent
        BY <2>1, <2>2, <2>4 DEF CacheInv, BufInv, Booted, Running
      <4> QED
        BY <4>1, LogAssumption, SMTT(20) DEF CacheInv
    <3> QED
      BY <3>1, <3>2, SMTT(20) DEF Bread
  <2>5. Stable' = Cur
    <3>1. \A b \in Block : Recovered(b)' = Bread(b)
      <4>1. TAKE b \in Block
      <4>2. CASE \E i \in 1..n : block[i] = b
        <5>1. PICK i \in 1..n : block[i] = b
          BY <4>2
        <5>2. Recovered(block[i])' = Recovered(b)'
          BY <2>1, <5>1 DEF Recovered
        <5> QED
          BY <2>3, <5>1, <5>2
      <4> QED
        BY <2>4, <4>2
    <3> QED
      BY <2>1, <3>1 DEF Stable, Cur, Booted
  <2> QED
    BY <2>2, <2>5 DEF AD!ADNext, AD!Commit
<1>8. CASE InstallTrans(FALSE)
  <2>1. /\ cpc = "install" /\ tail \in 1..n /\ dn = n /\ dblock = block /\ block[tail] \in Block
        /\ UNCHANGED <<dlog, dn, dblock, cpc, pc>>
    BY <1>8, <1>y, <1>h, SMTT(30) DEF InstallTrans, opVars
  <2>2. /\ disk' = [disk EXCEPT ![block[tail]] = dlog[tail]]
        /\ cache' = [cache EXCEPT ![block[tail]] = dlog[tail]]
    BY <1>8 DEF InstallTrans
  <2>3. Running' = Running
    BY <2>1 DEF Running
  <2>4. Stable' = Stable
    BY <2>1, <2>2, <1>y, SMTT(20) DEF Stable, Recovered
  <2>5. dlog[tail] = cache[block[tail]] /\ dlog[tail] # Absent
    BY <2>1, LogAssumption, <1>y, SMTT(20) DEF InstallInv
  <2>6. cache' = cache
    BY <2>1, <2>2, <2>5, <1>y, SMTT(20)
  <2>7. \A b \in Block : Bread(b)' = Bread(b)
    BY <2>1, <2>2, <2>5, <2>6, <1>y DEF Bread
  <2>8. Cur' = Cur
    BY <2>1, <2>7 DEF Cur, Booted
  <2> QED
    BY <2>3, <2>4, <2>8, SMTT(20) DEF AD!adVars
<1>9. CASE Erase
  <2>1. /\ cpc \in {"install", "recover"} /\ tail > n /\ dn = n /\ dblock = block /\ dn' = 0
        /\ UNCHANGED <<disk, dlog, cache, pc>> /\ Booted'
    BY <1>9, <1>h DEF Erase, opVars, Booted
  <2>2. Running' = Running
    BY <2>1, SMTT(20) DEF Running
  <2>3. \A i \in 1..n : dlog[i] = disk[block[i]]
    BY <2>1, <1>y DEF InstallInv
  <2>4. \A b \in Block : Recovered(b) = disk[b]
    BY <2>1, <2>3, RecoveredFacts
  <2>5. \A b \in Block : Recovered(b)' = disk[b]
    BY <2>1, RecoveredNext
  <2>6. Stable' = Stable
    BY <2>4, <2>5 DEF Stable
  <2>7. CASE cpc = "install"
    <3>1. Cur' = Cur
      BY <2>1, <2>7, SMTT(20) DEF Cur, Bread, Booted
    <3> QED
      BY <2>2, <2>6, <3>1 DEF AD!adVars
  <2>8. CASE cpc = "recover"
    <3>1. \A b \in Block : cache[b] = Absent \/ cache[b] = disk[b]
      <4>1. pinned = {} /\ \A p \in Op : buf[p] = Absent
        BY <2>8, SMTT(20) DEF CacheInv, BufInv, PhaseInv, Booted
      <4> QED
        BY <4>1, LogAssumption, SMTT(20) DEF CacheInv
    <3>2. Cur' = Cur
      BY <2>1, <2>4, <2>8, <3>1 DEF Cur, Bread, Booted
    <3> QED
      BY <2>2, <2>6, <3>2 DEF AD!adVars
  <2> QED
    BY <2>1, <2>7, <2>8, SMTT(20)
<1>10. CASE ReadHead
  <2>1. Stable' = Stable /\ Cur' = Cur /\ Running' = Running
    BY <1>10, SMTT(20) DEF ReadHead, Stable, Cur, Recovered, Booted, Running, diskVars, opVars
  <2> QED
    BY <2>1, SMTT(20) DEF AD!adVars
<1>11. CASE InstallTrans(TRUE)
  <2>1. /\ cpc = "recover" /\ tail \in 1..n /\ dn = n /\ dblock = block /\ block[tail] \in Block
        /\ UNCHANGED <<dlog, dn, dblock, cpc, pc>>
    BY <1>11, <1>y, <1>h, SMTT(20) DEF InstallTrans, opVars
  <2>2. /\ disk' = [disk EXCEPT ![block[tail]] = dlog[tail]]
        /\ cache' = [cache EXCEPT ![block[tail]] = dlog[tail]]
    BY <1>11 DEF InstallTrans
  <2>3. Running' = Running
    BY <2>1 DEF Running
  <2>4. Stable' = Stable
    BY <2>1, <2>2, <1>y DEF Stable, Recovered
  <2>5. Cur' = Cur
    BY <2>1, <2>4 DEF Cur, Stable, Booted
  <2> QED
    BY <2>3, <2>4, <2>5 DEF AD!adVars
<1>12. ASSUME NEW b \in Block, Read(b) PROVE AD!ADNext \/ UNCHANGED AD!adVars
  <2>1. Stable' = Stable /\ Running' = Running
    BY <1>12, SMTT(20) DEF Read, Stable, Recovered, Running, diskVars, opVars
  <2>2. \A x \in Block : Bread(x)' = Bread(x)
    BY <1>12, <1>y, SMTT(20) DEF Read, Bread, diskVars
  <2>3. Cur' = Cur
    BY <1>12, <2>2, SMTT(20) DEF Read, Cur, Booted
  <2> QED
    BY <2>1, <2>3 DEF AD!adVars
<1>13. ASSUME NEW b \in Block, Evict(b) PROVE AD!ADNext \/ UNCHANGED AD!adVars
  <2>1. Stable' = Stable /\ Running' = Running
    BY <1>13, SMTT(20) DEF Evict, Stable, Recovered, Running, diskVars, opVars
  <2>2. cache[b] = disk[b]
    BY <1>13 DEF Evict, CacheInv
  <2>3. \A x \in Block : Bread(x)' = Bread(x)
    BY <1>13, <2>2, <1>y, SMTT(20) DEF Evict, Bread, diskVars
  <2>4. Cur' = Cur
    BY <1>13, <2>1, <2>3, Zenon DEF Evict, Cur, Stable, Recovered, Booted, diskVars
  <2> QED
    BY <2>1, <2>4 DEF AD!adVars
<1>14. CASE Crash
  <2>1. UNCHANGED <<dn, dblock>> /\ Running' = {} /\ ~Booted'
    BY <1>14 DEF Crash, Running, Booted
  <2>2. Stable' = Stable
    <3>1. CASE UNCHANGED <<disk, dlog>>
      BY <2>1, <3>1, SMTT(20) DEF Stable, Recovered
    <3>2. CASE cpc = "write_log" /\ UNCHANGED disk
      BY <2>1, <3>2, <1>h, SMTT(20) DEF Stable, Recovered
    <3>3. CASE /\ cpc \in {"install", "recover"} /\ tail <= n /\ UNCHANGED dlog
               /\ disk' = [disk EXCEPT ![block[tail]] = Torn]
      <4>1. tail \in 1..dn /\ dblock[tail] = block[tail]
        BY <3>3, <1>y, <1>h, SMTT(30)
      <4> QED
        BY <2>1, <3>3, <4>1, <1>y, SMTT(20) DEF Stable, Recovered
    <3> QED
      BY <1>14, <3>1, <3>2, <3>3, SMTT(20) DEF Crash
  <2>3. Cur' = Stable
    BY <2>1, <2>2, SMTT(20) DEF Cur, Stable
  <2> QED
    BY <2>1, <2>2, <2>3 DEF AD!ADNext, AD!Crash
<1>15. CASE UNCHANGED vars
  BY <1>15, Zenon DEF vars, diskVars, opVars, AD!adVars, Stable, Cur, Recovered, Bread, Booted,
     Running
<1> QED
  BY <1>1, <1>2, <1>3, <1>4, <1>5, <1>6, <1>7, <1>8, <1>9, <1>10, <1>11, <1>12, <1>13, <1>14,
     <1>15, Zenon DEF Next, Operation, Committer, Recovery

\* Crash atomicity: for any processes, blocks and log size, the log with its
\* crashes and its recovery implements AtomicDisk.
THEOREM LogRefinesAtomicDisk == Spec => CrashAtomic
<1>1. ASSUME Init PROVE AD!ADInit
  <2>1. dn = 0 /\ ~Booted /\ disk \in [Block -> Data]
    BY <1>1 DEF Init, Booted
  <2>2. Cur = disk /\ Stable = disk
    BY <2>1 DEF Cur, Stable, Recovered
  <2>3. Running = {}
    BY <1>1 DEF Init, Running
  <2> QED
    BY <2>1, <2>2, <2>3 DEF AD!ADInit
<1>2. ASSUME Inv, Inv', [Next]_vars PROVE [AD!ADNext]_(AD!adVars)
  BY <1>2, RefineStep DEF Inv
<1> QED
  BY <1>1, <1>2, LogInvariance, PTL DEF Spec, CrashAtomic, AD!ADSpec
=============================================================================
