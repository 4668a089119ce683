----------------------------- MODULE LogSteps -------------------------------
(***************************************************************************)
(* Inv (module LogInv) is inductive: its parts about types, headers,       *)
(* buffers, phases, sleepers and the cache.  Each has a lemma, with one    *)
(* step per action.                                                        *)
(***************************************************************************)
EXTENDS LogInv, FiniteSetTheorems, TLAPS

\* outstanding counts a finite set, and is positive while o is in it.
LEMMA RunningFacts ==
  ASSUME Inv
  PROVE  /\ IsFiniteSet(Running)
         /\ outstanding \in Nat
         /\ outstanding = 0 <=> Running = {}
         /\ \A o \in Running : IsFiniteSet(Running \ {o})
                              /\ Cardinality(Running \ {o}) = outstanding - 1
         /\ \A o \in Op \ Running : Cardinality(Running \cup {o}) = outstanding + 1
<1>a. PhaseInv
  BY DEF Inv
<1>1. IsFiniteSet(Running)
  BY FS_Subset, LogAssumption DEF Running
<1>2. outstanding \in Nat /\ (outstanding = 0 <=> Running = {})
  BY <1>a, <1>1, FS_CardinalityType, FS_EmptySet DEF PhaseInv
<1>3. \A o \in Running : IsFiniteSet(Running \ {o})
                        /\ Cardinality(Running \ {o}) = outstanding - 1
  BY <1>a, <1>1, FS_RemoveElement DEF PhaseInv
<1>4. \A o \in Op \ Running : Cardinality(Running \cup {o}) = outstanding + 1
  BY <1>a, <1>1, FS_AddElement DEF PhaseInv
<1> QED
  BY <1>1, <1>2, <1>3, <1>4, Zenon

\* Every step keeps the types; a torn block is not read.
LEMMA TypeStep ==
  ASSUME Inv, [Next]_vars
  PROVE  TypeOK'
<1>a. TypeOK /\ HeadInv /\ PhaseInv /\ BufInv /\ InstallInv
  BY DEF Inv
<1> USE <1>a
<1>1. ASSUME NEW o \in Op, BeginOp(o) PROVE TypeOK'
  BY <1>1 DEF TypeOK, BeginOp, diskVars
<1>2. ASSUME NEW o \in Op, LogWrite(o) PROVE TypeOK'
  <2>1. CASE UNCHANGED <<n, block, pinned>>
    BY <1>2, <2>1, Zenon DEF TypeOK, LogWrite, diskVars
  <2>2. CASE ~UNCHANGED <<n, block, pinned>>
    <3>1. /\ n < LOGSIZE /\ buf[o] \in Block \cup {Absent} /\ pc[o] = "dirty"
          /\ n' = n + 1 /\ block' = [block EXCEPT ![n + 1] = buf[o]]
          /\ pinned' = pinned \cup {buf[o]} /\ pc' = [pc EXCEPT ![o] = "op"]
          /\ buf' = [buf EXCEPT ![o] = Absent]
      BY <1>2, <2>2, LogAssumption DEF LogWrite, TypeOK
    <3>2. buf[o] \in Block
      BY <3>1 DEF BufInv
    <3>3. n' \in 0..LOGSIZE /\ block' \in [Slots -> Block \cup {Absent}]
      BY <3>1, <3>2, LogAssumption DEF TypeOK, Slots
    <3>4. pinned' \in SUBSET Block /\ pc' \in [Op -> {"idle", "asleep", "op", "dirty", "commit"}]
          /\ buf' \in [Op -> Block \cup {Absent}]
      BY <3>1, <3>2 DEF TypeOK
    <3>5. panicked' \in BOOLEAN
      BY <1>2, Zenon DEF TypeOK, LogWrite
    <3> QED
      BY <1>2, <3>3, <3>4, <3>5 DEF TypeOK, LogWrite, diskVars
  <2> QED
    BY <2>1, <2>2
<1>3. ASSUME NEW o \in Op, EndOp(o) PROVE TypeOK'
  <2>1. o \in Running
    BY <1>3 DEF EndOp, Running
  <2>2. outstanding - 1 \in Nat
    BY <2>1, RunningFacts
  <2>3. pc' \in [Op -> {"idle", "asleep", "op", "dirty", "commit"}]
    BY <1>3, ZenonT(30) DEF TypeOK, EndOp, WakeAll
  <2>4. tail' \in 1..(LOGSIZE + 1)
    BY <1>3, LogAssumption DEF TypeOK, EndOp
  <2>5. committing' \in BOOLEAN /\ panicked' \in BOOLEAN
        /\ cpc' \in {"none", "write_log", "install", "done", "read_head", "recover"}
    BY <1>3, Zenon DEF TypeOK, EndOp
  <2> QED
    BY <1>3, <2>2, <2>3, <2>4, <2>5 DEF TypeOK, EndOp, diskVars
<1>4. ASSUME NEW o \in Op, EndCommit(o) PROVE TypeOK'
  BY <1>4, LogAssumption, Zenon DEF TypeOK, HeadInv, InstallInv, Booted, Slots, DSlots, diskVars,
     opVars, EndCommit, WakeAll
<1>5. ASSUME NEW o \in Op, NEW b \in Block, NEW d \in Data, Update(o, b, d) PROVE TypeOK'
  BY <1>5, LogAssumption DEF TypeOK, HeadInv, InstallInv, Booted, Slots, DSlots, diskVars, opVars,
     Update
<1>6. CASE WriteLog
  BY <1>6, LogAssumption DEF TypeOK, HeadInv, InstallInv, Booted, Slots, DSlots, diskVars, opVars,
     WriteLog, Bread
<1>7. CASE WriteHead
  BY <1>7, LogAssumption DEF TypeOK, HeadInv, InstallInv, Booted, Slots, DSlots, diskVars, opVars,
     WriteHead
<1>8. CASE InstallTrans(FALSE)
  BY <1>8, LogAssumption DEF TypeOK, HeadInv, InstallInv, Booted, Slots, DSlots, diskVars, opVars,
     InstallTrans
<1>9. CASE Erase
  BY <1>9, LogAssumption DEF TypeOK, HeadInv, InstallInv, Booted, Slots, DSlots, diskVars, opVars,
     Erase, NoBlocks
<1>10. CASE ReadHead
  BY <1>10, LogAssumption DEF TypeOK, HeadInv, InstallInv, Booted, Slots, DSlots, diskVars,
     opVars, ReadHead
<1>11. CASE InstallTrans(TRUE)
  BY <1>11, LogAssumption DEF TypeOK, HeadInv, InstallInv, Booted, Slots, DSlots, diskVars,
     opVars, InstallTrans
<1>12. ASSUME NEW b \in Block, Read(b) PROVE TypeOK'
  BY <1>12, LogAssumption DEF TypeOK, HeadInv, InstallInv, Booted, Slots, DSlots, diskVars,
     opVars, Read
<1>13. ASSUME NEW b \in Block, Evict(b) PROVE TypeOK'
  BY <1>13, LogAssumption DEF TypeOK, HeadInv, InstallInv, Booted, Slots, DSlots, diskVars,
     opVars, Evict
<1>14. CASE Crash
  <2>1. /\ disk' \in [Block -> Data \cup {Torn}]
        /\ dlog' \in [DSlots -> Data \cup {Torn}]
    BY <1>14 DEF TypeOK, Crash
  <2>2. /\ cache' \in [Block -> Data \cup {Absent}] /\ block' \in [Slots -> Block \cup {Absent}]
        /\ buf' \in [Op -> Block \cup {Absent}] /\ wrote' \in [Op -> SUBSET Block]
        /\ pc' \in [Op -> {"idle", "asleep", "op", "dirty", "commit"}]
    BY <1>14 DEF Crash, NoBlocks
  <2>3. n' \in 0..LOGSIZE /\ tail' \in 1..(LOGSIZE + 1)
    BY <1>14, LogAssumption DEF Crash
  <2> QED
    BY <1>14, <2>1, <2>2, <2>3, Zenon DEF TypeOK, Crash
<1>15. CASE UNCHANGED vars
  BY <1>15, LogAssumption DEF vars, diskVars, opVars, TypeOK
<1> QED
  BY <1>1, <1>2, <1>3, <1>4, <1>5, <1>6, <1>7, <1>8, <1>9, <1>10, <1>11, <1>12, <1>13, <1>14,
     <1>15, Zenon DEF Next, Operation, Committer, Recovery

\* The headers stay well-formed, and in step while a transaction is installed.
LEMMA HeadStep ==
  ASSUME Inv, [Next]_vars
  PROVE  HeadInv'
<1>a. TypeOK /\ HeadInv /\ PhaseInv /\ BufInv
  BY DEF Inv
<1> USE <1>a
<1>1. ASSUME NEW o \in Op, BeginOp(o) PROVE HeadInv'
  BY <1>1, LogAssumption DEF TypeOK, HeadInv, Slots, diskVars, BeginOp
<1>2. ASSUME NEW o \in Op, LogWrite(o) PROVE HeadInv'
  <2>1. CASE UNCHANGED <<n, block, pinned>>
    BY <1>2, <2>1 DEF HeadInv, LogWrite, diskVars
  <2>2. CASE ~UNCHANGED <<n, block, pinned>>
    <3>1. /\ n < LOGSIZE /\ n < SIZE - 1 /\ pc[o] = "dirty" /\ buf[o] \notin Logged
          /\ n' = n + 1 /\ block' = [block EXCEPT ![n + 1] = buf[o]]
          /\ UNCHANGED <<dn, dblock, cpc>>
      BY <1>2, <2>2, LogAssumption DEF LogWrite, TypeOK, diskVars
    <3>2. buf[o] \in Block /\ o \in Running
      BY <3>1 DEF BufInv, TypeOK, Running
    <3>3. cpc = "none"
      BY <3>2 DEF PhaseInv
    <3>4. n \in Nat /\ n + 1 \in Slots /\ SIZE \in Nat
      BY <3>1, LogAssumption DEF TypeOK, Slots
    <3>5. /\ block'[n + 1] = buf[o] 
          /\ \A i \in 1..n : block'[i] = block[i] /\ block[i] # buf[o]
      BY <3>1, <3>4 DEF TypeOK, Slots, Logged
    <3>6. /\ \A i \in 1..n' : block'[i] \in Block
          /\ \A i, j \in 1..n' : block'[i] = block'[j] => i = j
      BY <3>1, <3>2, <3>4, <3>5 DEF HeadInv
    <3> QED
      BY <3>1, <3>3, <3>4, <3>6 DEF HeadInv
  <2> QED
    BY <2>1, <2>2
<1>3. ASSUME NEW o \in Op, EndOp(o) PROVE HeadInv'
  <2>1. o \in Running
    BY <1>3 DEF EndOp, Running
  <2>2. cpc = "none" /\ dn = 0
    BY <2>1 DEF PhaseInv, HeadInv
  <2>3. cpc' # "read_head" /\ cpc' # "install" /\ cpc' # "recover"
        /\ (cpc' = "done" => n = 0) /\ UNCHANGED <<dn, dblock, n, block>>
    BY <1>3, <2>2 DEF EndOp, diskVars, TypeOK
  <2> QED
    BY <2>2, <2>3 DEF HeadInv
<1>4. ASSUME NEW o \in Op, EndCommit(o) PROVE HeadInv'
  BY <1>4, LogAssumption DEF TypeOK, HeadInv, Slots, diskVars, EndCommit, WakeAll
<1>5. ASSUME NEW o \in Op, NEW b \in Block, NEW d \in Data, Update(o, b, d) PROVE HeadInv'
  BY <1>5, LogAssumption DEF TypeOK, HeadInv, Slots, diskVars, Update
<1>6. CASE WriteLog
  BY <1>6, LogAssumption DEF TypeOK, HeadInv, Slots, diskVars, WriteLog, Bread
<1>7. CASE WriteHead
  BY <1>7, LogAssumption DEF TypeOK, HeadInv, Slots, diskVars, WriteHead
<1>8. CASE InstallTrans(FALSE)
  BY <1>8, LogAssumption DEF TypeOK, HeadInv, Slots, diskVars, InstallTrans
<1>9. CASE Erase
  BY <1>9, LogAssumption DEF TypeOK, HeadInv, Slots, diskVars, Erase, NoBlocks
<1>10. CASE ReadHead
  BY <1>10, LogAssumption DEF TypeOK, HeadInv, Slots, diskVars, ReadHead
<1>11. CASE InstallTrans(TRUE)
  BY <1>11, LogAssumption, SMTT(20) DEF TypeOK, HeadInv, Slots, diskVars, InstallTrans
<1>12. ASSUME NEW b \in Block, Read(b) PROVE HeadInv'
  BY <1>12, LogAssumption DEF TypeOK, HeadInv, Slots, diskVars, Read
<1>13. ASSUME NEW b \in Block, Evict(b) PROVE HeadInv'
  BY <1>13, LogAssumption, SMTT(20) DEF TypeOK, HeadInv, Slots, diskVars, Evict
<1>14. CASE Crash
  BY <1>14, LogAssumption DEF TypeOK, HeadInv, Slots, diskVars, Crash, NoBlocks
<1>15. CASE UNCHANGED vars
  BY <1>15, LogAssumption DEF vars, diskVars, opVars, HeadInv
<1> QED
  BY <1>1, <1>2, <1>3, <1>4, <1>5, <1>6, <1>7, <1>8, <1>9, <1>10, <1>11, <1>12, <1>13, <1>14,
     <1>15, Zenon DEF Next, Operation, Committer, Recovery

\* Only an operation between its bread() and its log_write() has a buffer locked.
LEMMA BufStep ==
  ASSUME Inv, [Next]_vars
  PROVE  BufInv'
<1>a. TypeOK /\ HeadInv /\ PhaseInv /\ BufInv
  BY DEF Inv
<1> USE <1>a
<1>1. ASSUME NEW o \in Op, BeginOp(o) PROVE BufInv'
  BY <1>1, LogAssumption DEF TypeOK, BufInv, diskVars, opVars, BeginOp
<1>2. ASSUME NEW o \in Op, LogWrite(o) PROVE BufInv'
  BY <1>2, LogAssumption DEF TypeOK, BufInv, diskVars, opVars, LogWrite, Logged
<1>3. ASSUME NEW o \in Op, EndOp(o) PROVE BufInv'
  BY <1>3, LogAssumption, ZenonT(30) DEF TypeOK, BufInv, diskVars, opVars, EndOp, WakeAll
<1>4. ASSUME NEW o \in Op, EndCommit(o) PROVE BufInv'
  BY <1>4, LogAssumption DEF TypeOK, BufInv, diskVars, opVars, EndCommit, WakeAll
<1>5. ASSUME NEW o \in Op, NEW b \in Block, NEW d \in Data, Update(o, b, d) PROVE BufInv'
  BY <1>5, LogAssumption DEF TypeOK, BufInv, diskVars, opVars, Update
<1>6. CASE WriteLog
  BY <1>6, LogAssumption DEF TypeOK, BufInv, diskVars, opVars, WriteLog, Bread
<1>7. CASE WriteHead
  BY <1>7, LogAssumption DEF TypeOK, BufInv, diskVars, opVars, WriteHead
<1>8. CASE InstallTrans(FALSE)
  <2>1. \A o \in Op : buf[o] = Absent
    BY <1>8 DEF InstallTrans, PhaseInv, BufInv, Running
  <2> QED
    BY <1>8, <2>1 DEF BufInv, InstallTrans, opVars
<1>9. CASE Erase
  BY <1>9, LogAssumption DEF TypeOK, BufInv, diskVars, opVars, Erase, NoBlocks
<1>10. CASE ReadHead
  BY <1>10, LogAssumption DEF TypeOK, BufInv, diskVars, opVars, ReadHead
<1>11. CASE InstallTrans(TRUE)
  <2>1. \A o \in Op : buf[o] = Absent
    BY <1>11 DEF InstallTrans, PhaseInv, BufInv, Running
  <2> QED
    BY <1>11, <2>1 DEF BufInv, InstallTrans, opVars
<1>12. ASSUME NEW b \in Block, Read(b) PROVE BufInv'
  BY <1>12, LogAssumption DEF TypeOK, BufInv, diskVars, opVars, Read
<1>13. ASSUME NEW b \in Block, Evict(b) PROVE BufInv'
  BY <1>13, LogAssumption DEF TypeOK, BufInv, diskVars, opVars, Evict
<1>14. CASE Crash
  BY <1>14, LogAssumption DEF TypeOK, BufInv, diskVars, opVars, Crash, NoBlocks
<1>15. CASE UNCHANGED vars
  BY <1>15, LogAssumption DEF vars, diskVars, opVars, BufInv
<1> QED
  BY <1>1, <1>2, <1>3, <1>4, <1>5, <1>6, <1>7, <1>8, <1>9, <1>10, <1>11, <1>12, <1>13, <1>14,
     <1>15, Zenon DEF Next, Operation, Committer, Recovery

\* A commit starts when the last operation ends, and none begins until it is over.
LEMMA PhaseStep ==
  ASSUME Inv, [Next]_vars
  PROVE  PhaseInv'
<1>a. TypeOK /\ HeadInv /\ PhaseInv
  BY DEF Inv
<1> USE <1>a
<1>1. ASSUME NEW o \in Op, BeginOp(o) PROVE PhaseInv'
  <2>1. CASE committing \/ n + (outstanding + 1) * MAXOPBLOCKS > LOGSIZE
    <3>1. Running' = Running
      BY <1>1, <2>1 DEF BeginOp, Running, TypeOK
    <3> QED
      BY <1>1, <2>1, <3>1 DEF PhaseInv, BeginOp, Booted
  <2>2. CASE ~(committing \/ n + (outstanding + 1) * MAXOPBLOCKS > LOGSIZE)
    <3>1. o \notin Running /\ Running' = Running \cup {o} /\ outstanding' = outstanding + 1
      BY <1>1, <2>2 DEF BeginOp, Running, TypeOK
    <3>2. cpc = "none" /\ UNCHANGED <<cpc, committing, n>>
      BY <1>1, <2>2 DEF BeginOp, PhaseInv, TypeOK, Booted
    <3>3. outstanding' = Cardinality(Running')
      BY <3>1, RunningFacts
    <3> QED
      BY <3>1, <3>2, <3>3 DEF PhaseInv, Booted
  <2> QED
    BY <2>1, <2>2
<1>2. ASSUME NEW o \in Op, LogWrite(o) PROVE PhaseInv'
  <2>1. Running' = Running /\ o \in Running
    BY <1>2 DEF Running, TypeOK, LogWrite
  <2> QED
    BY <1>2, <2>1 DEF PhaseInv, Booted, LogWrite
<1>3. ASSUME NEW o \in Op, EndOp(o) PROVE PhaseInv'
  <2>1. o \in Running
    BY <1>3 DEF EndOp, Running
  <2>2. cpc = "none" /\ ~committing
    BY <2>1 DEF PhaseInv
  <2>3. Running' = Running \ {o}
    BY <1>3, <2>2, Zenon DEF EndOp, Running, WakeAll, TypeOK
  <2>4. outstanding' = Cardinality(Running')
    BY <1>3, <2>1, <2>3, RunningFacts, Zenon DEF EndOp
  <2>5. outstanding = 1 <=> Running' = {}
    BY <1>3, <2>1, <2>3, <2>4, RunningFacts, FS_EmptySet DEF EndOp
  <2>6. committing' <=> cpc' \in {"write_log", "install", "done"}
    BY <1>3, <2>2 DEF EndOp
  <2>7. cpc' # "none" <=> Running' = {}
    BY <1>3, <2>2, <2>5 DEF EndOp
  <2>8. Booted'
    BY <1>3, <2>2 DEF EndOp, Booted
  <2> QED
    BY <2>4, <2>6, <2>7, <2>8 DEF PhaseInv
<1>4. ASSUME NEW o \in Op, EndCommit(o) PROVE PhaseInv'
  <2>1. Running' = Running
    BY <1>4 DEF EndCommit, Running, WakeAll, TypeOK
  <2> QED
    BY <1>4, <2>1 DEF EndCommit, PhaseInv, HeadInv, Booted
<1>5. ASSUME NEW o \in Op, NEW b \in Block, NEW d \in Data, Update(o, b, d) PROVE PhaseInv'
  <2>1. Running' = Running /\ o \in Running
    BY <1>5 DEF Running, TypeOK, Update
  <2> QED
    BY <1>5, <2>1 DEF PhaseInv, Booted, Update
<1>6. CASE WriteLog
  <2>1. Running' = Running
    BY <1>6 DEF Running, TypeOK, WriteLog, opVars
  <2> QED
    BY <1>6, <2>1, LogAssumption DEF PhaseInv, HeadInv, TypeOK, Booted, WriteLog, opVars, diskVars
<1>7. CASE WriteHead
  <2>1. Running' = Running
    BY <1>7 DEF Running, TypeOK, WriteHead, opVars
  <2> QED
    BY <1>7, <2>1, LogAssumption DEF PhaseInv, HeadInv, TypeOK, Booted, WriteHead, opVars, diskVars
<1>8. CASE InstallTrans(FALSE)
  <2>1. Running' = Running
    BY <1>8 DEF Running, TypeOK, InstallTrans, opVars
  <2> QED
    BY <1>8, <2>1, LogAssumption DEF PhaseInv, HeadInv, TypeOK, Booted, InstallTrans, opVars,
       diskVars
<1>9. CASE Erase
  <2>1. Running' = Running
    BY <1>9 DEF Running, TypeOK, Erase, opVars
  <2> QED
    BY <1>9, <2>1, LogAssumption DEF PhaseInv, HeadInv, TypeOK, Booted, Erase, opVars, diskVars
<1>10. CASE ReadHead
  <2>1. Running' = Running
    BY <1>10 DEF Running, TypeOK, ReadHead, opVars
  <2> QED
    BY <1>10, <2>1, LogAssumption DEF PhaseInv, HeadInv, TypeOK, Booted, ReadHead, opVars, diskVars
<1>11. CASE InstallTrans(TRUE)
  <2>1. Running' = Running
    BY <1>11, SMTT(20) DEF Running, TypeOK, InstallTrans, opVars
  <2> QED
    BY <1>11, <2>1, LogAssumption DEF PhaseInv, HeadInv, TypeOK, Booted, InstallTrans, opVars,
       diskVars
<1>12. ASSUME NEW b \in Block, Read(b) PROVE PhaseInv'
  <2>1. Running' = Running
    BY <1>12 DEF Running, TypeOK, Read, opVars
  <2> QED
    BY <1>12, <2>1, LogAssumption DEF PhaseInv, HeadInv, TypeOK, Booted, Read, opVars, diskVars
<1>13. ASSUME NEW b \in Block, Evict(b) PROVE PhaseInv'
  <2>1. Running' = Running
    BY <1>13 DEF Running, TypeOK, Evict, opVars
  <2> QED
    BY <1>13, <2>1, LogAssumption DEF PhaseInv, HeadInv, TypeOK, Booted, Evict, opVars, diskVars
<1>14. CASE Crash
  <2>1. Running' = {}
    BY <1>14 DEF Crash, Running
  <2> QED
    BY <1>14, <2>1, FS_EmptySet DEF Crash, PhaseInv, Booted
<1>15. CASE UNCHANGED vars
  BY <1>15 DEF vars, diskVars, opVars, PhaseInv, Running, Booted
<1> QED
  BY <1>1, <1>2, <1>3, <1>4, <1>5, <1>6, <1>7, <1>8, <1>9, <1>10, <1>11, <1>12, <1>13, <1>14,
     <1>15, Zenon DEF Next, Operation, Committer, Recovery

\* The last operation to end, or the commit it starts, wakes the sleepers.
LEMMA WakeStep ==
  ASSUME Inv, [Next]_vars
  PROVE  SleeperHasWaker'
<1>a. TypeOK /\ HeadInv /\ PhaseInv /\ SleeperHasWaker
  BY DEF Inv
<1> USE <1>a
<1>1. ASSUME NEW o \in Op, BeginOp(o) PROVE SleeperHasWaker'
  <2>1. CASE committing \/ Running # {}
    BY <1>1, <2>1 DEF BeginOp, SleeperHasWaker, Running, TypeOK
  <2>2. CASE ~committing /\ Running = {}
    <3>1. n = 0 /\ outstanding = 0
      BY <1>1, <2>2, RunningFacts DEF PhaseInv, BeginOp, Booted, TypeOK
    <3>2. ~(n + (outstanding + 1) * MAXOPBLOCKS > LOGSIZE)
      BY <3>1, LogAssumption
    <3> QED
      BY <1>1, <2>2, <3>2 DEF BeginOp, SleeperHasWaker, Running, TypeOK
  <2> QED
    BY <2>1, <2>2
<1>2. ASSUME NEW o \in Op, LogWrite(o) PROVE SleeperHasWaker'
  BY <1>2 DEF TypeOK, SleeperHasWaker, Running, opVars, LogWrite, Logged
<1>3. ASSUME NEW o \in Op, EndOp(o) PROVE SleeperHasWaker'
  <2>1. o \in Running
    BY <1>3 DEF EndOp, Running
  <2>2. ~committing
    BY <2>1 DEF PhaseInv
  <2>3. committing' \/ \A p \in Op : pc'[p] # "asleep"
    BY <1>3, <2>2, Zenon DEF EndOp, WakeAll, TypeOK
  <2> QED
    BY <2>3 DEF SleeperHasWaker
<1>4. ASSUME NEW o \in Op, EndCommit(o) PROVE SleeperHasWaker'
  BY <1>4, Zenon DEF TypeOK, SleeperHasWaker, Running, opVars, EndCommit, WakeAll
<1>5. ASSUME NEW o \in Op, NEW b \in Block, NEW d \in Data, Update(o, b, d) PROVE SleeperHasWaker'
  BY <1>5 DEF TypeOK, SleeperHasWaker, Running, opVars, Update
<1>6. CASE WriteLog
  BY <1>6 DEF TypeOK, SleeperHasWaker, Running, opVars, WriteLog, Bread
<1>7. CASE WriteHead
  BY <1>7 DEF TypeOK, SleeperHasWaker, Running, opVars, WriteHead
<1>8. CASE InstallTrans(FALSE)
  BY <1>8 DEF TypeOK, SleeperHasWaker, Running, opVars, InstallTrans
<1>9. CASE Erase
  BY <1>9 DEF TypeOK, SleeperHasWaker, Running, opVars, Erase, NoBlocks
<1>10. CASE ReadHead
  BY <1>10 DEF TypeOK, SleeperHasWaker, Running, opVars, ReadHead
<1>11. CASE InstallTrans(TRUE)
  BY <1>11 DEF TypeOK, SleeperHasWaker, Running, opVars, InstallTrans
<1>12. ASSUME NEW b \in Block, Read(b) PROVE SleeperHasWaker'
  BY <1>12 DEF TypeOK, SleeperHasWaker, Running, opVars, Read
<1>13. ASSUME NEW b \in Block, Evict(b) PROVE SleeperHasWaker'
  BY <1>13 DEF TypeOK, SleeperHasWaker, Running, opVars, Evict
<1>14. CASE Crash
  BY <1>14 DEF TypeOK, SleeperHasWaker, Running, opVars, Crash, NoBlocks
<1>15. CASE UNCHANGED vars
  BY <1>15 DEF vars, diskVars, opVars, SleeperHasWaker, Running
<1> QED
  BY <1>1, <1>2, <1>3, <1>4, <1>5, <1>6, <1>7, <1>8, <1>9, <1>10, <1>11, <1>12, <1>13, <1>14,
     <1>15, Zenon DEF Next, Operation, Committer, Recovery

\* CacheInv of the next state, from its parts.
LEMMA CacheIntro ==
  ASSUME \A b \in pinned' : cache'[b] # Absent,
         ~Booted' => pinned' = {},
         Booted' => \A b \in Block :
           b \in pinned' <=> \E i \in 1..n' : block'[i] = b /\ (cpc' = "install" => i >= tail'),
         \A b \in Block : cache'[b] = Absent \/ cache'[b] = disk'[b] \/ b \in pinned'
                          \/ \E o \in Op : buf'[o] = b
  PROVE  CacheInv'
BY Zenon DEF CacheInv

\* Nothing newer than the disk is ever left unpinned and unlocked.
LEMMA CacheStep ==
  ASSUME Inv, [Next]_vars
  PROVE  CacheInv'
<1>a. TypeOK /\ HeadInv /\ PhaseInv /\ BufInv /\ CacheInv /\ InstallInv
  BY DEF Inv
<1> USE <1>a
<1>y. /\ n \in Nat /\ tail \in Nat \ {0} /\ dn \in Nat
      /\ dlog \in [DSlots -> Data \cup {Torn}] /\ block \in [Slots -> Block \cup {Absent}]
      /\ disk \in [Block -> Data \cup {Torn}] /\ cache \in [Block -> Data \cup {Absent}]
      /\ buf \in [Op -> Block \cup {Absent}] /\ pinned \in SUBSET Block
  BY LogAssumption DEF TypeOK
<1>h. /\ n <= SIZE - 1 /\ \A i \in 1..n : block[i] \in Block
      /\ \A i, j \in 1..n : block[i] = block[j] => i = j
      /\ dn # 0 => cpc \in {"install", "read_head", "recover"}
      /\ cpc \in {"install", "recover"} => dn = n /\ dblock = block
      /\ cpc \in {"read_head", "done"} => n = 0
  BY Zenon DEF HeadInv
<1>c. /\ \A b \in pinned : cache[b] # Absent
      /\ ~Booted => pinned = {}
      /\ Booted => \A b \in Block :
           b \in pinned <=> \E i \in 1..n : block[i] = b /\ (cpc = "install" => i >= tail)
      /\ \A b \in Block : cache[b] = Absent \/ cache[b] = disk[b] \/ b \in pinned
                          \/ \E o \in Op : buf[o] = b
  BY Zenon DEF CacheInv
<1>d. \A b \in Block : cache[b] = Absent \/ cache[b] = disk[b] \/ b \in pinned
                      \/ \E o \in Op : buf[o] = b
  BY <1>c, Zenon
<1>1. ASSUME NEW o \in Op, BeginOp(o) PROVE CacheInv'
  BY <1>1, <1>c, CacheIntro DEF BeginOp, diskVars, Booted
<1>2. ASSUME NEW o \in Op, LogWrite(o) PROVE CacheInv'
  <2>1. CASE UNCHANGED <<n, block, pinned, pc, buf>>
    BY <1>2, <2>1, <1>c, CacheIntro DEF LogWrite, diskVars, Booted
  <2>2. CASE ~UNCHANGED <<n, block, pinned, pc, buf>>
    <3>1. /\ pc[o] = "dirty" /\ buf' = [buf EXCEPT ![o] = Absent]
          /\ IF buf[o] \in Logged
             THEN UNCHANGED <<n, block, pinned>>
             ELSE /\ n < LOGSIZE /\ n' = n + 1
                  /\ block' = [block EXCEPT ![n + 1] = buf[o]]
                  /\ pinned' = pinned \cup {buf[o]}
          /\ UNCHANGED <<disk, cache, cpc, tail>>
      BY <1>2, <2>2, LogAssumption, <1>y DEF LogWrite, diskVars
    <3>2. buf[o] \in Block /\ cache[buf[o]] # Absent /\ cpc = "none"
      BY <3>1, <1>y DEF BufInv, PhaseInv, Running
    <3>3. \A b \in Block : b \in pinned <=> \E i \in 1..n : block[i] = b
      BY <3>2, <1>c DEF Booted
    <3>4. /\ \A b \in Block : b \in pinned' <=> \E i \in 1..n' : block'[i] = b
          /\ buf[o] \in pinned' /\ pinned \subseteq pinned'
      <4>1. CASE buf[o] \in Logged
        BY <3>1, <3>2, <3>3, <4>1 DEF Logged
      <4>2. CASE buf[o] \notin Logged
        <5>1. n \in Nat /\ n + 1 \in Slots
          BY <3>1, <4>2, LogAssumption DEF TypeOK, Slots
        <5>2. block'[n + 1] = buf[o] /\ \A i \in 1..n : block'[i] = block[i]
          <6>1. \A i \in 1..n : i \in Slots /\ i # n + 1
            BY <5>1, LogAssumption DEF TypeOK, Slots
          <6> QED
            BY <3>1, <4>2, <5>1, <6>1, <1>y
        <5>3. \A i \in 1..n' : i \in 1..n \/ i = n + 1
          BY <3>1, <4>2, <5>1
        <5>4. n + 1 \in 1..n' /\ \A i \in 1..n : i \in 1..n'
          BY <3>1, <4>2, <5>1
        <5>5. pinned' = pinned \cup {buf[o]}
          BY <3>1, <4>2
        <5> QED
          BY <3>3, <5>2, <5>3, <5>4, <5>5
      <4> QED
        BY <4>1, <4>2, SMTT(20)
    <3> QED
      BY <3>1, <3>2, <3>4, <1>y, <1>c, CacheIntro, SMTT(20) DEF Booted
  <2> QED
    BY <2>1, <2>2
<1>3. ASSUME NEW o \in Op, EndOp(o) PROVE CacheInv'
  <2>1. cpc = "none" /\ cpc' # "install" /\ Booted'
    BY <1>3, SMTT(20) DEF EndOp, PhaseInv, Running, Booted
  <2> QED
    BY <1>3, <2>1, <1>c, CacheIntro DEF EndOp, diskVars, Booted
<1>4. ASSUME NEW o \in Op, EndCommit(o) PROVE CacheInv'
  BY <1>4, <1>h, <1>c, CacheIntro, SMTT(20) DEF EndCommit, diskVars, Booted
<1>5. ASSUME NEW o \in Op, NEW b \in Block, NEW d \in Data, Update(o, b, d) PROVE CacheInv'
  BY <1>5, LogAssumption, <1>y, <1>c, CacheIntro, SMTT(20) DEF BufInv, Update, diskVars, Booted
<1>6. CASE WriteLog
  BY <1>6, <1>y, <1>h, <1>c, CacheIntro DEF Booted, diskVars, opVars, WriteLog, Bread
<1>7. CASE WriteHead
  <2>1. /\ cpc = "write_log" /\ cpc' = "install" /\ tail' = 1 /\ Booted /\ Booted'
        /\ UNCHANGED <<cache, disk, pinned, n, block, buf>>
    BY <1>7 DEF WriteHead, opVars, Booted
  <2>2. \A i \in 1..n : i >= tail'
    BY <2>1
  <2> QED
    BY <2>1, <2>2, <1>c, CacheIntro
<1>8. CASE InstallTrans(FALSE)
  <2>1. /\ tail \in 1..n /\ block[tail] \in Block /\ dlog[tail] \in Data /\ cpc = "install"
        /\ dn = n
    <3>1. tail \in 1..n /\ cpc = "install"
      BY <1>8, <1>y DEF InstallTrans
    <3>2. \A i \in 1..dn : dlog[i] \in Data
      BY Zenon DEF InstallInv
    <3> QED
      BY <3>1, <3>2, <1>h
  <2>2. \A i \in 1..n : i >= tail' <=> i >= tail /\ block[i] # block[tail]
    BY <1>8, <2>1, <1>y, <1>h DEF InstallTrans
  <2>3. pinned' = pinned \ {block[tail]} /\ UNCHANGED <<cpc, n, block, buf>>
    BY <1>8 DEF InstallTrans, opVars
  <2>4. \A b \in Block : b \in pinned' <=> \E i \in 1..n : block[i] = b /\ i >= tail'
    BY <2>1, <2>2, <2>3, <1>c DEF Booted
  <2>5. \A b \in Block : IF b = block[tail] THEN cache'[b] = disk'[b] /\ cache'[b] # Absent
                         ELSE UNCHANGED <<cache[b], disk[b]>>
    BY <1>8, <2>1, LogAssumption, <1>y, SMTT(20) DEF InstallTrans
  <2>6. \A b \in pinned' : cache'[b] # Absent
    BY <2>3, <2>5, <1>y, <1>c
  <2>7. \A b \in Block : cache'[b] = Absent \/ cache'[b] = disk'[b] \/ b \in pinned'
                        \/ \E o \in Op : buf'[o] = b
    BY <2>3, <2>5, <1>d
  <2> QED
    BY <2>1, <2>3, <2>4, <2>6, <2>7, CacheIntro DEF Booted
<1>9. CASE Erase
  BY <1>9, <1>y, <1>h, <1>c, CacheIntro DEF Booted, diskVars, opVars, Erase, NoBlocks
<1>10. CASE ReadHead
  BY <1>10, <1>y, <1>h, <1>c, CacheIntro, SMTT(20) DEF Booted, diskVars, opVars, ReadHead
<1>11. CASE InstallTrans(TRUE)
  BY <1>11, <1>y, <1>h, <1>c, CacheIntro, SMTT(20) DEF Booted, diskVars, opVars, InstallTrans
<1>12. ASSUME NEW b \in Block, Read(b) PROVE CacheInv'
  BY <1>12, <1>y, <1>h, <1>c, CacheIntro, SMTT(20) DEF Booted, diskVars, opVars, Read
<1>13. ASSUME NEW b \in Block, Evict(b) PROVE CacheInv'
  BY <1>13, <1>y, <1>h, <1>c, CacheIntro, SMTT(20) DEF Booted, diskVars, opVars, Evict
<1>14. CASE Crash
  BY <1>14, <1>y, <1>h, <1>c, CacheIntro, SMTT(20) DEF Booted, diskVars, opVars, Crash, NoBlocks
<1>15. CASE UNCHANGED vars
  BY <1>15, <1>c, CacheIntro, Zenon DEF vars, diskVars, opVars, Booted
<1> QED
  BY <1>1, <1>2, <1>3, <1>4, <1>5, <1>6, <1>7, <1>8, <1>9, <1>10, <1>11, <1>12, <1>13, <1>14,
     <1>15, Zenon DEF Next, Operation, Committer, Recovery
=============================================================================
