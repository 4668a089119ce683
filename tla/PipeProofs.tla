----------------------------- MODULE PipeProofs -----------------------------
(***************************************************************************)
(* Pipes, for any number of readers and writers, any ring whose size        *)
(* divides UINT, and any interleaving: the page is freed once and unused,   *)
(* nobody sleeps without a reason, and the ring is a FIFO channel.          *)
(***************************************************************************)
EXTENDS Pipe, RingLemmas, FiniteSetTheorems, SequenceTheorems

ReadLabels  == {"user", "r_lock", "r_wait", "r_sleep", "r_asleep", "r_loop", "close", "kfree"}
WriteLabels == {"user", "w_lock", "w_loop", "w_sleep", "w_asleep", "close", "kfree"}
Locked      == {"r_wait", "r_sleep", "r_loop", "w_loop", "w_sleep"}

DataType ==
  /\ data \in [0..(PIPESIZE - 1) -> Byte]
  /\ nread \in 0..(UINT - 1) /\ nwrite \in 0..(UINT - 1)
  /\ readopen \in BOOLEAN /\ writeopen \in BOOLEAN /\ freed \in BOOLEAN
  /\ lock \in Proc \cup {None}
  /\ ref \in [{"read", "write"} -> Nat]
  /\ i \in [Proc -> Nat] /\ n \in [Proc -> Nat]

ProcType ==
  /\ holds \in [Proc -> BOOLEAN] /\ killed \in [Proc -> BOOLEAN]
  /\ pc \in [Proc -> ReadLabels \cup WriteLabels]
  /\ \A p \in Readers : pc[p] \in ReadLabels
  /\ \A p \in Writers : pc[p] \in WriteLabels

TypeOK == DataType /\ ProcType

\* pi->lock is held by who is between acquire() and release() or sleep().
LockInv == \A p \in Proc : lock = p <=> pc[p] \in Locked

\* f->ref counts the descriptors of an end.
Holders(e) == {p \in Proc : holds[p] /\ End(p) = e}
RefInv == \A e \in {"read", "write"} : ref[e] = Cardinality(Holders(e))

\* Whoever uses the pipe has a descriptor for it, or has just closed the
\* last one of its end; an end that somebody uses is open.
OpenInv ==
  /\ \A p \in Proc : /\ pc[p] \notin {"user", "close", "kfree"} => holds[p]
                     /\ pc[p] \in {"close", "kfree"} => ~holds[p]
                     /\ holds[p] \/ pc[p] = "close" => IF p \in Readers THEN readopen ELSE writeopen
  /\ \A p, q \in Proc : pc[p] = "close" /\ End(q) = End(p) => ~holds[q] /\ (pc[q] = "close" => q = p)
  /\ \A p, q \in Proc : pc[p] = "kfree" => ~readopen /\ ~writeopen /\ ~freed /\ (pc[q] = "kfree" => q = p)
  /\ freed => ~readopen /\ ~writeopen

\* The counters are never more than the ring apart.
Count == (nwrite - nread) % UINT
CountInv == Count <= PIPESIZE

PipeInv == TypeOK /\ LockInv /\ RefInv /\ OpenInv /\ CountInv

\* A writer has put bytes into the pipe and not called wakeup() for them yet.
Putting == \E q \in Writers : pc[q] = "w_loop" /\ i[q] > 0

\* Somebody who sleeps has a reason, or whoever has taken it away still
\* holds the lock and will call wakeup(), or is killed and leaves its bytes.
SleepInv ==
  /\ \A p \in Readers : /\ pc[p] = "r_sleep" => Empty /\ writeopen
                        /\ pc[p] = "r_asleep" =>
                             writeopen /\ (Empty \/ abandoned \/ Putting)
  /\ \A p \in Writers : /\ pc[p] = "w_sleep" => Full /\ readopen
                        /\ pc[p] = "w_asleep" =>
                             readopen /\ (Full \/ \E q \in Readers : pc[q] = "r_loop")

-----------------------------------------------------------------------------
\* The tests of pipewrite() and piperead() are tests of how many bytes are
\* inside.
LEMMA FullEmpty ==
  ASSUME TypeOK
  PROVE  Count \in 0..(UINT - 1) /\ (Full <=> Count = PIPESIZE) /\ (Empty <=> Count = 0)
<1>1. UINT \in Nat \ {0} /\ nread \in 0..(UINT - 1) /\ nwrite \in 0..(UINT - 1)
  BY PipeAssumption DEF TypeOK, DataType
<1>2. 0 \in 0..(UINT - 1) /\ PIPESIZE \in 0..(UINT - 1)
  BY PipeAssumption
<1>3. (nread + 0) % UINT = nread
  BY <1>1, ModSmall
<1>4. nwrite = (nread + 0) % UINT <=> Count = 0
  BY <1>1, <1>2, DistanceIs DEF Count
<1>5. nwrite = (nread + PIPESIZE) % UINT <=> Count = PIPESIZE
  BY <1>1, <1>2, DistanceIs DEF Count
<1>6. Count \in 0..(UINT - 1)
  BY <1>1, ModType DEF Count
<1> QED
  BY <1>3, <1>4, <1>5, <1>6, Zenon DEF Full, Empty, Plus

\* nwrite++ where the pipe is not full: one byte more.
LEMMA PutCount ==
  ASSUME TypeOK, CountInv, ~Full, nread' = nread, nwrite' = Plus(nwrite, 1)
  PROVE  Count \in 0..(PIPESIZE - 1) /\ Count' = Count + 1
<1>1. Count \in 0..(PIPESIZE - 1) /\ Count + 1 < UINT
  BY PipeAssumption, FullEmpty DEF CountInv
<1>2. UINT \in Nat \ {0} /\ nread \in 0..(UINT - 1) /\ nwrite \in 0..(UINT - 1)
  BY PipeAssumption DEF TypeOK, DataType
<1>3. (((nwrite + 1) % UINT) - nread) % UINT = ((nwrite - nread) % UINT) + 1
  BY <1>1, <1>2, Further, Zenon DEF Count
<1> QED
  BY <1>1, <1>3 DEF Count, Plus

\* nread++ where the pipe is not empty: one byte fewer.
LEMMA GetCount ==
  ASSUME TypeOK, ~Empty, nread' = Plus(nread, 1), nwrite' = nwrite
  PROVE  Count \in 1..(UINT - 1) /\ Count' = Count - 1
<1>1. UINT \in Nat \ {0} /\ nread \in 0..(UINT - 1) /\ nwrite \in 0..(UINT - 1) /\ nread # nwrite
  BY PipeAssumption DEF TypeOK, DataType, Empty
<1>2. (nwrite - ((nread + 1) % UINT)) % UINT = ((nwrite - nread) % UINT) - 1
  BY <1>1, Closer, Zenon
<1>3. Count \in 1..(UINT - 1)
  BY FullEmpty, PipeAssumption
<1> QED
  BY <1>2, <1>3 DEF Count, Plus

\* Queue is a sequence of Count bytes.
LEMMA QueueIs ==
  ASSUME TypeOK
  PROVE  Queue \in [1..Count -> Byte] /\ Count \in Nat
<1>1. Count \in Nat
  BY FullEmpty
<1>2. ASSUME NEW k \in 1..Count PROVE Plus(nread, k - 1) % PIPESIZE \in 0..(PIPESIZE - 1)
  <2>1. UINT \in Nat \ {0} /\ PIPESIZE \in Nat \ {0} /\ nread + (k - 1) \in Int
    BY <1>1, PipeAssumption DEF TypeOK, DataType
  <2>2. Plus(nread, k - 1) \in Int
    BY <2>1, ModType DEF Plus
  <2> QED
    BY <2>1, <2>2, ModType
<1>3. Queue = [k \in 1..Count |-> data[Plus(nread, k - 1) % PIPESIZE]]
  BY Zenon DEF Queue, Count
<1> QED
  BY <1>1, <1>2, <1>3 DEF TypeOK, DataType

\* pi->data[pi->nwrite++ % PIPESIZE] = ch overwrites no byte that is inside.
LEMMA PutQueue ==
  ASSUME TypeOK, TypeOK', CountInv, ~Full, nread' = nread, nwrite' = Plus(nwrite, 1),
         NEW b \in Byte, data' = [data EXCEPT ![nwrite % PIPESIZE] = b]
  PROVE  Len(Queue) < PIPESIZE /\ Queue' = Append(Queue, b)
<1>1. Count \in 0..(PIPESIZE - 1) /\ Count' = Count + 1 /\ Count \in Nat
  BY PutCount
<1>2. /\ UINT \in Nat \ {0} /\ PIPESIZE \in Nat \ {0} /\ PIPESIZE < UINT /\ UINT % PIPESIZE = 0
      /\ nread \in 0..(UINT - 1) /\ nwrite \in 0..(UINT - 1)
  BY PipeAssumption DEF TypeOK, DataType
<1>3. nwrite = Plus(nread, Count)
  BY <1>2, MinusBack DEF Count, Plus
<1>4. nwrite % PIPESIZE \in 0..(PIPESIZE - 1)
  BY <1>2, ModType
<1>5. ASSUME NEW k \in 1..Count PROVE Plus(nread, k - 1) % PIPESIZE # nwrite % PIPESIZE
  <2> DEFINE j == k - 1
  <2>1. j \in Nat /\ j < Count /\ Count < j + PIPESIZE /\ Count <= UINT
    BY <1>1, <1>2
  <2> HIDE DEF j
  <2>2. ((nread + j) % UINT) % PIPESIZE # ((nread + Count) % UINT) % PIPESIZE
    BY <1>1, <1>2, <2>1, SlotsDiffer, Zenon
  <2> QED
    BY <1>3, <2>2 DEF Plus, j
<1> DEFINE q2 == [k \in 1..(Count + 1) |-> data'[Plus(nread, k - 1) % PIPESIZE]]
<1>6. Queue' = q2
  <2>1. Queue' = [k \in 1..Count' |-> data'[Plus(nread', k - 1) % PIPESIZE]]
    BY Zenon DEF Queue, Count, Plus
  <2> QED
    BY <1>1, <2>1
<1>7. Queue \in [1..Count -> Byte] /\ Queue = [k \in 1..Count |-> data[Plus(nread, k - 1) % PIPESIZE]]
  BY QueueIs, Zenon DEF Queue, Count
<1>8. ASSUME NEW k \in 1..Count PROVE q2[k] = Queue[k] /\ q2[k] \in Byte
  <2>1. data'[Plus(nread, k - 1) % PIPESIZE] = data[Plus(nread, k - 1) % PIPESIZE]
    BY <1>4, <1>5 DEF TypeOK, DataType
  <2>2. k \in 1..(Count + 1)
    BY <1>1
  <2> QED
    BY <1>7, <2>1, <2>2
<1>9. q2[Count + 1] = b
  <2>1. Count + 1 \in 1..(Count + 1) /\ (Count + 1) - 1 = Count
    BY <1>1
  <2>2. data'[nwrite % PIPESIZE] = b
    BY <1>4 DEF TypeOK, DataType
  <2> QED
    BY <1>3, <2>1, <2>2
<1>10. q2 \in [1..(Count + 1) -> Byte]
  <2>1. ASSUME NEW k \in 1..(Count + 1) PROVE q2[k] \in Byte
    <3>1. k \in 1..Count \/ k = Count + 1
      BY <1>1
    <3> QED
      BY <3>1, <1>8, <1>9, Zenon
  <2> QED
    BY <2>1
<1> HIDE DEF q2
<1>11. q2 = Append(Queue, b)
  BY <1>1, <1>7, <1>8, <1>9, <1>10, IsAppend
<1>12. Len(Queue) = Count
  BY <1>1, <1>7, FunIsSeq
<1> QED
  BY <1>1, <1>2, <1>6, <1>11, <1>12

\* nread++ takes the oldest byte out.
LEMMA GetQueue ==
  ASSUME TypeOK, ~Empty, nread' = Plus(nread, 1), nwrite' = nwrite, data' = data
  PROVE  Queue # <<>> /\ Queue' = Tail(Queue)
<1>1. Count \in 1..(UINT - 1) /\ Count' = Count - 1 /\ Count \in Nat \ {0}
  BY GetCount, QueueIs
<1>2. UINT \in Nat \ {0} /\ nread \in 0..(UINT - 1)
  BY PipeAssumption DEF TypeOK, DataType
<1> DEFINE q2 == [k \in 1..(Count - 1) |-> data[Plus(nread', k - 1) % PIPESIZE]]
<1>3. Queue' = q2
  <2>1. Queue' = [k \in 1..Count' |-> data[Plus(nread', k - 1) % PIPESIZE]]
    BY Zenon DEF Queue, Count, Plus
  <2> QED
    BY <1>1, <2>1
<1>4. Queue \in [1..Count -> Byte] /\ Queue = [k \in 1..Count |-> data[Plus(nread, k - 1) % PIPESIZE]]
  BY QueueIs, Zenon DEF Queue, Count
<1>5. ASSUME NEW k \in 1..(Count - 1) PROVE q2[k] = Queue[k + 1]
  <2> DEFINE j == k - 1
  <2>1. j \in Nat /\ 1 + j <= UINT /\ k + 1 \in 1..Count /\ (k + 1) - 1 = 1 + j /\ nread + 1 + j = nread + (1 + j)
    BY <1>1, <1>2
  <2> HIDE DEF j
  <2>2. (((nread + 1) % UINT) + j) % UINT = (nread + 1 + j) % UINT
    BY <1>2, <2>1, PlusPlus
  <2>3. Plus(nread', j) = Plus(nread, 1 + j)
    BY <2>1, <2>2 DEF Plus
  <2>4. q2[k] = data[Plus(nread', j) % PIPESIZE]
    BY DEF j
  <2>5. Queue[k + 1] = data[Plus(nread, 1 + j) % PIPESIZE]
    BY <1>4, <2>1
  <2> QED
    BY <2>3, <2>4, <2>5
<1>6. q2 \in [1..(Count - 1) -> Byte]
  <2>1. ASSUME NEW k \in 1..(Count - 1) PROVE q2[k] \in Byte
    <3>1. k + 1 \in 1..Count
      BY <1>1
    <3>2. Queue[k + 1] \in Byte
      BY <1>4, <3>1, Zenon
    <3> QED
      BY <1>5, <3>2, Zenon
  <2> QED
    BY <2>1
<1> HIDE DEF q2
<1>7. Queue # <<>> /\ q2 = Tail(Queue)
  <2>1. Count \in Nat \ {0} /\ Queue \in [1..Count -> Byte]
    BY <1>1, <1>4
  <2>2. \A k \in 1..(Count - 1) : q2[k] = Queue[k + 1]
    BY <1>5
  <2> QED
    BY <2>1, <2>2, <1>6, IsTail, Zenon
<1> QED
  BY <1>3, <1>7

\* What the steps below use of the assumptions on the constants.
LEMMA Procs ==
  Readers \cap Writers = {} /\ None \notin Readers \cup Writers /\ IsFiniteSet(Readers \cup Writers)
BY PipeAssumption

\* The counters stay below UINT, and index the ring.
LEMMA Counters ==
  ASSUME TypeOK
  PROVE  /\ Plus(nread, 1) \in 0..(UINT - 1) /\ Plus(nwrite, 1) \in 0..(UINT - 1)
         /\ nwrite % PIPESIZE \in 0..(PIPESIZE - 1)
<1>1. UINT \in Nat \ {0} /\ PIPESIZE \in Nat \ {0} /\ nread \in Int /\ nwrite \in Int
  BY PipeAssumption DEF TypeOK, DataType
<1> QED
  BY <1>1, ModType DEF Plus

USE Procs

\* The invariant holds of a new pipe, whatever nread and nwrite wrap at.
LEMMA InitHolds == Init => PipeInv
<1> SUFFICES ASSUME Init PROVE PipeInv
  OBVIOUS
<1>1. \A e \in {"read", "write"} : IsFiniteSet(Holders(e)) /\ Cardinality(Holders(e)) \in Nat
  BY FS_Subset, FS_CardinalityType DEF Holders, Proc
<1>2. ref \in [{"read", "write"} -> Nat] /\ RefInv
  BY <1>1 DEF Init, Holders, RefInv
<1>3. TypeOK
  <2>1. data \in [0..(PIPESIZE - 1) -> Byte] /\ nread \in 0..(UINT - 1) /\ nwrite \in 0..(UINT - 1)
    BY PipeAssumption DEF Init
  <2>2. i \in [Proc -> Nat] /\ n \in [Proc -> Nat]
    BY DEF Init
  <2>3. pc = [p \in Proc |-> "user"] /\ pc \in [Proc -> ReadLabels \cup WriteLabels]
        /\ (\A p \in Proc : pc[p] \in ReadLabels /\ pc[p] \in WriteLabels)
    BY DEF Init, ReadLabels, WriteLabels
  <2>4. holds \in [Proc -> BOOLEAN] /\ killed \in [Proc -> BOOLEAN]
    BY DEF Init
  <2> QED
    BY <1>2, <2>1, <2>2, <2>3, <2>4, Zenon DEF Init, TypeOK, DataType, ProcType, Proc
<1>4. LockInv
  BY DEF Init, LockInv, Locked, Proc
<1>5. OpenInv
  BY Zenon DEF Init, OpenInv
<1>6. CountInv
  BY PipeAssumption, ModSmall DEF Init, CountInv, Count
<1> QED
  BY <1>2, <1>3, <1>4, <1>5, <1>6 DEF PipeInv

\* The descriptors of an end are counted: the last one has count 1.
LEMMA LastHolder ==
  ASSUME TypeOK, RefInv, NEW p \in Proc, holds[p]
  PROVE  /\ End(p) \in {"read", "write"} /\ ref[End(p)] \in Nat \ {0}
         /\ ref[End(p)] = 1 => Holders(End(p)) = {p}
<1>1. IsFiniteSet(Holders(End(p))) /\ p \in Holders(End(p)) /\ End(p) \in {"read", "write"}
  BY FS_Subset DEF Holders, Proc, End
<1>2. ref[End(p)] = Cardinality(Holders(End(p))) /\ ref[End(p)] \in Nat
  BY <1>1 DEF RefInv, TypeOK, DataType, ProcType
<1>3. Cardinality(Holders(End(p))) # 0
  BY <1>1, FS_EmptySet
<1>4. ASSUME Cardinality(Holders(End(p))) = 1 PROVE Holders(End(p)) = {p}
  BY <1>1, <1>4, FS_Singleton
<1> QED
  BY <1>1, <1>2, <1>3, <1>4

\* DataType of the next state, from its parts.
LEMMA DataIntro ==
  ASSUME data' \in [0..(PIPESIZE - 1) -> Byte],
         nread' \in 0..(UINT - 1), nwrite' \in 0..(UINT - 1),
         readopen' \in BOOLEAN, writeopen' \in BOOLEAN, freed' \in BOOLEAN,
         lock' \in Proc \cup {None}, ref' \in [{"read", "write"} -> Nat],
         i' \in [Proc -> Nat], n' \in [Proc -> Nat]
  PROVE  DataType'
BY Zenon DEF DataType

\* The types of the pipe, of its files and of the locals are preserved.
LEMMA DataStep ==
  ASSUME PipeInv, [Next]_vars
  PROVE  DataType'
<1>a. TypeOK /\ RefInv
  BY DEF PipeInv
<1>b. /\ data \in [0..(PIPESIZE - 1) -> Byte]
      /\ nread \in 0..(UINT - 1) /\ nwrite \in 0..(UINT - 1)
      /\ readopen \in BOOLEAN /\ writeopen \in BOOLEAN /\ freed \in BOOLEAN
      /\ lock \in Proc \cup {None}
      /\ ref \in [{"read", "write"} -> Nat]
      /\ i \in [Proc -> Nat] /\ n \in [Proc -> Nat]
  BY <1>a DEF TypeOK, DataType
<1> USE <1>a, <1>b, DataIntro
<1>1. ASSUME NEW p \in Proc, Acquire(p) PROVE DataType'
  BY <1>1 DEF Acquire, Goto, pipeVars, fileVars
<1>2. ASSUME NEW p \in Proc, Sleep(p) PROVE DataType'
  BY <1>2 DEF Sleep, Goto, Release, pipeVars, fileVars
<1>3. ASSUME NEW p \in Proc, WriteFail(p) PROVE DataType'
  BY <1>3 DEF WriteFail, Goto, Release, Return, pipeVars, fileVars
<1>4. ASSUME NEW p \in Proc, WriteFull(p) PROVE DataType'
  BY <1>4 DEF WriteFull, WakeReaders, pipeVars, fileVars
<1>5. ASSUME NEW p \in Proc, WriteByte(p) PROVE DataType'
  BY <1>5, Counters, SMTT(20) DEF WriteByte, fileVars
<1>6. ASSUME NEW p \in Proc, WriteDone(p) PROVE DataType'
  BY <1>6 DEF WriteDone, Release, Return, WakeReaders, pipeVars, fileVars
<1>7. ASSUME NEW p \in Proc, ReadWait(p) PROVE DataType'
  <2>1. lock' \in {lock, None} /\ i' \in {i, [i EXCEPT ![p] = 0]} /\ n' \in {n, [n EXCEPT ![p] = 0]}
    BY <1>7, Zenon DEF ReadWait, Release, Return
  <2>2. i' \in [Proc -> Nat] /\ n' \in [Proc -> Nat] /\ lock' \in Proc \cup {None}
    <3>1. i \in [Proc -> Nat] /\ n \in [Proc -> Nat] /\ lock \in Proc \cup {None}
      OBVIOUS
    <3>2. [i EXCEPT ![p] = 0] \in [Proc -> Nat] /\ [n EXCEPT ![p] = 0] \in [Proc -> Nat]
      BY <3>1
    <3> QED
      BY <2>1, <3>1, <3>2, Zenon
  <2> QED
    BY <1>7, <2>2, Zenon DEF ReadWait, pipeVars, fileVars
<1>8. ASSUME NEW p \in Proc, ReadByte(p) PROVE DataType'
  BY <1>8, Counters DEF ReadByte, fileVars
<1>9. ASSUME NEW p \in Proc, ReadFault(p) PROVE DataType'
  BY <1>9, Counters DEF ReadFault, Release, Return, fileVars
<1>10. ASSUME NEW p \in Proc, ReadDone(p) PROVE DataType'
  BY <1>10 DEF ReadDone, Release, Return, WakeWriters, pipeVars, fileVars
<1>11. ASSUME NEW p \in Proc, PipeClose(p) PROVE DataType'
  <2>1. readopen' \in {readopen, FALSE} /\ writeopen' \in {writeopen, FALSE}
    BY <1>11, Zenon DEF PipeClose
  <2> QED
    BY <1>11, <2>1, Zenon DEF PipeClose, fileVars
<1>12. ASSUME NEW p \in Proc, KFree(p) PROVE DataType'
  BY <1>12 DEF KFree, Goto, pipeVars, fileVars
<1>13. ASSUME NEW p \in Proc, Call(p) PROVE DataType'
  BY <1>13 DEF Call, Goto, pipeVars, fileVars
<1>14. ASSUME NEW p \in Proc, FileClose(p) PROVE DataType'
  <2>1. ref[End(p)] - 1 \in Nat /\ End(p) \in {"read", "write"}
    BY <1>14, LastHolder DEF FileClose
  <2> QED
    BY <1>14, <2>1 DEF FileClose, pipeVars
<1>15. ASSUME NEW p \in Proc, Kill(p) PROVE DataType'
  BY <1>15 DEF Kill, pipeVars, fileVars
<1>16. ASSUME NEW p \in Proc, NEW q \in Proc, FileDup(p, q) PROVE DataType'
  <2>1. End(p) \in {"read", "write"}
    BY DEF End
  <2> QED
    BY <1>16, <2>1, SMTT(20) DEF FileDup, pipeVars
<1>17. CASE UNCHANGED vars
  BY <1>17 DEF vars, pipeVars, fileVars
<1> QED
  BY <1>1, <1>2, <1>3, <1>4, <1>5, <1>6, <1>7, <1>8, <1>9, <1>10, <1>11, <1>12, <1>13, <1>14,
     <1>15, <1>16, <1>17, Zenon DEF Next, Advance

\* Readers stay in piperead(), writers in pipewrite().
LEMMA ProcStep ==
  ASSUME PipeInv, [Next]_vars
  PROVE  ProcType'
<1>a. ProcType
  BY DEF PipeInv, TypeOK
<1> USE <1>a
<1>1. ASSUME NEW p \in Proc, Acquire(p) PROVE ProcType'
  BY <1>1 DEF ProcType, Proc, ReadLabels, WriteLabels, Acquire, Goto, pipeVars, fileVars
<1>2. ASSUME NEW p \in Proc, Sleep(p) PROVE ProcType'
  BY <1>2 DEF ProcType, Proc, ReadLabels, WriteLabels, Sleep, Goto, Release, pipeVars, fileVars
<1>3. ASSUME NEW p \in Proc, WriteFail(p) PROVE ProcType'
  BY <1>3 DEF ProcType, Proc, ReadLabels, WriteLabels, WriteFail, Goto, Release, Return, pipeVars,
     fileVars
<1>4. ASSUME NEW p \in Proc, WriteFull(p) PROVE ProcType'
  BY <1>4 DEF ProcType, Proc, ReadLabels, WriteLabels, WriteFull, WakeReaders, pipeVars, fileVars
<1>5. ASSUME NEW p \in Proc, WriteByte(p) PROVE ProcType'
  BY <1>5 DEF ProcType, Proc, ReadLabels, WriteLabels, WriteByte, Plus, pipeVars, fileVars
<1>6. ASSUME NEW p \in Proc, WriteDone(p) PROVE ProcType'
  BY <1>6 DEF ProcType, Proc, ReadLabels, WriteLabels, WriteDone, Release, Return, WakeReaders,
     pipeVars, fileVars
<1>7. ASSUME NEW p \in Proc, ReadWait(p) PROVE ProcType'
  <2>1. \E l \in {"user", "r_sleep", "r_loop"} : pc' = [pc EXCEPT ![p] = l]
    BY <1>7 DEF ReadWait, Goto
  <2>2. p \in Readers
    BY <1>7 DEF ReadWait, ProcType, WriteLabels, Proc
  <2> QED
    BY <1>7, <2>1, <2>2 DEF ReadWait, ProcType, Proc, ReadLabels, WriteLabels, fileVars
<1>8. ASSUME NEW p \in Proc, ReadByte(p) PROVE ProcType'
  BY <1>8 DEF ProcType, Proc, ReadLabels, WriteLabels, ReadByte, Plus, pipeVars, fileVars
<1>9. ASSUME NEW p \in Proc, ReadFault(p) PROVE ProcType'
  BY <1>9 DEF ProcType, Proc, ReadLabels, WriteLabels, ReadFault, Release, Return, WakeWriters,
     Plus, pipeVars, fileVars
<1>10. ASSUME NEW p \in Proc, ReadDone(p) PROVE ProcType'
  BY <1>10 DEF ProcType, Proc, ReadLabels, WriteLabels, ReadDone, Release, Return, WakeWriters,
     pipeVars, fileVars
<1>11. ASSUME NEW p \in Proc, PipeClose(p) PROVE ProcType'
  <2>1. \A q \in Proc : \/ pc'[q] \in {pc[q], "user", "kfree"}
                        \/ q \in Readers /\ pc'[q] = "r_lock"
                        \/ q \in Writers /\ pc'[q] = "w_lock"
    BY <1>11 DEF PipeClose, WakeReaders, WakeWriters, ProcType, Proc, ReadLabels, WriteLabels
  <2>2. pc' = [q \in Proc |-> pc'[q]]
    BY <1>11, Zenon DEF PipeClose, WakeReaders, WakeWriters
  <2> QED
    BY <1>11, <2>1, <2>2 DEF PipeClose, ProcType, Proc, ReadLabels, WriteLabels, fileVars
<1>12. ASSUME NEW p \in Proc, KFree(p) PROVE ProcType'
  BY <1>12 DEF ProcType, Proc, ReadLabels, WriteLabels, KFree, Goto, pipeVars, fileVars
<1>13. ASSUME NEW p \in Proc, Call(p) PROVE ProcType'
  BY <1>13 DEF ProcType, Proc, ReadLabels, WriteLabels, Call, Goto, pipeVars, fileVars
<1>14. ASSUME NEW p \in Proc, FileClose(p) PROVE ProcType'
  BY <1>14 DEF ProcType, Proc, ReadLabels, WriteLabels, FileClose, Goto, pipeVars, fileVars
<1>15. ASSUME NEW p \in Proc, Kill(p) PROVE ProcType'
  BY <1>15 DEF ProcType, Proc, ReadLabels, WriteLabels, Kill, pipeVars, fileVars
<1>16. ASSUME NEW p \in Proc, NEW q \in Proc, FileDup(p, q) PROVE ProcType'
  BY <1>16 DEF ProcType, Proc, ReadLabels, WriteLabels, FileDup, pipeVars, fileVars
<1>17. CASE UNCHANGED vars
  BY <1>17 DEF ProcType, Proc, ReadLabels, WriteLabels, vars, pipeVars, fileVars
<1> QED
  BY <1>1, <1>2, <1>3, <1>4, <1>5, <1>6, <1>7, <1>8, <1>9, <1>10, <1>11, <1>12, <1>13, <1>14,
     <1>15, <1>16, <1>17, Zenon DEF Next, Advance

\* One process at a time is between acquire() and release().
LEMMA LockStep ==
  ASSUME PipeInv, [Next]_vars
  PROVE  LockInv'
<1>a. /\ pc \in [Proc -> ReadLabels \cup WriteLabels] /\ None \notin Proc
      /\ \A q \in Proc : lock = q <=> pc[q] \in Locked
  BY DEF PipeInv, TypeOK, ProcType, LockInv, Proc
<1> USE <1>a
<1>1. ASSUME NEW p \in Proc, Acquire(p) PROVE LockInv'
  BY <1>1 DEF LockInv, Locked, Acquire, Goto
<1>2. ASSUME NEW p \in Proc, Sleep(p) PROVE LockInv'
  BY <1>2 DEF LockInv, Locked, Sleep, Goto, Release
<1>3. ASSUME NEW p \in Proc, WriteFail(p) PROVE LockInv'
  BY <1>3 DEF LockInv, Locked, WriteFail, Goto, Release, Return
<1>4. ASSUME NEW p \in Proc, WriteFull(p) PROVE LockInv'
  BY <1>4 DEF LockInv, Locked, WriteFull, WakeReaders
<1>5. ASSUME NEW p \in Proc, WriteByte(p) PROVE LockInv'
  BY <1>5 DEF LockInv, Locked, WriteByte
<1>6. ASSUME NEW p \in Proc, WriteDone(p) PROVE LockInv'
  BY <1>6 DEF LockInv, Locked, WriteDone, Release, Return, WakeReaders
<1>7. ASSUME NEW p \in Proc, ReadWait(p) PROVE LockInv'
  BY <1>7 DEF LockInv, Locked, ReadWait, Goto, Release, Return
<1>8. ASSUME NEW p \in Proc, ReadByte(p) PROVE LockInv'
  BY <1>8 DEF LockInv, Locked, ReadByte
<1>9. ASSUME NEW p \in Proc, ReadFault(p) PROVE LockInv'
  BY <1>9 DEF LockInv, Locked, ReadFault, Release, Return, WakeWriters
<1>10. ASSUME NEW p \in Proc, ReadDone(p) PROVE LockInv'
  BY <1>10 DEF LockInv, Locked, ReadDone, Release, Return, WakeWriters
<1>11. ASSUME NEW p \in Proc, PipeClose(p) PROVE LockInv'
  BY <1>11 DEF LockInv, Locked, PipeClose, WakeReaders, WakeWriters
<1>12. ASSUME NEW p \in Proc, KFree(p) PROVE LockInv'
  BY <1>12 DEF LockInv, Locked, KFree, Goto
<1>13. ASSUME NEW p \in Proc, Call(p) PROVE LockInv'
  BY <1>13 DEF LockInv, Locked, Call, Goto
<1>14. ASSUME NEW p \in Proc, FileClose(p) PROVE LockInv'
  BY <1>14 DEF LockInv, Locked, FileClose, Goto
<1>15. ASSUME NEW p \in Proc, Kill(p) PROVE LockInv'
  BY <1>15 DEF LockInv, Locked, Kill
<1>16. ASSUME NEW p \in Proc, NEW q \in Proc, FileDup(p, q) PROVE LockInv'
  BY <1>16 DEF LockInv, Locked, FileDup
<1>17. CASE UNCHANGED vars
  BY <1>17, SMTT(20) DEF LockInv, Locked, vars
<1> QED
  BY <1>1, <1>2, <1>3, <1>4, <1>5, <1>6, <1>7, <1>8, <1>9, <1>10, <1>11, <1>12, <1>13, <1>14,
     <1>15, <1>16, <1>17, Zenon DEF Next, Advance

\* f->ref stays the number of descriptors.
LEMMA RefStep ==
  ASSUME PipeInv, [Next]_vars
  PROVE  RefInv'
<1>a. TypeOK /\ RefInv
  BY DEF PipeInv
<1> USE <1>a
<1>1. ASSUME NEW p \in Proc, Acquire(p) PROVE RefInv'
  BY <1>1, Zenon DEF RefInv, Holders, Acquire, Goto, fileVars
<1>2. ASSUME NEW p \in Proc, Sleep(p) PROVE RefInv'
  BY <1>2, Zenon DEF RefInv, Holders, Sleep, Goto, Release, fileVars
<1>3. ASSUME NEW p \in Proc, WriteFail(p) PROVE RefInv'
  BY <1>3, Zenon DEF RefInv, Holders, WriteFail, Goto, Release, Return, fileVars
<1>4. ASSUME NEW p \in Proc, WriteFull(p) PROVE RefInv'
  BY <1>4, Zenon DEF RefInv, Holders, WriteFull, WakeReaders, fileVars
<1>5. ASSUME NEW p \in Proc, WriteByte(p) PROVE RefInv'
  BY <1>5, Zenon DEF RefInv, Holders, WriteByte, fileVars
<1>6. ASSUME NEW p \in Proc, WriteDone(p) PROVE RefInv'
  BY <1>6, Zenon DEF RefInv, Holders, WriteDone, Release, Return, WakeReaders, fileVars
<1>7. ASSUME NEW p \in Proc, ReadWait(p) PROVE RefInv'
  BY <1>7, Zenon DEF RefInv, Holders, ReadWait, Goto, Release, Return, fileVars
<1>8. ASSUME NEW p \in Proc, ReadByte(p) PROVE RefInv'
  BY <1>8, Zenon DEF RefInv, Holders, ReadByte, fileVars
<1>9. ASSUME NEW p \in Proc, ReadFault(p) PROVE RefInv'
  BY <1>9, Zenon DEF RefInv, Holders, ReadFault, Release, Return, WakeWriters, fileVars
<1>10. ASSUME NEW p \in Proc, ReadDone(p) PROVE RefInv'
  BY <1>10, Zenon DEF RefInv, Holders, ReadDone, Release, Return, WakeWriters, fileVars
<1>11. ASSUME NEW p \in Proc, PipeClose(p) PROVE RefInv'
  BY <1>11, Zenon DEF RefInv, Holders, PipeClose, WakeReaders, WakeWriters, fileVars
<1>12. ASSUME NEW p \in Proc, KFree(p) PROVE RefInv'
  BY <1>12, Zenon DEF RefInv, Holders, KFree, Goto, fileVars
<1>13. ASSUME NEW p \in Proc, Call(p) PROVE RefInv'
  BY <1>13, Zenon DEF RefInv, Holders, Call, Goto, fileVars
<1>14. ASSUME NEW p \in Proc, FileClose(p) PROVE RefInv'
  <2>1. /\ ref' = [ref EXCEPT ![End(p)] = @ - 1] /\ holds' = [holds EXCEPT ![p] = FALSE] /\ holds[p]
        /\ End(p) \in {"read", "write"}
    BY <1>14, LastHolder DEF FileClose
  <2> SUFFICES ASSUME NEW e \in {"read", "write"} PROVE ref'[e] = Cardinality(Holders(e)')
    BY DEF RefInv
  <2>2. Holders(e)' = IF e = End(p) THEN Holders(e) \ {p} ELSE Holders(e)
    BY <2>1 DEF Holders, TypeOK, DataType, ProcType
  <2>3. IsFiniteSet(Holders(e)) /\ (e = End(p) => p \in Holders(e))
    BY <2>1, FS_Subset DEF Holders, Proc
  <2>4. Cardinality(Holders(e) \ {p}) = IF p \in Holders(e) THEN Cardinality(Holders(e)) - 1 ELSE Cardinality(Holders(e))
    BY <2>3, FS_RemoveElement, Zenon
  <2> QED
    BY <2>1, <2>2, <2>3, <2>4 DEF RefInv, TypeOK, DataType, ProcType
<1>15. ASSUME NEW p \in Proc, Kill(p) PROVE RefInv'
  BY <1>15, Zenon DEF RefInv, Holders, Kill, fileVars
<1>16. ASSUME NEW p \in Proc, NEW q \in Proc, FileDup(p, q) PROVE RefInv'
  <2>1. /\ ref' = [ref EXCEPT ![End(q)] = @ + 1] /\ holds' = [holds EXCEPT ![q] = TRUE] /\ ~holds[q]
        /\ End(q) \in {"read", "write"}
    BY <1>16, Zenon DEF FileDup, End
  <2> SUFFICES ASSUME NEW e \in {"read", "write"} PROVE ref'[e] = Cardinality(Holders(e)')
    BY DEF RefInv
  <2>2. Holders(e)' = IF e = End(q) THEN Holders(e) \cup {q} ELSE Holders(e)
    BY <2>1 DEF Holders, TypeOK, DataType, ProcType
  <2>3. IsFiniteSet(Holders(e)) /\ q \notin Holders(e)
    BY <2>1, FS_Subset DEF Holders, Proc
  <2>4. Cardinality(Holders(e) \cup {q}) = Cardinality(Holders(e)) + 1
    BY <2>3, FS_AddElement, Zenon
  <2> QED
    BY <2>1, <2>2, <2>4 DEF RefInv, TypeOK, DataType, ProcType
<1>17. CASE UNCHANGED vars
  BY <1>17, Zenon DEF RefInv, Holders, vars, fileVars
<1> QED
  BY <1>1, <1>2, <1>3, <1>4, <1>5, <1>6, <1>7, <1>8, <1>9, <1>10, <1>11, <1>12, <1>13, <1>14,
     <1>15, <1>16, <1>17, Zenon DEF Next, Advance

\* OpenInv of the next state, from its parts.
LEMMA OpenIntro ==
  ASSUME \A p \in Proc : pc'[p] \notin {"user", "close", "kfree"} => holds'[p],
         \A p \in Proc : pc'[p] \in {"close", "kfree"} => ~holds'[p],
         \A p \in Proc : holds'[p] \/ pc'[p] = "close" => IF p \in Readers THEN readopen' ELSE writeopen',
         \A p, q \in Proc : pc'[p] = "close" /\ End(q) = End(p) => ~holds'[q] /\ (pc'[q] = "close" => q = p),
         \A p, q \in Proc : pc'[p] = "kfree" => ~readopen' /\ ~writeopen' /\ ~freed' /\ (pc'[q] = "kfree" => q = p),
         freed' => ~readopen' /\ ~writeopen'
  PROVE  OpenInv'
BY Zenon DEF OpenInv

\* An end is open while somebody has it, and closed once.
LEMMA OpenStep ==
  ASSUME PipeInv, [Next]_vars
  PROVE  OpenInv'
<1>a. /\ pc \in [Proc -> ReadLabels \cup WriteLabels] /\ holds \in [Proc -> BOOLEAN]
      /\ Proc = Readers \cup Writers
  BY DEF PipeInv, TypeOK, ProcType, Proc
<1>b. /\ \A p \in Proc : /\ pc[p] \notin {"user", "close", "kfree"} => holds[p]
                         /\ pc[p] \in {"close", "kfree"} => ~holds[p]
                         /\ holds[p] \/ pc[p] = "close" => IF p \in Readers THEN readopen ELSE writeopen
      /\ \A p, q \in Proc : pc[p] = "close" /\ End(q) = End(p) => ~holds[q] /\ (pc[q] = "close" => q = p)
      /\ \A p, q \in Proc : pc[p] = "kfree" => ~readopen /\ ~writeopen /\ ~freed /\ (pc[q] = "kfree" => q = p)
      /\ freed => ~readopen /\ ~writeopen
  BY Zenon DEF PipeInv, OpenInv
<1> USE <1>a, <1>b, OpenIntro
<1>1. ASSUME NEW p \in Proc, Acquire(p) PROVE OpenInv'
  BY <1>1, SMTT(20) DEF End, Acquire, Goto, pipeVars, fileVars
<1>2. ASSUME NEW p \in Proc, Sleep(p) PROVE OpenInv'
  BY <1>2, SMTT(20) DEF End, Sleep, Goto, Release, pipeVars, fileVars
<1>3. ASSUME NEW p \in Proc, WriteFail(p) PROVE OpenInv'
  BY <1>3, SMTT(20) DEF End, WriteFail, Goto, Release, Return, pipeVars, fileVars
<1>4. ASSUME NEW p \in Proc, WriteFull(p) PROVE OpenInv'
  BY <1>4, SMTT(20) DEF End, WriteFull, WakeReaders, pipeVars, fileVars
<1>5. ASSUME NEW p \in Proc, WriteByte(p) PROVE OpenInv'
  BY <1>5, SMTT(20) DEF End, WriteByte, pipeVars, fileVars
<1>6. ASSUME NEW p \in Proc, WriteDone(p) PROVE OpenInv'
  BY <1>6, SMTT(20) DEF End, WriteDone, Release, Return, WakeReaders, pipeVars, fileVars
<1>7. ASSUME NEW p \in Proc, ReadWait(p) PROVE OpenInv'
  <2>1. \E l \in {"user", "r_sleep", "r_loop"} : pc' = [pc EXCEPT ![p] = l]
    BY <1>7 DEF ReadWait, Goto
  <2>2. pc[p] = "r_wait" /\ UNCHANGED <<readopen, writeopen, freed, holds>>
    BY <1>7 DEF ReadWait, pipeVars, fileVars
  <2> QED
    BY <2>1, <2>2 DEF End
<1>8. ASSUME NEW p \in Proc, ReadByte(p) PROVE OpenInv'
  BY <1>8, SMTT(20) DEF End, ReadByte, pipeVars, fileVars
<1>9. ASSUME NEW p \in Proc, ReadFault(p) PROVE OpenInv'
  BY <1>9, SMTT(20) DEF End, ReadFault, Release, Return, WakeWriters, pipeVars, fileVars
<1>10. ASSUME NEW p \in Proc, ReadDone(p) PROVE OpenInv'
  BY <1>10, SMTT(20) DEF End, ReadDone, Release, Return, WakeWriters, pipeVars, fileVars
<1>11. ASSUME NEW p \in Proc, PipeClose(p) PROVE OpenInv'
  <2>1. pc[p] = "close" /\ UNCHANGED <<freed, holds>>
    BY <1>11 DEF PipeClose, fileVars
  <2>2. CASE p \in Writers
    <3>1. writeopen' = FALSE /\ readopen' = readopen /\ WakeReaders(p, IF readopen THEN "user" ELSE "kfree")
      BY <1>11, <2>2, Zenon DEF PipeClose
    <3> QED
      BY <2>1, <2>2, <3>1, SMTT(20) DEF End, WakeReaders
  <2>3. CASE p \in Readers
    <3>1. readopen' = FALSE /\ writeopen' = writeopen /\ WakeWriters(p, IF writeopen THEN "user" ELSE "kfree")
      BY <1>11, <2>3, Zenon DEF PipeClose
    <3> QED
      BY <2>1, <2>3, <3>1 DEF End, WakeWriters
  <2> QED
    BY <2>2, <2>3
<1>12. ASSUME NEW p \in Proc, KFree(p) PROVE OpenInv'
  BY <1>12, SMTT(20) DEF End, KFree, Goto, pipeVars, fileVars
<1>13. ASSUME NEW p \in Proc, Call(p) PROVE OpenInv'
  BY <1>13, SMTT(20) DEF End, Call, Goto, pipeVars, fileVars
<1>14. ASSUME NEW p \in Proc, FileClose(p) PROVE OpenInv'
  <2>1. ref[End(p)] = 1 => \A q \in Proc : holds[q] /\ End(q) = End(p) => q = p
    <3>1. TypeOK /\ RefInv /\ holds[p]
      BY <1>14 DEF PipeInv, FileClose
    <3> QED
      BY <3>1, LastHolder DEF Holders
  <2> QED
    BY <1>14, <2>1, SMTT(20) DEF End, FileClose, Goto, pipeVars, fileVars
<1>15. ASSUME NEW p \in Proc, Kill(p) PROVE OpenInv'
  BY <1>15, SMTT(20) DEF End, Kill, pipeVars, fileVars
<1>16. ASSUME NEW p \in Proc, NEW q \in Proc, FileDup(p, q) PROVE OpenInv'
  BY <1>16, SMTT(20) DEF End, FileDup, pipeVars, fileVars
<1>17. CASE UNCHANGED vars
  BY <1>17, SMTT(20) DEF End, vars, pipeVars, fileVars
<1> QED
  BY <1>1, <1>2, <1>3, <1>4, <1>5, <1>6, <1>7, <1>8, <1>9, <1>10, <1>11, <1>12, <1>13, <1>14,
     <1>15, <1>16, <1>17, Zenon DEF Next, Advance

\* The writer stops at a full ring, the reader at an empty one.
LEMMA CountStep ==
  ASSUME PipeInv, [Next]_vars
  PROVE  CountInv'
<1>a. TypeOK /\ CountInv
  BY DEF PipeInv
<1> USE <1>a
<1>1. ASSUME NEW p \in Proc, Acquire(p) PROVE CountInv'
  BY <1>1 DEF CountInv, Count, Acquire, Goto, pipeVars, fileVars
<1>2. ASSUME NEW p \in Proc, Sleep(p) PROVE CountInv'
  BY <1>2 DEF CountInv, Count, Sleep, Goto, Release, pipeVars, fileVars
<1>3. ASSUME NEW p \in Proc, WriteFail(p) PROVE CountInv'
  BY <1>3 DEF CountInv, Count, WriteFail, Goto, Release, Return, pipeVars, fileVars
<1>4. ASSUME NEW p \in Proc, WriteFull(p) PROVE CountInv'
  BY <1>4 DEF CountInv, Count, WriteFull, WakeReaders, pipeVars, fileVars
<1>5. ASSUME NEW p \in Proc, WriteByte(p) PROVE CountInv'
  BY <1>5, PutCount, PipeAssumption DEF WriteByte, CountInv
<1>6. ASSUME NEW p \in Proc, WriteDone(p) PROVE CountInv'
  BY <1>6 DEF CountInv, Count, WriteDone, Release, Return, WakeReaders, pipeVars, fileVars
<1>7. ASSUME NEW p \in Proc, ReadWait(p) PROVE CountInv'
  BY <1>7, SMTT(20) DEF CountInv, Count, ReadWait, Goto, Release, Return, pipeVars, fileVars
<1>8. ASSUME NEW p \in Proc, ReadByte(p) PROVE CountInv'
  BY <1>8, GetCount, PipeAssumption DEF ReadByte, CountInv
<1>9. ASSUME NEW p \in Proc, ReadFault(p) PROVE CountInv'
  BY <1>9, GetCount, PipeAssumption DEF ReadFault, CountInv
<1>10. ASSUME NEW p \in Proc, ReadDone(p) PROVE CountInv'
  BY <1>10 DEF CountInv, Count, ReadDone, Release, Return, WakeWriters, pipeVars, fileVars
<1>11. ASSUME NEW p \in Proc, PipeClose(p) PROVE CountInv'
  BY <1>11 DEF CountInv, Count, PipeClose, WakeReaders, WakeWriters, pipeVars, fileVars
<1>12. ASSUME NEW p \in Proc, KFree(p) PROVE CountInv'
  BY <1>12 DEF CountInv, Count, KFree, Goto, pipeVars, fileVars
<1>13. ASSUME NEW p \in Proc, Call(p) PROVE CountInv'
  BY <1>13 DEF CountInv, Count, Call, Goto, pipeVars, fileVars
<1>14. ASSUME NEW p \in Proc, FileClose(p) PROVE CountInv'
  BY <1>14 DEF CountInv, Count, FileClose, Goto, pipeVars, fileVars
<1>15. ASSUME NEW p \in Proc, Kill(p) PROVE CountInv'
  BY <1>15 DEF CountInv, Count, Kill, pipeVars, fileVars
<1>16. ASSUME NEW p \in Proc, NEW q \in Proc, FileDup(p, q) PROVE CountInv'
  BY <1>16 DEF CountInv, Count, FileDup, pipeVars, fileVars
<1>17. CASE UNCHANGED vars
  BY <1>17 DEF CountInv, Count, vars, pipeVars, fileVars
<1> QED
  BY <1>1, <1>2, <1>3, <1>4, <1>5, <1>6, <1>7, <1>8, <1>9, <1>10, <1>11, <1>12, <1>13, <1>14,
     <1>15, <1>16, <1>17, Zenon DEF Next, Advance

\* SleepInv of the next state, from its parts.
LEMMA SleepIntro ==
  ASSUME \A p \in Readers : pc'[p] = "r_sleep" => Empty' /\ writeopen',
         \A p \in Readers : pc'[p] = "r_asleep" =>
                             writeopen' /\ (Empty' \/ abandoned' \/ \E q \in Writers : pc'[q] = "w_loop" /\ i'[q] > 0),
         \A p \in Writers : pc'[p] = "w_sleep" => Full' /\ readopen',
         \A p \in Writers : pc'[p] = "w_asleep" =>
                             readopen' /\ (Full' \/ \E q \in Readers : pc'[q] = "r_loop")
  PROVE  SleepInv'
BY Zenon DEF SleepInv, Putting

\* Nobody goes to sleep without a reason, and who takes the reason away wakes
\* them before the lock is free again.
LEMMA SleepStep ==
  ASSUME PipeInv, SleepInv, [Next]_vars
  PROVE  SleepInv'
<1>a. /\ pc \in [Proc -> ReadLabels \cup WriteLabels] /\ i \in [Proc -> Nat]
      /\ Proc = Readers \cup Writers
      /\ \A p \in Readers : pc[p] \in ReadLabels
      /\ \A p \in Writers : pc[p] \in WriteLabels
  BY DEF PipeInv, TypeOK, DataType, ProcType, Proc
<1>b. \A p \in Proc : lock = p <=> pc[p] \in {"r_wait", "r_sleep", "r_loop", "w_loop", "w_sleep"}
  BY DEF PipeInv, LockInv, Locked
<1>c. \A p \in Proc : pc[p] \notin {"user", "kfree"} => IF p \in Readers THEN readopen ELSE writeopen
  BY DEF PipeInv, OpenInv
<1>d. /\ \A p \in Readers : /\ pc[p] = "r_sleep" => Empty /\ writeopen
                            /\ pc[p] = "r_asleep" =>
                                 writeopen /\ (Empty \/ abandoned \/ \E q \in Writers : pc[q] = "w_loop" /\ i[q] > 0)
      /\ \A p \in Writers : /\ pc[p] = "w_sleep" => Full /\ readopen
                            /\ pc[p] = "w_asleep" =>
                                 readopen /\ (Full \/ \E q \in Readers : pc[q] = "r_loop")
  BY Zenon DEF SleepInv, Putting
<1> USE <1>a, <1>b, <1>c, <1>d, SleepIntro
<1>1. ASSUME NEW p \in Proc, Acquire(p) PROVE SleepInv'
  BY <1>1 DEF ReadLabels, WriteLabels, Empty, Full, Acquire, Goto, pipeVars, fileVars
<1>2. ASSUME NEW p \in Proc, Sleep(p) PROVE SleepInv'
  BY <1>2, SMTT(20) DEF ReadLabels, WriteLabels, Empty, Full, Sleep, Goto, Release, pipeVars, fileVars
<1>3. ASSUME NEW p \in Proc, WriteFail(p) PROVE SleepInv'
  <2>1. /\ pc[p] = "w_loop" /\ (~readopen \/ killed[p]) /\ pc' = [pc EXCEPT ![p] = "user"]
        /\ i' = [i EXCEPT ![p] = 0] /\ abandoned' = (abandoned \/ (killed[p] /\ i[p] > 0))
        /\ UNCHANGED <<nread, nwrite, readopen, writeopen>>
    BY <1>3, Zenon DEF WriteFail, Goto, Return, pipeVars
  <2>2. /\ lock = p /\ p \in Writers
        /\ \A q \in Proc : pc[q] \in {"r_wait", "r_sleep", "r_loop", "w_loop", "w_sleep"} => q = p
    BY <2>1 DEF ReadLabels
  <2>3. UNCHANGED <<Empty, Full>>
    BY <2>1 DEF Empty, Full
  <2>4. ASSUME NEW q \in Readers, pc'[q] = "r_asleep" PROVE writeopen' /\ (Empty' \/ abandoned')
    <3>1. pc[q] = "r_asleep" /\ q \in Proc
      BY <2>1, <2>2, <2>4
    <3>2. readopen /\ writeopen /\ (Empty \/ abandoned \/ i[p] > 0)
      BY <2>2, <3>1
    <3> QED
      BY <2>1, <2>3, <3>2, Zenon
  <2>5. ASSUME NEW q \in Writers, pc'[q] = "w_asleep" PROVE readopen' /\ Full'
    BY <2>1, <2>2, <2>3, <2>5
  <2>6. \A q \in Proc : pc'[q] \notin {"r_sleep", "w_sleep"}
    BY <2>1, <2>2
  <2> QED
    BY <2>4, <2>5, <2>6, Zenon
<1>4. ASSUME NEW p \in Proc, WriteFull(p) PROVE SleepInv'
  BY <1>4, SMTT(20) DEF ReadLabels, WriteLabels, Empty, Full, WriteFull, WakeReaders, pipeVars,
     fileVars
<1>5. ASSUME NEW p \in Proc, WriteByte(p) PROVE SleepInv'
  BY <1>5 DEF ReadLabels, WriteLabels, Empty, Full, WriteByte, Plus, pipeVars, fileVars
<1>6. ASSUME NEW p \in Proc, WriteDone(p) PROVE SleepInv'
  BY <1>6 DEF ReadLabels, WriteLabels, Empty, Full, WriteDone, Release, Return, WakeReaders,
     pipeVars, fileVars
<1>7. ASSUME NEW p \in Proc, ReadWait(p) PROVE SleepInv'
  BY <1>7, SMTT(20) DEF ReadLabels, WriteLabels, Empty, Full, ReadWait, Goto, Release, Return,
     pipeVars, fileVars
<1>8. ASSUME NEW p \in Proc, ReadByte(p) PROVE SleepInv'
  BY <1>8 DEF ReadLabels, WriteLabels, Empty, Full, ReadByte, Plus, pipeVars, fileVars
<1>9. ASSUME NEW p \in Proc, ReadFault(p) PROVE SleepInv'
  BY <1>9, SMTT(20) DEF ReadLabels, WriteLabels, Empty, Full, ReadFault, Release, Return,
     WakeWriters, Plus, pipeVars, fileVars
<1>10. ASSUME NEW p \in Proc, ReadDone(p) PROVE SleepInv'
  BY <1>10, SMTT(20) DEF ReadLabels, WriteLabels, Empty, Full, ReadDone, Release, Return,
     WakeWriters, pipeVars, fileVars
<1>11. ASSUME NEW p \in Proc, PipeClose(p) PROVE SleepInv'
  BY <1>11 DEF ReadLabels, WriteLabels, Empty, Full, PipeClose, WakeReaders, WakeWriters,
     pipeVars, fileVars
<1>12. ASSUME NEW p \in Proc, KFree(p) PROVE SleepInv'
  BY <1>12, SMTT(20) DEF ReadLabels, WriteLabels, Empty, Full, KFree, Goto, pipeVars, fileVars
<1>13. ASSUME NEW p \in Proc, Call(p) PROVE SleepInv'
  BY <1>13, SMTT(20) DEF ReadLabels, WriteLabels, Empty, Full, Call, Goto, pipeVars, fileVars
<1>14. ASSUME NEW p \in Proc, FileClose(p) PROVE SleepInv'
  BY <1>14, SMTT(20) DEF ReadLabels, WriteLabels, Empty, Full, FileClose, Goto, pipeVars, fileVars
<1>15. ASSUME NEW p \in Proc, Kill(p) PROVE SleepInv'
  BY <1>15, SMTT(20) DEF ReadLabels, WriteLabels, Empty, Full, Kill, pipeVars, fileVars
<1>16. ASSUME NEW p \in Proc, NEW q \in Proc, FileDup(p, q) PROVE SleepInv'
  BY <1>16, SMTT(20) DEF ReadLabels, WriteLabels, Empty, Full, FileDup, pipeVars, fileVars
<1>17. CASE UNCHANGED vars
  BY <1>17 DEF ReadLabels, WriteLabels, Empty, Full, vars, pipeVars, fileVars
<1> QED
  BY <1>1, <1>2, <1>3, <1>4, <1>5, <1>6, <1>7, <1>8, <1>9, <1>10, <1>11, <1>12, <1>13, <1>14,
     <1>15, <1>16, <1>17, Zenon DEF Next, Advance

-----------------------------------------------------------------------------
\* The invariant of a pipe, whoever calls read(), write(), dup(), close() and
\* kill() in whatever order.
THEOREM PipeInvariance == Spec => []PipeInv
<1>1. PipeInv /\ [Next]_vars => PipeInv'
  <2> SUFFICES ASSUME PipeInv, [Next]_vars PROVE PipeInv'
    OBVIOUS
  <2>1. DataType' /\ ProcType' /\ LockInv' /\ RefInv' /\ OpenInv' /\ CountInv'
    BY DataStep, ProcStep, LockStep, RefStep, OpenStep, CountStep
  <2> QED
    BY <2>1 DEF PipeInv, TypeOK
<1> QED
  BY InitHolds, <1>1, PTL DEF Spec

\* pipeclose() frees the page once, when both ends are closed and nobody is
\* in the pipe, however the closes of the two ends interleave.
THEOREM PageFreedOnce == Spec => []FreedOnce
<1>1. PipeInv => FreedOnce
  BY DEF PipeInv, OpenInv, FreedOnce, InPipe, TypeOK, DataType, ProcType, Proc, ReadLabels,
     WriteLabels
<1> QED
  BY PipeInvariance, <1>1, PTL

\* No wakeup of a pipe is lost, whoever is killed: a reader sleeps beside
\* data only when a writer that was killed in the middle of a write() left
\* them, for pipewrite() then returns without wakeup(&pi->nread).
THEOREM PipeWakeup == Spec => []NobodyStranded
<1>1. Init => SleepInv
  BY DEF Init, SleepInv, Proc
<1>2. PipeInv /\ SleepInv /\ [Next]_vars => SleepInv'
  BY SleepStep
<1>3. PipeInv /\ SleepInv => NobodyStranded
  BY DEF PipeInv, LockInv, Locked, SleepInv, Putting, NobodyStranded, Proc, TypeOK, DataType, ProcType
<1> QED
  BY PipeInvariance, <1>1, <1>2, <1>3, PTL DEF Spec

\* A step of the pipe is a step of the channel, or leaves it alone.
LEMMA ChannelStep ==
  ASSUME PipeInv, TypeOK', [Next]_vars
  PROVE  Ch!ChNext \/ UNCHANGED Ch!chVars
<1>a. /\ TypeOK /\ CountInv
      /\ \A p \in Proc : /\ pc[p] = "w_loop" => writeopen
                         /\ pc[p] = "r_loop" => readopen
                         /\ pc[p] = "close" => IF p \in Readers THEN readopen ELSE writeopen
  <2>1. \A p \in Proc : /\ pc[p] \notin {"user", "kfree"} => IF p \in Readers THEN readopen ELSE writeopen
                        /\ pc[p] = "w_loop" => p \notin Readers
                        /\ pc[p] = "r_loop" => p \in Readers
    BY DEF PipeInv, OpenInv, TypeOK, ProcType, ReadLabels, WriteLabels, Proc
  <2> QED
    BY <2>1 DEF PipeInv
<1> USE <1>a
<1>1. ASSUME NEW p \in Proc, Acquire(p) PROVE Ch!ChNext \/ UNCHANGED Ch!chVars
  BY <1>1 DEF Queue, Plus, Ch!chVars, Acquire, Goto, pipeVars, fileVars
<1>2. ASSUME NEW p \in Proc, Sleep(p) PROVE Ch!ChNext \/ UNCHANGED Ch!chVars
  BY <1>2 DEF Queue, Plus, Ch!chVars, Sleep, Goto, Release, pipeVars, fileVars
<1>3. ASSUME NEW p \in Proc, WriteFail(p) PROVE Ch!ChNext \/ UNCHANGED Ch!chVars
  BY <1>3 DEF Queue, Plus, Ch!chVars, WriteFail, Goto, Release, Return, pipeVars, fileVars
<1>4. ASSUME NEW p \in Proc, WriteFull(p) PROVE Ch!ChNext \/ UNCHANGED Ch!chVars
  BY <1>4 DEF Queue, Plus, Ch!chVars, WriteFull, WakeReaders, pipeVars, fileVars
<1>5. ASSUME NEW p \in Proc, WriteByte(p) PROVE Ch!ChNext \/ UNCHANGED Ch!chVars
  <2>1. PICK b \in Byte : data' = [data EXCEPT ![nwrite % PIPESIZE] = b]
    BY <1>5, Zenon DEF WriteByte
  <2>2. Len(Queue) < PIPESIZE /\ Queue' = Append(Queue, b)
    BY <1>5, <2>1, PutQueue, Zenon DEF WriteByte
  <2>3. readopen /\ writeopen /\ UNCHANGED <<readopen, writeopen>>
    BY <1>5, Zenon DEF WriteByte
  <2> QED
    BY <2>2, <2>3, Zenon DEF Ch!ChNext, Ch!Put
<1>6. ASSUME NEW p \in Proc, WriteDone(p) PROVE Ch!ChNext \/ UNCHANGED Ch!chVars
  BY <1>6 DEF Queue, Plus, Ch!chVars, WriteDone, Release, Return, WakeReaders, pipeVars, fileVars
<1>7. ASSUME NEW p \in Proc, ReadWait(p) PROVE Ch!ChNext \/ UNCHANGED Ch!chVars
  BY <1>7 DEF Queue, Plus, Ch!chVars, ReadWait, Goto, Release, Return, pipeVars, fileVars
<1>8. ASSUME NEW p \in Proc, ReadByte(p) PROVE Ch!ChNext \/ UNCHANGED Ch!chVars
  <2>1. Queue # <<>> /\ Queue' = Tail(Queue)
    BY <1>8, GetQueue DEF ReadByte
  <2>2. readopen /\ UNCHANGED <<readopen, writeopen>>
    BY <1>8, Zenon DEF ReadByte
  <2> QED
    BY <2>1, <2>2, Zenon DEF Ch!ChNext, Ch!Get
<1>9. ASSUME NEW p \in Proc, ReadFault(p) PROVE Ch!ChNext \/ UNCHANGED Ch!chVars
  <2>1. Queue # <<>> /\ Queue' = Tail(Queue)
    BY <1>9, GetQueue DEF ReadFault
  <2>2. readopen /\ UNCHANGED <<readopen, writeopen>>
    BY <1>9, Zenon DEF ReadFault
  <2> QED
    BY <2>1, <2>2, Zenon DEF Ch!ChNext, Ch!Get
<1>10. ASSUME NEW p \in Proc, ReadDone(p) PROVE Ch!ChNext \/ UNCHANGED Ch!chVars
  BY <1>10 DEF Queue, Plus, Ch!chVars, ReadDone, Release, Return, WakeWriters, pipeVars, fileVars
<1>11. ASSUME NEW p \in Proc, PipeClose(p) PROVE Ch!ChNext \/ UNCHANGED Ch!chVars
  <2>1. Queue' = Queue
    BY <1>11 DEF PipeClose, Queue, Plus
  <2>2. CASE p \in Writers
    BY <1>11, <2>1, <2>2 DEF PipeClose, Ch!ChNext, Ch!CloseWrite
  <2>3. CASE p \in Readers
    BY <1>11, <2>1, <2>3 DEF PipeClose, Ch!ChNext, Ch!CloseRead
  <2> QED
    BY <2>2, <2>3 DEF Proc
<1>12. ASSUME NEW p \in Proc, KFree(p) PROVE Ch!ChNext \/ UNCHANGED Ch!chVars
  BY <1>12 DEF Queue, Plus, Ch!chVars, KFree, Goto, pipeVars, fileVars
<1>13. ASSUME NEW p \in Proc, Call(p) PROVE Ch!ChNext \/ UNCHANGED Ch!chVars
  BY <1>13 DEF Queue, Plus, Ch!chVars, Call, Goto, pipeVars, fileVars
<1>14. ASSUME NEW p \in Proc, FileClose(p) PROVE Ch!ChNext \/ UNCHANGED Ch!chVars
  BY <1>14 DEF Queue, Plus, Ch!chVars, FileClose, Goto, pipeVars, fileVars
<1>15. ASSUME NEW p \in Proc, Kill(p) PROVE Ch!ChNext \/ UNCHANGED Ch!chVars
  BY <1>15 DEF Queue, Plus, Ch!chVars, Kill, pipeVars, fileVars
<1>16. ASSUME NEW p \in Proc, NEW q \in Proc, FileDup(p, q) PROVE Ch!ChNext \/ UNCHANGED Ch!chVars
  BY <1>16 DEF Queue, Plus, Ch!chVars, FileDup, pipeVars, fileVars
<1>17. CASE UNCHANGED vars
  BY <1>17 DEF Queue, Plus, Ch!chVars, vars, pipeVars, fileVars
<1> QED
  BY <1>1, <1>2, <1>3, <1>4, <1>5, <1>6, <1>7, <1>8, <1>9, <1>10, <1>11, <1>12, <1>13, <1>14,
     <1>15, <1>16, <1>17, Zenon DEF Next, Advance

\* The ring buffer implements a bounded FIFO channel: every byte written is
\* read once, in order, unless the last reader leaves, for every number of
\* readers and writers and wherever the counters wrap around.
THEOREM PipeIsChannel == Spec => IsChannel
<1>1. Init => Ch!ChInit
  <2> SUFFICES ASSUME Init PROVE Ch!ChInit
    OBVIOUS
  <2>1. (nwrite - nread) % UINT = 0
    BY PipeAssumption, ModSmall DEF Init
  <2>2. Queue \in [1..0 -> Byte]
    BY <2>1 DEF Queue
  <2>3. Queue = <<>>
    BY <2>2, FunIsSeq, EmptySeq
  <2> QED
    BY <2>3 DEF Ch!ChInit, Init
<1>2. PipeInv /\ PipeInv' /\ [Next]_vars => [Ch!ChNext]_Ch!chVars
  BY ChannelStep DEF PipeInv
<1> QED
  BY PipeInvariance, <1>1, <1>2, PTL DEF Spec, IsChannel, Ch!ChSpec
=============================================================================
