---------------------------- MODULE ConsoleProofs ----------------------------
(***************************************************************************)
(* The console and the UART, for any number of processes, rings of any     *)
(* sizes that divide 2^32 and 2^64, and any typing: the input ring holds    *)
(* what was typed and not read, the output leaves in order and does not     *)
(* stall, and nobody sleeps without a reason.                               *)
(***************************************************************************)
EXTENDS Console, RingLemmas

Sym == Keys \cup {Nil}

Labels == {"idle", "putc", "txsleep", "start", "read", "tosleep", "sleep", "dead"}

ProcType == st \in [Procs -> [pc : Labels, n : Int, target : Int, killed : BOOLEAN]]

IntrType == intr \in [pc : {"idle", "rx", "echo", "start"}, echo : Int]

Bufs == [0 .. INPUT_BUF_SIZE - 1 -> Sym]
ConsType == cons \in [buf : Bufs, r : 0 .. UINT - 1, w : 0 .. UINT - 1, e : 0 .. UINT - 1]
InType == ConsType /\ rhr \in Seq(Keys)

TxType ==
  /\ tx \in [buf : [0 .. UART_TX_BUF_SIZE - 1 -> Nat \cup {Nil}], r : 0 .. UINT64 - 1, w : 0 .. UINT64 - 1]
  /\ put \in Nat /\ out \in Nat

\* Whoever is about to write to THR in uartstart() holds uart_tx_lock, and
\* has seen that the ring is not empty.
TxInv ==
  /\ ready \subseteq Procs \cup {Intr, "echo"}
  /\ \A x \in ready : x = "echo" \/ (x = txlock /\ tx.w # tx.r)
  /\ intr.pc = "start" => txlock = Intr

\* Between killed() and sleep() a reader holds cons.lock, and the ring is
\* as empty as it found it; so does consoleintr() while it echoes.
LockInv ==
  /\ intr.pc = "echo" => conslock = Intr
  /\ \A p \in Procs : st[p].pc = "tosleep" => conslock = p /\ cons.r = cons.w

\* What THR holds is an echo or the last character that uartstart() gave it.
ThrInv == thr \in {Nil, 0, out}

-----------------------------------------------------------------------------
\* What the steps use of the assumptions on the constants.
LEMMA Names ==
  /\ Nil \notin Procs \cup {Intr} /\ Nil \notin Nat /\ Nil # 0
  /\ Intr \notin Procs /\ "echo" \notin Procs /\ Intr # "echo"
  /\ Reads \subseteq Int /\ Writes \subseteq Int
BY ConsoleAssumption DEF Intr

\* What the rings use of them.
LEMMA Sizes ==
  /\ UINT \in Nat \ {0} /\ INPUT_BUF_SIZE \in Nat \ {0} /\ INPUT_BUF_SIZE < UINT /\ UINT % INPUT_BUF_SIZE = 0
  /\ UINT64 \in Nat \ {0} /\ UART_TX_BUF_SIZE \in Nat \ {0} /\ UART_TX_BUF_SIZE < UINT64
  /\ UINT64 % UART_TX_BUF_SIZE = 0
BY ConsoleAssumption

\* A call returns: the process is back in user space, or ends.
LEMMA ReturnIs ==
  ASSUME ProcType, NEW p \in Procs
  PROVE  /\ Return(p) \in [Procs -> [pc : Labels, n : Int, target : Int, killed : BOOLEAN]]
         /\ Return(p)[p].pc \in {"idle", "dead"}
         /\ \A q \in Procs : q # p => Return(p)[q] = st[q]
<1> DEFINE rec == IF st[p].killed THEN [Idle EXCEPT !.pc = "dead"] ELSE Idle
<1>1. rec \in [pc : Labels, n : Int, target : Int, killed : BOOLEAN] /\ rec.pc \in {"idle", "dead"}
  <2>1. Idle \in [pc : Labels, n : Int, target : Int, killed : BOOLEAN] /\ Idle.pc = "idle"
    BY DEF Idle, Labels
  <2>2. [Idle EXCEPT !.pc = "dead"] \in [pc : Labels, n : Int, target : Int, killed : BOOLEAN]
        /\ [Idle EXCEPT !.pc = "dead"].pc = "dead"
    BY <2>1 DEF Labels
  <2> QED
    BY <2>1, <2>2
<1>2. Return(p) = [st EXCEPT ![p] = rec]
  BY Zenon DEF Return
<1> HIDE DEF rec
<1> QED
  BY <1>1, <1>2 DEF ProcType

\* consolewrite() goes on to the next character, or returns.
LEMMA WriteNextIs ==
  ASSUME ProcType, NEW p \in Procs, NEW n \in Int, WriteNext(p, n)
  PROVE  ProcType' /\ \A q \in Procs : st'[q] = st[q] \/ st'[q].pc \in {"idle", "dead", "putc"}
<1>1. CASE st' = [st EXCEPT ![p].pc = "putc", ![p].n = n]
  <2>1. ProcType'
    BY <1>1, Zenon DEF ProcType, Labels
  <2>2. \A q \in Procs : st'[q] = st[q] \/ st'[q].pc = "putc"
    BY <1>1, Zenon DEF ProcType
  <2> QED
    BY <2>1, <2>2
<1>2. CASE st' = Return(p)
  BY <1>2, ReturnIs, Zenon DEF ProcType
<1> QED
  BY <1>1, <1>2, Zenon DEF WriteNext

\* consoleintr() stays in the loop of uartintr(), with or without an echo;
\* it wakes all readers or none.
LEMMA ConsoleintrIs ==
  ASSUME Consoleintr, IntrType, InType
  PROVE  /\ IntrType' /\ intr'.pc \in {"rx", "echo"}
         /\ ((st' = st /\ cons'.w = cons.w) \/ st' = [q \in Procs |-> Wake(q)])
         /\ cons'.r = cons.r
<1>1. intr.pc = "rx" /\ UINT \in Nat \ {0}
  BY Sizes DEF Consoleintr
<1>2. ASSUME NEW k \in Int, Erase(k)
      PROVE  IntrType' /\ intr'.pc \in {"rx", "echo"} /\ st' = st /\ cons'.w = cons.w /\ cons'.r = cons.r
  <2>1. intr' = intr \/ intr' = [pc |-> "echo", echo |-> 3 * k]
    BY <1>2, Zenon DEF Erase
  <2>2. IntrType' /\ intr'.pc \in {"rx", "echo"}
    BY <1>1, <2>1 DEF IntrType
  <2>3. st' = st /\ cons'.w = cons.w /\ cons'.r = cons.r
    BY <1>2 DEF Erase, InType, ConsType
  <2> QED
    BY <2>2, <2>3
<1>3. Count(cons.w) \in Int
  <2>1. cons.e \in 0 .. UINT - 1 /\ cons.w \in 0 .. UINT - 1
    BY DEF InType, ConsType
  <2>2. cons.e - cons.w \in Int
    BY <1>1, <2>1
  <2> QED
    BY <1>1, <2>2, ModType DEF Count
<1>4. CASE Store(Head(rhr))
  <2>1. intr' = intr \/ intr' = [pc |-> "echo", echo |-> 1]
    BY <1>4, Zenon DEF Store
  <2>2. IntrType' /\ intr'.pc \in {"rx", "echo"}
    BY <1>1, <2>1 DEF IntrType
  <2>3. ((st' = st /\ cons'.w = cons.w) \/ st' = [q \in Procs |-> Wake(q)])
    BY <1>4, Zenon DEF Store, InType, ConsType
  <2>4. cons'.r = cons.r
    BY <1>4, Zenon DEF Store, InType, ConsType
  <2> QED
    BY <2>2, <2>3, <2>4
<1>5. CASE Erase(Count(cons.w))
  BY <1>2, <1>3, <1>5
<1>6. CASE Erase(IF cons.e # cons.w THEN 1 ELSE 0)
  BY <1>2, <1>6
<1> QED
  BY <1>4, <1>5, <1>6, Zenon DEF Consoleintr

\* OutputInOrder in terms of slots.
OutSlots ==
  /\ put - out = (tx.w - tx.r) % UINT64 /\ put - out <= UART_TX_BUF_SIZE
  /\ \A i \in 1 .. put - out : tx.buf[Slot(UINT64, UART_TX_BUF_SIZE, tx.r, i - 1)] = out + i

\* It says of each slot what OutputInOrder says of the ring, and ThrInv the
\* rest.
LEMMA OutIs ==
  ASSUME TxType
  PROVE  OutputInOrder <=> ThrInv /\ OutSlots
<1>1. \A i \in 1 .. put - out : tx.r + i - 1 = tx.r + (i - 1)
  BY DEF TxType
<1> QED
  BY <1>1, Zenon DEF OutputInOrder, ThrInv, OutSlots, Slot

\* The slots of the output ring.
LEMMA TxSlots ==
  ASSUME NEW r \in 0 .. UINT64 - 1, NEW i \in 0 .. UART_TX_BUF_SIZE - 1, NEW j \in 0 .. UART_TX_BUF_SIZE - 1
  PROVE  /\ Slot(UINT64, UART_TX_BUF_SIZE, r, i) \in 0 .. UART_TX_BUF_SIZE - 1
         /\ i # j => Slot(UINT64, UART_TX_BUF_SIZE, r, i) # Slot(UINT64, UART_TX_BUF_SIZE, r, j)
<1>1. UINT64 \in Nat \ {0} /\ UART_TX_BUF_SIZE \in Nat \ {0} /\ UART_TX_BUF_SIZE < UINT64
      /\ r \in Int /\ i \in Int
  BY Sizes
<1>2. Slot(UINT64, UART_TX_BUF_SIZE, r, i) = Slot(UINT64, UART_TX_BUF_SIZE, r, j) => i = j
  BY <1>1, Sizes, SlotInjective, Zenon
<1> QED
  BY <1>1, <1>2, SlotType

\* uartputc() puts a character behind the ones that wait.
LEMMA PutOut ==
  ASSUME TxType, OutSlots, ~Full, put' = put + 1, out' = out,
         tx' = [tx EXCEPT !.buf[tx.w % UART_TX_BUF_SIZE] = put + 1, !.w = (@ + 1) % UINT64]
  PROVE  TxType' /\ OutSlots'
<1> DEFINE U == UINT64  S == UART_TX_BUF_SIZE  c == put - out
<1>1. U \in Nat \ {0} /\ S \in Nat \ {0} /\ S < U /\ S \in 0 .. U - 1
  BY Sizes
<1>2. /\ tx.r \in 0 .. U - 1 /\ tx.w \in 0 .. U - 1 /\ c = (tx.w - tx.r) % U /\ c <= S
      /\ \A i \in 1 .. c : tx.buf[Slot(U, S, tx.r, i - 1)] = out + i
  BY DEF TxType, OutSlots
<1>3. c \in 0 .. U - 1
  BY <1>1, <1>2, ModType
<1>4. tx.w # (tx.r + S) % U
  BY DEF Full
<1> HIDE DEF U, S, c
<1>5. c # S
  BY <1>1, <1>2, <1>4, DistanceIs
<1>a. c <= S
  BY <1>2
<1>6. c \in 0 .. S - 1 /\ c + 1 < U
  BY <1>1, <1>a, <1>3, <1>5
<1>b. tx.w = (tx.r + c) % U
  BY <1>1, <1>2, MinusBack
<1>7. (tx.w + 1) % U \in 0 .. U - 1 /\ (((tx.w + 1) % U) - tx.r) % U = c + 1
  BY <1>1, <1>2, <1>6, Further
<1>8. tx.w % S = Slot(U, S, tx.r, c)
  BY <1>b DEF Slot
<1>9. tx.w % S \in 0 .. S - 1
  BY <1>1, <1>2, ModType
<1>c. tx'.r = tx.r /\ tx'.w = (tx.w + 1) % U /\ tx'.buf = [tx.buf EXCEPT ![tx.w % S] = put + 1]
      /\ tx' = [buf |-> tx'.buf, r |-> tx'.r, w |-> tx'.w]
  BY Zenon DEF TxType, U, S
<1>d. tx'.buf \in [0 .. S - 1 -> Nat \cup {Nil}]
  BY <1>9, <1>c DEF TxType, S
<1>10. /\ tx'.r = tx.r /\ tx'.w = (tx.w + 1) % U /\ tx'.buf = [tx.buf EXCEPT ![tx.w % S] = put + 1]
       /\ TxType'
  <2>1. tx' \in [buf : [0 .. S - 1 -> Nat \cup {Nil}], r : 0 .. U - 1, w : 0 .. U - 1]
    <3>1. tx'.r \in 0 .. U - 1 /\ tx'.w \in 0 .. U - 1
      BY <1>2, <1>7, <1>c
    <3> QED
      BY <1>c, <1>d, <3>1, Zenon
  <2> QED
    BY <1>c, <2>1 DEF TxType, U, S
<1>11. put' - out' = c + 1 /\ out + (c + 1) = put + 1
  BY DEF c, TxType
<1>12. ASSUME NEW i \in 1 .. c + 1 PROVE tx'.buf[Slot(U, S, tx.r, i - 1)] = out + i
  <2>1. CASE i = c + 1
    <3>1. i - 1 = c
      BY <1>6, <2>1
    <3> QED
      BY <1>8, <1>9, <1>10, <1>11, <2>1, <3>1, Zenon DEF TxType, S
  <2>2. CASE i # c + 1
    <3>1. i \in 1 .. c /\ i - 1 \in 0 .. S - 1 /\ i - 1 # c /\ i - 1 \in Int
      BY <1>1, <1>6, <2>2
    <3>2. Slot(U, S, tx.r, i - 1) # tx.w % S /\ Slot(U, S, tx.r, i - 1) \in 0 .. S - 1
      BY <1>2, <1>6, <1>8, <3>1, TxSlots, Zenon DEF U, S
    <3>3. tx'.buf[Slot(U, S, tx.r, i - 1)] = tx.buf[Slot(U, S, tx.r, i - 1)]
      BY <1>10, <3>2 DEF TxType, S
    <3> QED
      BY <1>2, <3>1, <3>3
  <2> QED
    BY <2>1, <2>2
<1>13. put' - out' <= S
  BY <1>1, <1>6, <1>11
<1> QED
  BY <1>7, <1>10, <1>11, <1>12, <1>13 DEF OutSlots, U, S

\* uartstart() takes the oldest one.
LEMMA TakeOut ==
  ASSUME TxType, OutSlots, tx.w # tx.r, put' = put, out' = out + 1,
         tx' = [tx EXCEPT !.r = (@ + 1) % UINT64, !.buf[tx.r % UART_TX_BUF_SIZE] = Nil]
  PROVE  TxType' /\ OutSlots' /\ tx.buf[tx.r % UART_TX_BUF_SIZE] = out + 1
<1> DEFINE U == UINT64  S == UART_TX_BUF_SIZE  c == put - out
<1>1. U \in Nat \ {0} /\ S \in Nat \ {0} /\ S < U
  BY Sizes
<1>2. /\ tx.r \in 0 .. U - 1 /\ tx.w \in 0 .. U - 1 /\ c = (tx.w - tx.r) % U /\ c <= S /\ c \in Int
      /\ \A i \in 1 .. c : tx.buf[Slot(U, S, tx.r, i - 1)] = out + i
  BY DEF TxType, OutSlots
<1>3. c \in 0 .. U - 1
  BY <1>1, <1>2, ModType
<1> HIDE DEF U, S, c
<1>4. (tx.r + 1) % U \in 0 .. U - 1 /\ (tx.w - ((tx.r + 1) % U)) % U = c - 1
  BY <1>1, <1>2, Closer
<1>5. c \in 1 .. S
  <2>1. (tx.w - ((tx.r + 1) % U)) % U \in 0 .. U - 1
    <3>1. tx.w - ((tx.r + 1) % U) \in Int
      BY <1>2, <1>4
    <3> QED
      BY <1>1, <3>1, ModType
  <2> QED
    BY <1>1, <1>2, <1>3, <1>4, <2>1
<1>6. tx.r % S = Slot(U, S, tx.r, 0)
  <2>1. (tx.r + 0) % U = tx.r
    BY <1>1, <1>2, ModSmall
  <2> QED
    BY <2>1 DEF Slot
<1>7. tx.r % S \in 0 .. S - 1
  BY <1>1, <1>2, ModType
<1>c. tx'.w = tx.w /\ tx'.r = (tx.r + 1) % U /\ tx'.buf = [tx.buf EXCEPT ![tx.r % S] = Nil]
      /\ tx' = [buf |-> tx'.buf, r |-> tx'.r, w |-> tx'.w]
  BY Zenon DEF TxType, U, S
<1>d. tx'.buf \in [0 .. S - 1 -> Nat \cup {Nil}]
  BY <1>7, <1>c DEF TxType, S
<1>8. /\ tx'.w = tx.w /\ tx'.r = (tx.r + 1) % U /\ tx'.buf = [tx.buf EXCEPT ![tx.r % S] = Nil]
      /\ TxType'
  <2>1. tx' \in [buf : [0 .. S - 1 -> Nat \cup {Nil}], r : 0 .. U - 1, w : 0 .. U - 1]
    <3>1. tx'.r \in 0 .. U - 1 /\ tx'.w \in 0 .. U - 1
      BY <1>2, <1>4, <1>c
    <3> QED
      BY <1>c, <1>d, <3>1, Zenon
  <2> QED
    BY <1>c, <2>1 DEF TxType, U, S
<1>9. put' - out' = c - 1
  BY DEF c, TxType
<1>10. ASSUME NEW i \in 1 .. c - 1
       PROVE  tx'.buf[Slot(U, S, tx'.r, i - 1)] = out' + i
  <2>1. i + 1 \in 1 .. c /\ i \in 0 .. S - 1 /\ i # 0 /\ (i + 1) - 1 = i /\ i - 1 \in Nat
        /\ 1 + (i - 1) = i /\ 1 + (i - 1) <= U /\ 0 \in 0 .. S - 1
    BY <1>1, <1>5
  <2>2. Slot(U, S, tx'.r, i - 1) = Slot(U, S, tx.r, i)
    <3>1. Slot(U, S, (tx.r + 1) % U, i - 1) = Slot(U, S, tx.r, 1 + (i - 1))
      BY <1>1, <1>2, <2>1, SlotAfter
    <3> QED
      BY <1>8, <2>1, <3>1
  <2>3. Slot(U, S, tx.r, i) # tx.r % S /\ Slot(U, S, tx.r, i) \in 0 .. S - 1
    BY <1>2, <1>6, <2>1, TxSlots, Zenon DEF U, S
  <2>4. tx'.buf[Slot(U, S, tx.r, i)] = tx.buf[Slot(U, S, tx.r, i)]
    BY <1>8, <2>3 DEF TxType, S
  <2>5. tx.buf[Slot(U, S, tx.r, (i + 1) - 1)] = out + (i + 1)
    BY <1>2, <2>1
  <2>6. out' + i = out + (i + 1)
    BY <2>1 DEF TxType
  <2> QED
    BY <2>1, <2>2, <2>4, <2>5, <2>6
<1>11. put' - out' <= S
  BY <1>1, <1>5, <1>9
<1>12. tx.buf[tx.r % S] = out + 1
  <2>1. 1 \in 1 .. c /\ 1 - 1 = 0
    BY <1>5
  <2> QED
    BY <1>2, <1>6, <2>1
<1> QED
  BY <1>4, <1>8, <1>9, <1>10, <1>11, <1>12 DEF OutSlots, U, S

-----------------------------------------------------------------------------
\* The input ring from r on: the a characters of the lines l that were
\* entered, and the b characters d that are being edited.
Ring(buf, r, a, b, l, d) ==
  /\ a \in Nat /\ b \in Nat /\ a + b <= INPUT_BUF_SIZE
  /\ l \in [1 .. a -> Sym] /\ d \in [1 .. b -> Sym]
  /\ \A i \in 1 .. a : l[i] = buf[Slot(UINT, INPUT_BUF_SIZE, r, i - 1)]
  /\ \A i \in 1 .. b : d[i] = buf[Slot(UINT, INPUT_BUF_SIZE, r, a + i - 1)]

RingInv ==
  \E a, b \in Nat : /\ Ring(cons.buf, cons.r, a, b, lines, edit)
                    /\ cons.w = (cons.r + a) % UINT /\ cons.e = (cons.r + (a + b)) % UINT

\* The slots of the input ring.
LEMMA InSlots ==
  ASSUME NEW r \in 0 .. UINT - 1, NEW i \in 0 .. INPUT_BUF_SIZE - 1, NEW j \in 0 .. INPUT_BUF_SIZE - 1
  PROVE  /\ Slot(UINT, INPUT_BUF_SIZE, r, i) \in 0 .. INPUT_BUF_SIZE - 1
         /\ i # j => Slot(UINT, INPUT_BUF_SIZE, r, i) # Slot(UINT, INPUT_BUF_SIZE, r, j)
<1>1. UINT \in Nat \ {0} /\ INPUT_BUF_SIZE \in Nat \ {0} /\ INPUT_BUF_SIZE < UINT
      /\ r \in Int /\ i \in Int
  BY Sizes
<1>2. Slot(UINT, INPUT_BUF_SIZE, r, i) = Slot(UINT, INPUT_BUF_SIZE, r, j) => i = j
  BY <1>1, Sizes, SlotInjective, Zenon
<1> QED
  BY <1>1, <1>2, SlotType

\* The counters, and how far apart they are.
LEMMA Apart ==
  ASSUME NEW r \in 0 .. UINT - 1, NEW a \in Nat, NEW b \in Nat, a + b <= INPUT_BUF_SIZE
  PROVE  /\ (((r + a) % UINT) - r) % UINT = a
         /\ (((r + (a + b)) % UINT) - ((r + a) % UINT)) % UINT = b
         /\ (((r + (a + b)) % UINT) - r) % UINT = a + b
<1> DEFINE w == (r + a) % UINT  e == (r + (a + b)) % UINT
<1>1. UINT \in Nat \ {0} /\ INPUT_BUF_SIZE < UINT /\ INPUT_BUF_SIZE \in Nat
  BY Sizes
<1>2. a \in 0 .. UINT - 1 /\ b \in 0 .. UINT - 1 /\ a + b \in 0 .. UINT - 1 /\ a + b <= UINT
      /\ r + a \in Int /\ r + (a + b) \in Int /\ r + a + b = r + (a + b)
  BY <1>1
<1>3. w \in 0 .. UINT - 1 /\ e \in 0 .. UINT - 1
  BY <1>1, <1>2, ModType
<1>4. (((r + a) % UINT) + b) % UINT = (r + a + b) % UINT
  BY <1>1, <1>2, PlusPlus, Zenon
<1>5. (w + b) % UINT = e /\ (r + a) % UINT = w /\ (r + (a + b)) % UINT = e
  BY <1>2, <1>4
<1> HIDE DEF w, e
<1>6. (w - r) % UINT = a
  BY <1>1, <1>2, <1>3, <1>5, MinusUnique, Zenon
<1>7. (e - w) % UINT = b
  BY <1>1, <1>2, <1>3, <1>5, MinusUnique, Zenon
<1>8. (e - r) % UINT = a + b
  <2> DEFINE t == a + b
  <2>1. t \in 0 .. UINT - 1 /\ (r + t) % UINT = e
    BY <1>2, <1>5
  <2> HIDE DEF t
  <2>2. (e - r) % UINT = t
    BY <1>1, <1>3, <2>1, MinusUnique
  <2> QED
    BY <2>2 DEF t
<1> QED
  BY <1>6, <1>7, <1>8 DEF w, e

\* The same for the counters of a state.
LEMMA ApartNow ==
  ASSUME ConsType, NEW a \in Nat, NEW b \in Nat, a + b <= INPUT_BUF_SIZE,
         cons.w = (cons.r + a) % UINT, cons.e = (cons.r + (a + b)) % UINT
  PROVE  (cons.w - cons.r) % UINT = a /\ (cons.e - cons.w) % UINT = b /\ (cons.e - cons.r) % UINT = a + b
<1>1. cons.r \in 0 .. UINT - 1
  BY DEF ConsType
<1>2. /\ (((cons.r + a) % UINT) - cons.r) % UINT = a
      /\ (((cons.r + (a + b)) % UINT) - ((cons.r + a) % UINT)) % UINT = b
      /\ (((cons.r + (a + b)) % UINT) - cons.r) % UINT = a + b
  BY <1>1, Apart
<1> QED
  BY <1>2, Zenon

\* What e becomes when k characters are erased.
LEMMA BackNow ==
  ASSUME NEW r \in 0 .. UINT - 1, NEW a \in Nat, NEW b \in Nat, a + b <= INPUT_BUF_SIZE, NEW k \in 0 .. (a + b)
  PROVE  /\ (((r + (a + b)) % UINT) - k) % UINT = (r + (a + b - k)) % UINT
         /\ (((r + (a + b)) % UINT) - k) % UINT \in 0 .. UINT - 1
<1> DEFINE t == a + b
<1>1. UINT \in Nat \ {0}
  BY Sizes
<1>2. t \in 0 .. UINT - 1 /\ k \in 0 .. t
  BY Sizes
<1> HIDE DEF t
<1>3. /\ (((r + t) % UINT) - k) % UINT = (r + (t - k)) % UINT
      /\ (((r + t) % UINT) - k) % UINT \in 0 .. UINT - 1
  BY <1>1, <1>2, GoBackFrom, Zenon
<1> QED
  BY <1>3 DEF t

\* The slots seen from r + d.
LEMMA InFrom ==
  ASSUME NEW r \in 0 .. UINT - 1, NEW d \in Nat, NEW j \in Nat, d + j <= UINT
  PROVE  Slot(UINT, INPUT_BUF_SIZE, (r + d) % UINT, j) = Slot(UINT, INPUT_BUF_SIZE, r, d + j)
<1>1. UINT \in Nat \ {0}
  BY Sizes
<1>2. (((r + d) % UINT) + j) % UINT = (r + d + j) % UINT
  BY <1>1, PlusPlus
<1>3. r + d + j = r + (d + j)
  OBVIOUS
<1> QED
  BY <1>2, <1>3, Zenon DEF Slot

\* consoleread() takes the oldest character of the lines.
LEMMA RingGet ==
  ASSUME NEW buf \in Bufs, NEW r \in 0 .. UINT - 1, NEW a, NEW b, NEW l, NEW d,
         Ring(buf, r, a, b, l, d), a # 0
  PROVE  Ring([buf EXCEPT ![Slot(UINT, INPUT_BUF_SIZE, r, 0)] = Nil], (r + 1) % UINT, a - 1, b, Tail(l), d)
<1> DEFINE U == UINT  S == INPUT_BUF_SIZE  buf2 == [buf EXCEPT ![Slot(U, S, r, 0)] = Nil]
           r2 == (r + 1) % U  l2 == Tail(l)
<1>1. /\ a \in Nat \ {0} /\ b \in Nat /\ a + b <= S /\ U \in Nat \ {0} /\ S < U /\ S \in Nat \ {0}
      /\ l \in [1 .. a -> Sym] /\ d \in [1 .. b -> Sym]
  BY Sizes DEF Ring
<1>2. ASSUME NEW k \in 1 .. S - 1 PROVE buf2[Slot(U, S, r2, k - 1)] = buf[Slot(U, S, r, k)]
  <2>1. k \in 0 .. S - 1 /\ 0 \in 0 .. S - 1 /\ k # 0 /\ k - 1 \in Nat /\ 1 + (k - 1) = k /\ 1 + (k - 1) <= U
    BY <1>1
  <2>2. Slot(U, S, r2, k - 1) = Slot(U, S, r, 1 + (k - 1))
    <3> DEFINE j == k - 1
    <3>1. 1 \in Nat /\ j \in Nat /\ 1 + j <= U /\ U \in Nat \ {0}
      BY <1>1, <2>1
    <3> HIDE DEF j
    <3>2. Slot(U, S, (r + 1) % U, j) = Slot(U, S, r, 1 + j)
      BY <3>1, InFrom
    <3> QED
      BY <3>2, Zenon DEF j
  <2>3. Slot(U, S, r, k) # Slot(U, S, r, 0) /\ Slot(U, S, r, k) \in 0 .. S - 1
    BY <2>1, InSlots, Zenon
  <2> QED
    BY <2>1, <2>2, <2>3 DEF Bufs
<1> HIDE DEF buf2, r2
<1>3. l \in Seq(Sym) /\ Len(l) = a
  BY <1>1, FunIsSeq
<1>4. l # <<>>
  BY <1>1, <1>3, EmptySeq
<1>5. l2 \in Seq(Sym) /\ Len(l2) = a - 1 /\ \A i \in 1 .. a - 1 : l2[i] = l[i + 1]
  BY <1>3, <1>4, HeadTailProperties
<1>6. l2 \in [1 .. a - 1 -> Sym]
  BY <1>5, LenProperties, Zenon
<1>7. ASSUME NEW i \in 1 .. a - 1 PROVE l2[i] = buf2[Slot(U, S, r2, i - 1)]
  <2>1. i \in 1 .. S - 1 /\ i + 1 \in 1 .. a /\ (i + 1) - 1 = i
    BY <1>1
  <2>2. l[i + 1] = buf[Slot(U, S, r, (i + 1) - 1)]
    BY <2>1 DEF Ring
  <2> QED
    BY <1>2, <1>5, <2>1, <2>2
<1>8. ASSUME NEW i \in 1 .. b PROVE d[i] = buf2[Slot(U, S, r2, (a - 1) + i - 1)]
  <2>1. a + i - 1 \in 1 .. S - 1 /\ (a + i - 1) - 1 = (a - 1) + i - 1
    BY <1>1
  <2>2. d[i] = buf[Slot(U, S, r, a + i - 1)]
    BY DEF Ring
  <2> QED
    BY <1>2, <2>1, <2>2
<1>9. a - 1 \in Nat /\ (a - 1) + b <= S
  BY <1>1
<1> QED
  BY <1>1, <1>6, <1>7, <1>8, <1>9, Zenon DEF Ring, buf2, r2

\* consoleintr() puts a character behind those that are being edited.
LEMMA RingPut ==
  ASSUME NEW buf \in Bufs, NEW r \in 0 .. UINT - 1, NEW a, NEW b, NEW l, NEW d,
         Ring(buf, r, a, b, l, d), a + b # INPUT_BUF_SIZE, NEW c \in Sym
  PROVE  Ring([buf EXCEPT ![Slot(UINT, INPUT_BUF_SIZE, r, a + b)] = c], r, a, b + 1, l, Append(d, c))
<1> DEFINE U == UINT  S == INPUT_BUF_SIZE  buf2 == [buf EXCEPT ![Slot(U, S, r, a + b)] = c]
           d2 == Append(d, c)
<1>1. /\ a \in Nat /\ b \in Nat /\ a + b <= S /\ S \in Nat \ {0}
      /\ l \in [1 .. a -> Sym] /\ d \in [1 .. b -> Sym]
  BY Sizes DEF Ring
<1>2. a + b \in 0 .. S - 1
  BY <1>1
<1>3. ASSUME NEW k \in 0 .. (a + b) - 1 PROVE buf2[Slot(U, S, r, k)] = buf[Slot(U, S, r, k)]
  <2>1. k \in 0 .. S - 1 /\ k # a + b
    BY <1>1, <1>2
  <2>2. Slot(U, S, r, k) # Slot(U, S, r, a + b) /\ Slot(U, S, r, k) \in 0 .. S - 1
    BY <1>2, <2>1, InSlots, Zenon
  <2> QED
    BY <2>2 DEF Bufs
<1>4. buf2[Slot(U, S, r, a + b)] = c
  <2>1. Slot(U, S, r, a + b) \in 0 .. S - 1
    BY <1>2, InSlots, Zenon
  <2> QED
    BY <2>1 DEF Bufs
<1> HIDE DEF buf2
<1>5. d \in Seq(Sym) /\ Len(d) = b
  BY <1>1, FunIsSeq
<1>6. d2 \in Seq(Sym) /\ Len(d2) = b + 1 /\ d2[b + 1] = c /\ \A i \in 1 .. b : d2[i] = d[i]
  BY <1>5, AppendProperties
<1>7. d2 \in [1 .. b + 1 -> Sym]
  BY <1>6, LenProperties, Zenon
<1>8. ASSUME NEW i \in 1 .. a PROVE l[i] = buf2[Slot(U, S, r, i - 1)]
  <2>1. i - 1 \in 0 .. (a + b) - 1
    BY <1>1
  <2> QED
    BY <1>3, <2>1, Zenon DEF Ring
<1>9. ASSUME NEW i \in 1 .. b + 1 PROVE d2[i] = buf2[Slot(U, S, r, a + i - 1)]
  <2>1. CASE i = b + 1
    <3>1. a + i - 1 = a + b
      BY <1>1, <2>1
    <3> QED
      BY <1>4, <1>6, <2>1, <3>1
  <2>2. CASE i # b + 1
    <3>1. i \in 1 .. b /\ a + i - 1 \in 0 .. (a + b) - 1
      BY <1>1, <2>2
    <3>2. d[i] = buf[Slot(U, S, r, a + i - 1)]
      BY <3>1 DEF Ring
    <3> QED
      BY <1>3, <1>6, <3>1, <3>2
  <2> QED
    BY <2>1, <2>2, Zenon
<1>10. b + 1 \in Nat /\ a + (b + 1) <= S
  BY <1>1, <1>2
<1> QED
  BY <1>1, <1>7, <1>8, <1>9, <1>10, Zenon DEF Ring, buf2

\* A line is entered.
LEMMA RingCommit ==
  ASSUME NEW buf, NEW r, NEW a, NEW b, NEW l, NEW d, Ring(buf, r, a, b, l, d)
  PROVE  Ring(buf, r, a + b, 0, l \o d, <<>>)
<1> DEFINE l2 == l \o d
<1>1. a \in Nat /\ b \in Nat /\ a + b <= INPUT_BUF_SIZE /\ l \in [1 .. a -> Sym] /\ d \in [1 .. b -> Sym]
  BY DEF Ring
<1>2. l \in Seq(Sym) /\ Len(l) = a /\ d \in Seq(Sym) /\ Len(d) = b
  BY <1>1, FunIsSeq
<1>3. /\ l2 \in Seq(Sym) /\ Len(l2) = a + b
      /\ \A i \in 1 .. a + b : l2[i] = IF i <= a THEN l[i] ELSE d[i - a]
  BY <1>2, ConcatProperties, Zenon
<1>4. l2 \in [1 .. a + b -> Sym]
  BY <1>3, LenProperties, Zenon
<1> HIDE DEF l2
<1>5. ASSUME NEW i \in 1 .. a + b PROVE l2[i] = buf[Slot(UINT, INPUT_BUF_SIZE, r, i - 1)]
  <2>1. CASE i <= a
    <3>1. i \in 1 .. a
      BY <1>1, <2>1
    <3> QED
      BY <1>3, <2>1, <3>1 DEF Ring
  <2>2. CASE ~(i <= a)
    <3>1. i - a \in 1 .. b /\ a + (i - a) - 1 = i - 1
      BY <1>1, <2>2
    <3>2. d[i - a] = buf[Slot(UINT, INPUT_BUF_SIZE, r, a + (i - a) - 1)]
      BY <3>1 DEF Ring
    <3> QED
      BY <1>3, <2>2, <3>1, <3>2
  <2> QED
    BY <2>1, <2>2
<1>6. 1 .. 0 = {} /\ a + b \in Nat /\ 0 \in Nat /\ a + b + 0 = a + b
  BY <1>1
<1>7. <<>> \in [1 .. 0 -> Sym]
  BY <1>6
<1> QED
  BY <1>1, <1>4, <1>5, <1>6, <1>7 DEF Ring, l2

\* The last k characters of what is being edited are erased.
LEMMA RingErase ==
  ASSUME NEW buf, NEW r, NEW a, NEW b, NEW l, NEW d, Ring(buf, r, a, b, l, d),
         NEW k \in 0 .. b, NEW buf2,
         \A m \in 0 .. (a + b - k) - 1 :
           buf2[Slot(UINT, INPUT_BUF_SIZE, r, m)] = buf[Slot(UINT, INPUT_BUF_SIZE, r, m)]
  PROVE  Ring(buf2, r, a, b - k, l, SubSeq(d, 1, Len(d) - k))
<1> DEFINE d2 == SubSeq(d, 1, Len(d) - k)
<1>1. a \in Nat /\ b \in Nat /\ a + b <= INPUT_BUF_SIZE /\ l \in [1 .. a -> Sym] /\ d \in [1 .. b -> Sym]
      /\ INPUT_BUF_SIZE \in Nat
  BY Sizes DEF Ring
<1>2. d \in Seq(Sym) /\ Len(d) = b
  BY <1>1, FunIsSeq
<1>3. d2 = [i \in 1 .. b - k |-> d[i]]
  BY <1>1, <1>2
<1> HIDE DEF d2
<1>4. d2 \in [1 .. b - k -> Sym] /\ \A i \in 1 .. b - k : d2[i] = d[i]
  BY <1>1, <1>3
<1>5. ASSUME NEW i \in 1 .. a PROVE l[i] = buf2[Slot(UINT, INPUT_BUF_SIZE, r, i - 1)]
  <2>1. i - 1 \in 0 .. (a + b - k) - 1
    BY <1>1
  <2> QED
    BY <2>1, Zenon DEF Ring
<1>6. ASSUME NEW i \in 1 .. b - k PROVE d2[i] = buf2[Slot(UINT, INPUT_BUF_SIZE, r, a + i - 1)]
  <2>1. a + i - 1 \in 0 .. (a + b - k) - 1 /\ i \in 1 .. b
    BY <1>1
  <2>2. d[i] = buf[Slot(UINT, INPUT_BUF_SIZE, r, a + i - 1)]
    BY <2>1 DEF Ring
  <2> QED
    BY <1>4, <2>1, <2>2
<1>7. b - k \in Nat /\ a + (b - k) <= INPUT_BUF_SIZE
  BY <1>1
<1> QED
  BY <1>1, <1>4, <1>5, <1>6, <1>7, Zenon DEF Ring, d2

\* One step of consoleread() past the tests.
LEMMA GetStep ==
  ASSUME ConsType, RingInv, cons.r # cons.w, lines' = Tail(lines), edit' = edit,
         cons' = [cons EXCEPT !.r = (@ + 1) % UINT, !.buf[cons.r % INPUT_BUF_SIZE] = Nil]
  PROVE  ConsType' /\ RingInv'
<1> DEFINE U == UINT  S == INPUT_BUF_SIZE
<1>1. cons.buf \in Bufs /\ cons.r \in 0 .. U - 1 /\ cons.w \in 0 .. U - 1 /\ cons.e \in 0 .. U - 1
  BY DEF ConsType
<1>2. U \in Nat \ {0} /\ S \in Nat \ {0} /\ S < U
  BY Sizes
<1>3. PICK a \in Nat, b \in Nat : /\ Ring(cons.buf, cons.r, a, b, lines, edit)
                                  /\ cons.w = (cons.r + a) % U /\ cons.e = (cons.r + (a + b)) % U
  BY DEF RingInv
<1>4. (cons.r + 0) % U = cons.r
  <2>1. cons.r + 0 = cons.r
    BY <1>1
  <2> QED
    BY <1>1, <1>2, <2>1, ModSmall, Zenon
<1>5. a # 0
  BY <1>3, <1>4
<1>6. cons.r % S = Slot(U, S, cons.r, 0) /\ cons.r % S \in 0 .. S - 1
  <2>1. cons.r % S = Slot(U, S, cons.r, 0)
    BY <1>4, Zenon DEF Slot
  <2>2. cons.r \in Int
    BY <1>1
  <2> QED
    BY <1>2, <2>1, <2>2, ModType, Zenon
<1> DEFINE buf2 == [cons.buf EXCEPT ![Slot(U, S, cons.r, 0)] = Nil]  r2 == (cons.r + 1) % U
<1>7. /\ cons'.buf = buf2 /\ cons'.r = r2 /\ cons'.w = cons.w /\ cons'.e = cons.e
      /\ cons' = [buf |-> cons'.buf, r |-> cons'.r, w |-> cons'.w, e |-> cons'.e]
  BY <1>6, Zenon DEF ConsType
<1>8. buf2 \in Bufs
  BY <1>1, <1>6 DEF Bufs, Sym
<1>9. Ring(buf2, r2, a - 1, b, lines', edit')
  BY <1>1, <1>3, <1>5, RingGet, Zenon
<1> HIDE DEF buf2
<1>10. r2 \in 0 .. U - 1
  <2>1. cons.r + 1 \in Int
    BY <1>1
  <2> QED
    BY <1>2, <2>1, ModType
<1>11. a - 1 \in Nat /\ b \in Nat /\ a + b <= S
  BY <1>3, <1>5 DEF Ring
<1>12. cons.w = (r2 + (a - 1)) % U /\ cons.e = (r2 + ((a - 1) + b)) % U
  <2>1. (((cons.r + 1) % U) + (a - 1)) % U = (cons.r + 1 + (a - 1)) % U
    <3>1. 1 + (a - 1) <= U /\ 1 \in Nat
      BY <1>2, <1>11
    <3> QED
      BY <1>1, <1>2, <1>11, <3>1, PlusPlus, Zenon
  <2>2. (((cons.r + 1) % U) + ((a - 1) + b)) % U = (cons.r + 1 + ((a - 1) + b)) % U
    <3>1. 1 + ((a - 1) + b) <= U /\ 1 \in Nat /\ (a - 1) + b \in Nat
      BY <1>2, <1>11
    <3> QED
      BY <1>1, <1>2, <3>1, PlusPlus, Zenon
  <2>3. cons.r + 1 + (a - 1) = cons.r + a /\ cons.r + 1 + ((a - 1) + b) = cons.r + (a + b)
    BY <1>1, <1>11
  <2> QED
    BY <1>3, <2>1, <2>2, <2>3, Zenon
<1> HIDE DEF r2, U, S
<1>13. ConsType'
  BY <1>1, <1>7, <1>8, <1>10 DEF ConsType, U
<1>15. RingInv'
  BY <1>9, <1>11, <1>12, <1>7, Zenon DEF RingInv, U
<1> QED
  BY <1>13, <1>15

\* consoleintr() with a character that is stored.
LEMMA StoreStep ==
  ASSUME ConsType, RingInv, NEW c \in Keys, Store(c)
  PROVE  ConsType' /\ RingInv'
<1> DEFINE U == UINT  S == INPUT_BUF_SIZE
<1>1. cons.buf \in Bufs /\ cons.r \in 0 .. U - 1 /\ cons.w \in 0 .. U - 1 /\ cons.e \in 0 .. U - 1
  BY DEF ConsType
<1>2. U \in Nat \ {0} /\ S \in Nat \ {0} /\ S < U
  BY Sizes
<1>3. PICK a \in Nat, b \in Nat : /\ Ring(cons.buf, cons.r, a, b, lines, edit)
                                  /\ cons.w = (cons.r + a) % U /\ cons.e = (cons.r + (a + b)) % U
  BY DEF RingInv
<1>4. a + b <= S
  BY <1>3 DEF Ring
<1>5. (cons.e - cons.r) % U = a + b
  BY <1>3, <1>4, ApartNow
<1>6. CASE ~Room
  BY <1>6, <1>3 DEF Store, ConsType, RingInv
<1>7. CASE Room
  <2>1. a + b < S /\ a + b # S
    BY <1>2, <1>5, <1>7 DEF Room, Count
  <2>2. cons.e % S = Slot(U, S, cons.r, a + b) /\ cons.e % S \in 0 .. S - 1
    <3>1. cons.e % S = Slot(U, S, cons.r, a + b)
      BY <1>3, Zenon DEF Slot
    <3>2. cons.e % S \in 0 .. S - 1
      <4>1. cons.e \in Int
        BY <1>1
      <4> QED
        BY <1>2, <4>1, ModType, Zenon
    <3> QED
      BY <3>1, <3>2
  <2> DEFINE e2 == (cons.e + 1) % U  buf2 == [cons.buf EXCEPT ![Slot(U, S, cons.r, a + b)] = c]
  <2>3. /\ cons'.buf = buf2 /\ cons'.r = cons.r /\ cons'.e = e2
        /\ cons' = [buf |-> cons'.buf, r |-> cons'.r, w |-> cons'.w, e |-> cons'.e]
    BY <1>7, <2>2, Zenon DEF Store, ConsType
  <2>4. \/ cons'.w = cons.w /\ lines' = lines /\ edit' = Append(edit, c)
        \/ cons'.w = e2 /\ lines' = lines \o Append(edit, c) /\ edit' = <<>>
    BY <1>7, Zenon DEF Store, ConsType
  <2>5. c \in Sym /\ buf2 \in Bufs
    BY <1>1, <2>2 DEF Bufs, Sym
  <2>6. Ring(buf2, cons.r, a, b + 1, lines, Append(edit, c))
    BY <1>1, <1>3, <2>1, <2>5, RingPut, Zenon
  <2> HIDE DEF buf2
  <2>7. e2 = (cons.r + (a + (b + 1))) % U /\ e2 \in 0 .. U - 1
    <3>1. a + b \in Nat /\ 1 \in Nat /\ (a + b) + 1 <= U
      BY <1>2, <2>1
    <3>2. (((cons.r + (a + b)) % U) + 1) % U = (cons.r + (a + b) + 1) % U
      BY <1>1, <1>2, <3>1, PlusPlus, Zenon
    <3>3. cons.r + (a + b) + 1 = cons.r + (a + (b + 1)) /\ cons.e + 1 \in Int
      BY <1>1
    <3>4. (cons.e + 1) % U \in 0 .. U - 1
      BY <1>2, <3>3, ModType, Zenon
    <3> QED
      BY <1>3, <3>2, <3>3, <3>4
  <2>8. b + 1 \in Nat /\ a + (b + 1) \in Nat /\ 0 \in Nat /\ a + (b + 1) + 0 = a + (b + 1)
    OBVIOUS
  <2> HIDE DEF e2, U, S
  <2>9. ConsType'
    <3>1. cons'.w \in 0 .. U - 1
      BY <1>1, <2>4, <2>7
    <3> QED
      BY <1>1, <2>3, <2>5, <2>7, <3>1 DEF ConsType, U
  <2>10. RingInv'
    <3>1. CASE cons'.w = cons.w /\ lines' = lines /\ edit' = Append(edit, c)
      BY <1>3, <2>3, <2>6, <2>7, <2>8, <3>1, Zenon DEF RingInv, U
    <3>2. CASE cons'.w = e2 /\ lines' = lines \o Append(edit, c) /\ edit' = <<>>
      <4>1. Ring(buf2, cons.r, a + (b + 1), 0, lines', edit')
        BY <2>6, <3>2, RingCommit, Zenon
      <4> QED
        BY <2>3, <2>7, <2>8, <3>2, <4>1, Zenon DEF RingInv, U
    <3> QED
      BY <2>4, <3>1, <3>2
  <2> QED
    BY <2>9, <2>10
<1> QED
  BY <1>6, <1>7

\* consoleintr() with ^H or ^U.
LEMMA EraseStep ==
  ASSUME ConsType, RingInv, NEW k, k = Count(cons.w) \/ k = (IF cons.e # cons.w THEN 1 ELSE 0), Erase(k)
  PROVE  ConsType' /\ RingInv'
<1> DEFINE U == UINT  S == INPUT_BUF_SIZE
<1>1. cons.buf \in Bufs /\ cons.r \in 0 .. U - 1 /\ cons.w \in 0 .. U - 1 /\ cons.e \in 0 .. U - 1
  BY DEF ConsType
<1>2. U \in Nat \ {0} /\ S \in Nat \ {0} /\ S < U
  BY Sizes
<1>3. PICK a \in Nat, b \in Nat : /\ Ring(cons.buf, cons.r, a, b, lines, edit)
                                  /\ cons.w = (cons.r + a) % U /\ cons.e = (cons.r + (a + b)) % U
  BY DEF RingInv
<1>4. a + b <= S /\ a + b \in 0 .. U - 1
  BY <1>2, <1>3 DEF Ring
<1>5. (cons.e - cons.w) % U = b
  BY <1>3, <1>4, ApartNow
<1>6. b = 0 => cons.e = cons.w
  BY <1>3
<1>7. k \in 0 .. b
  <2>1. k = b \/ k = (IF cons.e # cons.w THEN 1 ELSE 0)
    BY <1>5 DEF Count
  <2> QED
    BY <1>6, <2>1
<1> DEFINE buf2 == [i \in 0 .. S - 1 |-> IF \E j \in 1 .. k : i = ((cons.e - j) % U) % S THEN Nil ELSE cons.buf[i]]
           e2 == (cons.e - k) % U
<1>8. cons' = [buf |-> buf2, r |-> cons.r, w |-> cons.w, e |-> e2] /\ lines' = lines
      /\ edit' = SubSeq(edit, 1, Len(edit) - k)
  <2>1. DOMAIN cons.buf = 0 .. S - 1
    BY <1>1 DEF Bufs
  <2> QED
    BY <2>1, Zenon DEF Erase, ConsType
<1>9. buf2 \in Bufs
  BY <1>1, Zenon DEF Bufs, Sym
<1>10. ASSUME NEW j \in 1 .. k PROVE (cons.e - j) % U = (cons.r + (a + b - j)) % U
  <2>1. j \in 0 .. a + b
    BY <1>7
  <2>2. (((cons.r + (a + b)) % U) - j) % U = (cons.r + (a + b - j)) % U
    BY <1>1, <1>4, <2>1, BackNow
  <2> QED
    BY <1>3, <2>2, Zenon
<1>11. ASSUME NEW m \in 0 .. (a + b - k) - 1 PROVE buf2[Slot(U, S, cons.r, m)] = cons.buf[Slot(U, S, cons.r, m)]
  <2>1. m \in 0 .. S - 1
    BY <1>2, <1>4, <1>7
  <2>2. ASSUME NEW j \in 1 .. k PROVE Slot(U, S, cons.r, m) # ((cons.e - j) % U) % S
    <3>1. a + b - j \in 0 .. S - 1 /\ m # a + b - j
      BY <1>2, <1>4, <1>7
    <3>2. ((cons.e - j) % U) % S = Slot(U, S, cons.r, a + b - j)
      BY <1>10, Zenon DEF Slot
    <3> QED
      BY <1>1, <2>1, <3>1, <3>2, InSlots, Zenon
  <2>3. Slot(U, S, cons.r, m) \in 0 .. S - 1
    BY <1>1, <2>1, InSlots, Zenon
  <2> QED
    BY <2>2, <2>3, Zenon
<1>12. Ring(buf2, cons.r, a, b - k, lines', edit')
  BY <1>3, <1>7, <1>8, <1>11, RingErase, Zenon
<1>13. e2 = (cons.r + (a + (b - k))) % U /\ e2 \in 0 .. U - 1
  <2>1. k \in 0 .. a + b /\ a + b - k = a + (b - k)
    BY <1>7
  <2>2. (((cons.r + (a + b)) % U) - k) % U = (cons.r + (a + b - k)) % U
        /\ (((cons.r + (a + b)) % U) - k) % U \in 0 .. U - 1
    BY <1>1, <1>4, <2>1, BackNow, Zenon
  <2> QED
    BY <1>3, <2>1, <2>2, Zenon
<1>14. b - k \in Nat
  BY <1>7
<1> HIDE DEF buf2, e2, U, S
<1>15. ConsType'
  BY <1>1, <1>8, <1>9, <1>13 DEF ConsType, U
<1>16. cons'.buf = buf2 /\ cons'.r = cons.r /\ cons'.w = cons.w /\ cons'.e = e2
  BY <1>8
<1>17. RingInv'
  BY <1>3, <1>12, <1>13, <1>14, <1>16, Zenon DEF RingInv, U
<1> QED
  BY <1>15, <1>17

\* The locals of the processes keep their types.
LEMMA ProcStep ==
  ASSUME ProcType, IntrType, InType, [Next]_vars
  PROVE  ProcType'
<1>1. ASSUME NEW c \in Keys, Type(c) PROVE ProcType'
  BY <1>1 DEF ProcType, Labels, Type
<1>2. ASSUME Sent PROVE ProcType'
  BY <1>2 DEF ProcType, Labels, Sent
<1>3. ASSUME NEW p \in Procs, NEW n \in Writes, WriteCall(p, n) PROVE ProcType'
  <2>1. n \in Int
    BY Names
  <2> QED
    BY <1>3, <2>1, WriteNextIs, Zenon DEF WriteCall
<1>4. ASSUME NEW p \in Procs, NEW n \in Reads, ReadCall(p, n) PROVE ProcType'
  <2>1. n \in Int
    BY Names
  <2> QED
    BY <1>4, <2>1, Zenon DEF ProcType, Labels, ReadCall
<1>5. ASSUME NEW p \in Procs, Uartputc(p) PROVE ProcType'
  BY <1>5 DEF ProcType, Labels, Uartputc
<1>6. ASSUME NEW p \in Procs, PutcDone(p) PROVE ProcType'
  <2>1. st[p].n \in Int
    BY DEF ProcType
  <2> QED
    BY <1>6, <2>1, WriteNextIs, Zenon DEF PutcDone
<1>7. ASSUME NEW who \in Procs \cup {Intr}, StartTest(who) PROVE ProcType'
  BY <1>7 DEF ProcType, Labels, StartTest
<1>8. ASSUME NEW who \in Procs \cup {Intr}, StartWrite(who) PROVE ProcType'
  BY <1>8 DEF ProcType, Labels, StartWrite, Waiting
<1>9. ASSUME NEW p \in Procs, ReadStep(p) PROVE ProcType'
  <2>1. st' \in {Return(p), [st EXCEPT ![p].pc = "tosleep"], [st EXCEPT ![p].n = @ - 1]}
    BY <1>9, Zenon DEF ReadStep
  <2>2. [st EXCEPT ![p].pc = "tosleep"] \in [Procs -> [pc : Labels, n : Int, target : Int, killed : BOOLEAN]]
    BY DEF ProcType, Labels
  <2>3. [st EXCEPT ![p].n = @ - 1] \in [Procs -> [pc : Labels, n : Int, target : Int, killed : BOOLEAN]]
    BY DEF ProcType, Labels
  <2>4. Return(p) \in [Procs -> [pc : Labels, n : Int, target : Int, killed : BOOLEAN]]
    BY ReturnIs
  <2> QED
    BY <2>1, <2>2, <2>3, <2>4, SMTT(20) DEF ProcType
<1>20. ASSUME NEW p \in Procs, ReadSleep(p) PROVE ProcType'
  BY <1>20, Zenon DEF ProcType, Labels, ReadSleep
<1>10. ASSUME NEW p \in Procs, ReadFault(p) PROVE ProcType'
  BY <1>10, ReturnIs DEF ProcType, ReadFault
<1>11. ASSUME NEW p \in Procs, Kill(p) PROVE ProcType'
  <2>1. Runnable(st[p].pc) \in Labels
    BY DEF Runnable, ProcType, Labels
  <2> QED
    BY <1>11, <2>1, Zenon DEF ProcType, Kill
<1>12. ASSUME IntrEnter PROVE ProcType'
  BY <1>12 DEF ProcType, Labels, IntrEnter
<1>13. ASSUME Consoleintr PROVE ProcType'
  <2>1. st' = st \/ st' = [q \in Procs |-> Wake(q)]
    BY <1>13, ConsoleintrIs
  <2> QED
    BY <2>1 DEF ProcType, Labels, Wake
<1>14. ASSUME EchoTest PROVE ProcType'
  BY <1>14 DEF ProcType, Labels, EchoTest
<1>15. ASSUME EchoWrite PROVE ProcType'
  BY <1>15 DEF ProcType, Labels, EchoWrite
<1>16. ASSUME IntrStart PROVE ProcType'
  BY <1>16 DEF ProcType, Labels, IntrStart
<1>17. ASSUME IntrExit PROVE ProcType'
  BY <1>17 DEF ProcType, Labels, IntrExit
<1>18. ASSUME Resting PROVE ProcType'
  BY <1>18 DEF ProcType, Labels, Resting, vars
<1>19. CASE UNCHANGED vars
  BY <1>19 DEF ProcType, Labels, vars
<1> QED
  BY <1>1, <1>2, <1>3, <1>4, <1>5, <1>6, <1>7, <1>8, <1>9, <1>10, <1>11, <1>12, <1>13, <1>14,
     <1>15, <1>16, <1>17, <1>18, <1>19, <1>20, Zenon DEF Next

\* So do those of uartintr().
LEMMA IntrStep ==
  ASSUME IntrType, InType, [Next]_vars
  PROVE  IntrType'
<1>1. ASSUME NEW c \in Keys, Type(c) PROVE IntrType'
  BY <1>1 DEF IntrType, Type
<1>2. ASSUME Sent PROVE IntrType'
  BY <1>2 DEF IntrType, Sent
<1>3. ASSUME NEW p \in Procs, NEW n \in Writes, WriteCall(p, n) PROVE IntrType'
  BY <1>3 DEF IntrType, WriteCall
<1>4. ASSUME NEW p \in Procs, NEW n \in Reads, ReadCall(p, n) PROVE IntrType'
  BY <1>4 DEF IntrType, ReadCall
<1>5. ASSUME NEW p \in Procs, Uartputc(p) PROVE IntrType'
  BY <1>5 DEF IntrType, Uartputc
<1>6. ASSUME NEW p \in Procs, PutcDone(p) PROVE IntrType'
  BY <1>6 DEF IntrType, PutcDone
<1>7. ASSUME NEW who \in Procs \cup {Intr}, StartTest(who) PROVE IntrType'
  BY <1>7 DEF IntrType, StartTest
<1>8. ASSUME NEW who \in Procs \cup {Intr}, StartWrite(who) PROVE IntrType'
  BY <1>8 DEF IntrType, StartWrite
<1>9. ASSUME NEW p \in Procs, ReadStep(p) PROVE IntrType'
  BY <1>9 DEF IntrType, ReadStep
<1>20. ASSUME NEW p \in Procs, ReadSleep(p) PROVE IntrType'
  BY <1>20 DEF IntrType, ReadSleep
<1>10. ASSUME NEW p \in Procs, ReadFault(p) PROVE IntrType'
  BY <1>10 DEF IntrType, ReadFault
<1>11. ASSUME NEW p \in Procs, Kill(p) PROVE IntrType'
  BY <1>11 DEF IntrType, Kill
<1>12. ASSUME IntrEnter PROVE IntrType'
  BY <1>12 DEF IntrType, IntrEnter
<1>13. ASSUME Consoleintr PROVE IntrType'
  BY <1>13, ConsoleintrIs
<1>14. ASSUME EchoTest PROVE IntrType'
  BY <1>14 DEF IntrType, EchoTest
<1>15. ASSUME EchoWrite PROVE IntrType'
  BY <1>15 DEF IntrType, EchoWrite
<1>16. ASSUME IntrStart PROVE IntrType'
  BY <1>16 DEF IntrType, IntrStart
<1>17. ASSUME IntrExit PROVE IntrType'
  BY <1>17 DEF IntrType, IntrExit
<1>18. ASSUME Resting PROVE IntrType'
  BY <1>18 DEF IntrType, Resting, vars
<1>19. CASE UNCHANGED vars
  BY <1>19 DEF IntrType, vars
<1> QED
  BY <1>1, <1>2, <1>3, <1>4, <1>5, <1>6, <1>7, <1>8, <1>9, <1>10, <1>11, <1>12, <1>13, <1>14,
     <1>15, <1>16, <1>17, <1>18, <1>19, <1>20, Zenon DEF Next

\* uart_tx_lock keeps the ring as uartstart() saw it.
LEMMA ReadyStep ==
  ASSUME IntrType, InType, TxType, TxInv, [Next]_vars
  PROVE  TxInv'
<1>1. ASSUME NEW c \in Keys, Type(c) PROVE TxInv'
  BY <1>1 DEF IntrType, TxType, TxInv, Type
<1>2. ASSUME Sent PROVE TxInv'
  BY <1>2 DEF IntrType, TxType, TxInv, Sent
<1>3. ASSUME NEW p \in Procs, NEW n \in Writes, WriteCall(p, n) PROVE TxInv'
  BY <1>3 DEF IntrType, TxType, TxInv, WriteCall
<1>4. ASSUME NEW p \in Procs, NEW n \in Reads, ReadCall(p, n) PROVE TxInv'
  BY <1>4 DEF IntrType, TxType, TxInv, ReadCall
<1>5. ASSUME NEW p \in Procs, Uartputc(p) PROVE TxInv'
  <2>1. \A x \in ready : x = "echo"
    BY <1>5, Names DEF Uartputc, TxInv
  <2>2. intr.pc # "start" /\ UNCHANGED <<ready, intr>>
    BY <1>5, Names DEF Uartputc, TxInv
  <2> QED
    BY <2>1, <2>2 DEF TxInv
<1>6. ASSUME NEW p \in Procs, PutcDone(p) PROVE TxInv'
  BY <1>6, Names DEF TxInv, PutcDone
<1>7. ASSUME NEW who \in Procs \cup {Intr}, StartTest(who) PROVE TxInv'
  BY <1>7 DEF TxInv, StartTest, Ends
<1>8. ASSUME NEW who \in Procs \cup {Intr}, StartWrite(who) PROVE TxInv'
  BY <1>8 DEF IntrType, TxType, TxInv, StartWrite
<1>9. ASSUME NEW p \in Procs, ReadStep(p) PROVE TxInv'
  BY <1>9 DEF IntrType, TxType, TxInv, ReadStep
<1>20. ASSUME NEW p \in Procs, ReadSleep(p) PROVE TxInv'
  BY <1>20 DEF IntrType, TxType, TxInv, ReadSleep
<1>10. ASSUME NEW p \in Procs, ReadFault(p) PROVE TxInv'
  BY <1>10 DEF IntrType, TxType, TxInv, ReadFault
<1>11. ASSUME NEW p \in Procs, Kill(p) PROVE TxInv'
  BY <1>11 DEF IntrType, TxType, TxInv, Kill
<1>12. ASSUME IntrEnter PROVE TxInv'
  BY <1>12 DEF IntrType, TxType, TxInv, IntrEnter
<1>13. ASSUME Consoleintr PROVE TxInv'
  <2>1. intr'.pc # "start"
    BY <1>13, ConsoleintrIs
  <2> QED
    BY <1>13, <2>1 DEF TxInv, Consoleintr
<1>14. ASSUME EchoTest PROVE TxInv'
  BY <1>14 DEF IntrType, TxType, TxInv, EchoTest
<1>15. ASSUME EchoWrite PROVE TxInv'
  BY <1>15 DEF IntrType, TxType, TxInv, EchoWrite
<1>16. ASSUME IntrStart PROVE TxInv'
  BY <1>16, Names DEF IntrType, TxInv, IntrStart
<1>17. ASSUME IntrExit PROVE TxInv'
  BY <1>17, Names DEF IntrType, TxInv, IntrExit
<1>18. ASSUME Resting PROVE TxInv'
  BY <1>18 DEF IntrType, TxType, TxInv, Resting, vars
<1>19. CASE UNCHANGED vars
  BY <1>19 DEF IntrType, TxType, TxInv, vars
<1> QED
  BY <1>1, <1>2, <1>3, <1>4, <1>5, <1>6, <1>7, <1>8, <1>9, <1>10, <1>11, <1>12, <1>13, <1>14,
     <1>15, <1>16, <1>17, <1>18, <1>19, <1>20, Zenon DEF Next

\* cons.lock keeps the input ring as the reader saw it.
LEMMA LockStep ==
  ASSUME ProcType, IntrType, InType, LockInv, [Next]_vars
  PROVE  LockInv'
<1>1. ASSUME NEW c \in Keys, Type(c) PROVE LockInv'
  BY <1>1 DEF ProcType, IntrType, LockInv, Type
<1>2. ASSUME Sent PROVE LockInv'
  BY <1>2 DEF ProcType, IntrType, LockInv, Sent
<1>3. ASSUME NEW p \in Procs, NEW n \in Writes, WriteCall(p, n) PROVE LockInv'
  <2>1. \A q \in Procs : st'[q] = st[q] \/ st'[q].pc \in {"idle", "dead", "putc"}
    BY <1>3, Names, WriteNextIs DEF WriteCall
  <2> QED
    BY <1>3, <2>1 DEF WriteCall, LockInv
<1>4. ASSUME NEW p \in Procs, NEW n \in Reads, ReadCall(p, n) PROVE LockInv'
  BY <1>4 DEF ProcType, IntrType, LockInv, ReadCall
<1>5. ASSUME NEW p \in Procs, Uartputc(p) PROVE LockInv'
  BY <1>5 DEF ProcType, IntrType, LockInv, Uartputc
<1>6. ASSUME NEW p \in Procs, PutcDone(p) PROVE LockInv'
  <2>1. \A q \in Procs : st'[q] = st[q] \/ st'[q].pc \in {"idle", "dead", "putc"}
    <3>1. st[p].n \in Int
      BY DEF ProcType
    <3> QED
      BY <1>6, <3>1, WriteNextIs, Zenon DEF PutcDone
  <2> QED
    BY <1>6, <2>1 DEF PutcDone, LockInv
<1>7. ASSUME NEW who \in Procs \cup {Intr}, StartTest(who) PROVE LockInv'
  BY <1>7 DEF ProcType, IntrType, LockInv, StartTest
<1>8. ASSUME NEW who \in Procs \cup {Intr}, StartWrite(who) PROVE LockInv'
  <2>1. \A q \in Procs : st'[q] = st[q] \/ st'[q].pc = "putc"
    BY <1>8 DEF StartWrite, ProcType, Waiting
  <2> QED
    BY <1>8, <2>1 DEF StartWrite, LockInv
<1>9. ASSUME NEW p \in Procs, ReadStep(p) PROVE LockInv'
  <2>1. intr.pc # "echo" /\ \A q \in Procs : st[q].pc # "tosleep"
    BY <1>9, Names DEF ReadStep, LockInv
  <2>2. intr' = intr
    BY <1>9, Zenon DEF ReadStep
  <2>3. CASE cons.r = cons.w /\ st' = [st EXCEPT ![p].pc = "tosleep"] /\ cons' = cons /\ conslock' = p
    BY <2>1, <2>2, <2>3 DEF ProcType, LockInv
  <2>4. CASE st' = Return(p)
    <3>1. \A q \in Procs : st'[q].pc # "tosleep"
      BY <2>1, <2>4, ReturnIs, Zenon
    <3> QED
      BY <2>1, <2>2, <3>1 DEF LockInv
  <2>5. CASE st' = [st EXCEPT ![p].n = @ - 1]
    BY <2>1, <2>2, <2>5 DEF ProcType, LockInv
  <2> QED
    BY <1>9, <2>3, <2>4, <2>5, Zenon DEF ReadStep, input
<1>20. ASSUME NEW p \in Procs, ReadSleep(p) PROVE LockInv'
  <2>1. intr.pc # "echo" /\ \A q \in Procs : q # p => st[q].pc # "tosleep"
    BY <1>20, Names DEF ReadSleep, LockInv
  <2> QED
    BY <1>20, <2>1 DEF ReadSleep, ProcType, LockInv
<1>10. ASSUME NEW p \in Procs, ReadFault(p) PROVE LockInv'
  <2>1. intr.pc # "echo" /\ \A q \in Procs : st[q].pc # "tosleep"
    BY <1>10, Names DEF ReadFault, LockInv
  <2>2. intr' = intr /\ st' = Return(p)
    BY <1>10, Zenon DEF ReadFault
  <2>3. \A q \in Procs : st'[q].pc # "tosleep"
    BY <2>1, <2>2, ReturnIs, Zenon
  <2> QED
    BY <2>1, <2>2, <2>3 DEF LockInv
<1>11. ASSUME NEW p \in Procs, Kill(p) PROVE LockInv'
  <2>1. \A q \in Procs : st'[q].pc \in {st[q].pc, "read", "putc"}
    BY <1>11, Zenon DEF Kill, Runnable, ProcType
  <2> QED
    BY <1>11, <2>1, Zenon DEF Kill, LockInv
<1>12. ASSUME IntrEnter PROVE LockInv'
  BY <1>12 DEF ProcType, IntrType, LockInv, IntrEnter
<1>13. ASSUME Consoleintr PROVE LockInv'
  <2>1. \A q \in Procs : st[q].pc # "tosleep"
    BY <1>13, Names DEF Consoleintr, LockInv
  <2>2. st' = st \/ st' = [q \in Procs |-> Wake(q)]
    BY <1>13, ConsoleintrIs
  <2>3. \A q \in Procs : st'[q].pc # "tosleep"
    BY <2>1, <2>2 DEF Wake, ProcType
  <2> QED
    BY <1>13, <2>3 DEF Consoleintr, LockInv
<1>14. ASSUME EchoTest PROVE LockInv'
  BY <1>14 DEF ProcType, IntrType, LockInv, EchoTest
<1>15. ASSUME EchoWrite PROVE LockInv'
  <2>1. \A q \in Procs : st[q].pc # "tosleep"
    BY <1>15, Names DEF EchoWrite, LockInv
  <2> QED
    BY <1>15, <2>1 DEF EchoWrite, IntrType, LockInv
<1>16. ASSUME IntrStart PROVE LockInv'
  BY <1>16 DEF ProcType, IntrType, LockInv, IntrStart
<1>17. ASSUME IntrExit PROVE LockInv'
  BY <1>17 DEF ProcType, IntrType, LockInv, IntrExit
<1>18. ASSUME Resting PROVE LockInv'
  BY <1>18 DEF ProcType, IntrType, LockInv, Resting, vars
<1>19. CASE UNCHANGED vars
  BY <1>19 DEF ProcType, IntrType, LockInv, vars
<1> QED
  BY <1>1, <1>2, <1>3, <1>4, <1>5, <1>6, <1>7, <1>8, <1>9, <1>10, <1>11, <1>12, <1>13, <1>14,
     <1>15, <1>16, <1>17, <1>18, <1>19, <1>20, Zenon DEF Next

\* Whoever ends the reason to sleep wakes the sleepers.
LEMMA SleepStep ==
  ASSUME ProcType, IntrType, InType, TxType, LockInv, SleepersWait, [Next]_vars
  PROVE  SleepersWait'
<1>1. ASSUME NEW c \in Keys, Type(c) PROVE SleepersWait'
  BY <1>1 DEF ProcType, InType, TxType, SleepersWait, Full, Type
<1>2. ASSUME Sent PROVE SleepersWait'
  BY <1>2 DEF ProcType, InType, TxType, SleepersWait, Full, Sent
<1>3. ASSUME NEW p \in Procs, NEW n \in Writes, WriteCall(p, n) PROVE SleepersWait'
  <2>1. \A q \in Procs : st'[q] = st[q] \/ st'[q].pc \in {"idle", "dead", "putc"}
    BY <1>3, Names, WriteNextIs DEF WriteCall
  <2> QED
    BY <1>3, <2>1 DEF WriteCall, SleepersWait, Full
<1>4. ASSUME NEW p \in Procs, NEW n \in Reads, ReadCall(p, n) PROVE SleepersWait'
  BY <1>4 DEF ProcType, InType, TxType, SleepersWait, Full, ReadCall
<1>5. ASSUME NEW p \in Procs, Uartputc(p) PROVE SleepersWait'
  <2>1. CASE Full
    BY <1>5, <2>1 DEF Uartputc, ProcType, SleepersWait, Full
  <2>2. CASE ~Full
    <3>1. \A q \in Procs : st'[q].pc \in {st[q].pc, "start"} /\ st[q].pc # "txsleep"
      BY <1>5, <2>2 DEF Uartputc, ProcType, SleepersWait
    <3> QED
      BY <1>5, <3>1 DEF Uartputc, SleepersWait
  <2> QED
    BY <2>1, <2>2
<1>6. ASSUME NEW p \in Procs, PutcDone(p) PROVE SleepersWait'
  <2>1. \A q \in Procs : st'[q] = st[q] \/ st'[q].pc \in {"idle", "dead", "putc"}
    <3>1. st[p].n \in Int
      BY DEF ProcType
    <3> QED
      BY <1>6, <3>1, WriteNextIs, Zenon DEF PutcDone
  <2> QED
    BY <1>6, <2>1 DEF PutcDone, SleepersWait, Full
<1>7. ASSUME NEW who \in Procs \cup {Intr}, StartTest(who) PROVE SleepersWait'
  BY <1>7 DEF ProcType, InType, TxType, SleepersWait, Full, StartTest
<1>8. ASSUME NEW who \in Procs \cup {Intr}, StartWrite(who) PROVE SleepersWait'
  <2>1. \A q \in Procs : st'[q].pc # "txsleep" /\ (st'[q] = st[q] \/ st'[q].pc = "putc")
    BY <1>8 DEF StartWrite, ProcType, Waiting
  <2> QED
    BY <1>8, <2>1, Zenon DEF StartWrite, SleepersWait
<1>9. ASSUME NEW p \in Procs, ReadStep(p) PROVE SleepersWait'
  <2>1. CASE cons.r = cons.w /\ st' = [st EXCEPT ![p].pc = "tosleep"] /\ cons' = cons
    BY <1>9, <2>1 DEF ReadStep, ProcType, SleepersWait, Full
  <2>2. CASE st' = Return(p) /\ (cons' = cons \/ cons.r # cons.w)
    <3>1. \A q \in Procs : st'[q] = st[q] \/ st'[q].pc \in {"idle", "dead"}
      BY <2>2, ReturnIs
    <3>2. UNCHANGED tx
      BY <1>9 DEF ReadStep
    <3> QED
      BY <2>2, <3>1, <3>2 DEF SleepersWait, Full
  <2>3. CASE st' = [st EXCEPT ![p].n = @ - 1] /\ cons.r # cons.w
    BY <1>9, <2>3 DEF ReadStep, ProcType, SleepersWait, Full
  <2> QED
    BY <1>9, <2>1, <2>2, <2>3, Zenon DEF ReadStep, input
<1>20. ASSUME NEW p \in Procs, ReadSleep(p) PROVE SleepersWait'
  BY <1>20 DEF ProcType, InType, TxType, LockInv, SleepersWait, Full, ReadSleep
<1>10. ASSUME NEW p \in Procs, ReadFault(p) PROVE SleepersWait'
  <2>1. \A q \in Procs : st'[q] = st[q] \/ st'[q].pc \in {"idle", "dead"}
    BY <1>10, ReturnIs, Zenon DEF ReadFault
  <2> QED
    BY <1>10, <2>1 DEF ReadFault, SleepersWait, Full
<1>11. ASSUME NEW p \in Procs, Kill(p) PROVE SleepersWait'
  <2>1. \A q \in Procs : st'[q].pc \in {st[q].pc, "read", "putc"}
    BY <1>11, Zenon DEF Kill, Runnable, ProcType
  <2> QED
    BY <1>11, <2>1, Zenon DEF Kill, SleepersWait, Full
<1>12. ASSUME IntrEnter PROVE SleepersWait'
  BY <1>12 DEF ProcType, InType, TxType, SleepersWait, Full, IntrEnter
<1>13. ASSUME Consoleintr PROVE SleepersWait'
  <2>1. CASE st' = st /\ cons'.w = cons.w
    BY <1>13, <2>1, ConsoleintrIs DEF Consoleintr, SleepersWait, Full
  <2>2. CASE st' = [q \in Procs |-> Wake(q)]
    <3>1. \A q \in Procs : st'[q].pc # "sleep" /\ (st'[q].pc = "txsleep" => st[q].pc = "txsleep")
      BY <2>2 DEF Wake, ProcType
    <3> QED
      BY <1>13, <3>1 DEF Consoleintr, SleepersWait, Full
  <2> QED
    BY <1>13, <2>1, <2>2, ConsoleintrIs
<1>14. ASSUME EchoTest PROVE SleepersWait'
  BY <1>14 DEF ProcType, InType, TxType, SleepersWait, Full, EchoTest
<1>15. ASSUME EchoWrite PROVE SleepersWait'
  BY <1>15 DEF ProcType, InType, TxType, SleepersWait, Full, EchoWrite
<1>16. ASSUME IntrStart PROVE SleepersWait'
  BY <1>16 DEF ProcType, InType, TxType, SleepersWait, Full, IntrStart
<1>17. ASSUME IntrExit PROVE SleepersWait'
  BY <1>17 DEF ProcType, InType, TxType, SleepersWait, Full, IntrExit
<1>18. ASSUME Resting PROVE SleepersWait'
  BY <1>18 DEF ProcType, InType, TxType, SleepersWait, Full, Resting, vars
<1>19. CASE UNCHANGED vars
  BY <1>19, SMTT(20) DEF ProcType, InType, TxType, SleepersWait, Full, vars
<1> QED
  BY <1>1, <1>2, <1>3, <1>4, <1>5, <1>6, <1>7, <1>8, <1>9, <1>10, <1>11, <1>12, <1>13, <1>14,
     <1>15, <1>16, <1>17, <1>18, <1>19, <1>20, Zenon DEF Next

\* Whoever ends uartstart() leaves an empty ring or a busy UART.
LEMMA StallStep ==
  ASSUME IntrType, InType, TxType, TxInv, OutputNotStalled, [Next]_vars
  PROVE  OutputNotStalled'
<1>1. ASSUME NEW c \in Keys, Type(c) PROVE OutputNotStalled'
  BY <1>1 DEF IntrType, TxType, TxInv, OutputNotStalled, Ends, Type
<1>2. ASSUME Sent PROVE OutputNotStalled'
  BY <1>2 DEF IntrType, TxType, TxInv, OutputNotStalled, Ends, Sent
<1>3. ASSUME NEW p \in Procs, NEW n \in Writes, WriteCall(p, n) PROVE OutputNotStalled'
  BY <1>3 DEF IntrType, TxType, TxInv, OutputNotStalled, Ends, WriteCall
<1>4. ASSUME NEW p \in Procs, NEW n \in Reads, ReadCall(p, n) PROVE OutputNotStalled'
  BY <1>4 DEF IntrType, TxType, TxInv, OutputNotStalled, Ends, ReadCall
<1>5. ASSUME NEW p \in Procs, Uartputc(p) PROVE OutputNotStalled'
  BY <1>5, Names DEF OutputNotStalled, Uartputc
<1>6. ASSUME NEW p \in Procs, PutcDone(p) PROVE OutputNotStalled'
  BY <1>6 DEF IntrType, TxType, TxInv, OutputNotStalled, Ends, PutcDone
<1>7. ASSUME NEW who \in Procs \cup {Intr}, StartTest(who) PROVE OutputNotStalled'
  BY <1>7 DEF IntrType, TxType, TxInv, OutputNotStalled, Ends, StartTest
<1>8. ASSUME NEW who \in Procs \cup {Intr}, StartWrite(who) PROVE OutputNotStalled'
  BY <1>8, Names DEF OutputNotStalled, StartWrite
<1>9. ASSUME NEW p \in Procs, ReadStep(p) PROVE OutputNotStalled'
  BY <1>9 DEF IntrType, TxType, TxInv, OutputNotStalled, Ends, ReadStep
<1>20. ASSUME NEW p \in Procs, ReadSleep(p) PROVE OutputNotStalled'
  BY <1>20 DEF IntrType, TxType, TxInv, OutputNotStalled, Ends, ReadSleep
<1>10. ASSUME NEW p \in Procs, ReadFault(p) PROVE OutputNotStalled'
  BY <1>10 DEF IntrType, TxType, TxInv, OutputNotStalled, Ends, ReadFault
<1>11. ASSUME NEW p \in Procs, Kill(p) PROVE OutputNotStalled'
  BY <1>11 DEF IntrType, TxType, TxInv, OutputNotStalled, Ends, Kill
<1>12. ASSUME IntrEnter PROVE OutputNotStalled'
  BY <1>12 DEF IntrType, TxType, TxInv, OutputNotStalled, Ends, IntrEnter
<1>13. ASSUME Consoleintr PROVE OutputNotStalled'
  BY <1>13, ConsoleintrIs DEF OutputNotStalled, Consoleintr
<1>14. ASSUME EchoTest PROVE OutputNotStalled'
  BY <1>14 DEF IntrType, TxType, TxInv, OutputNotStalled, Ends, EchoTest
<1>15. ASSUME EchoWrite PROVE OutputNotStalled'
  BY <1>15 DEF IntrType, TxType, TxInv, OutputNotStalled, Ends, EchoWrite
<1>16. ASSUME IntrStart PROVE OutputNotStalled'
  BY <1>16 DEF IntrType, TxType, TxInv, OutputNotStalled, Ends, IntrStart
<1>17. ASSUME IntrExit PROVE OutputNotStalled'
  BY <1>17 DEF IntrType, TxType, TxInv, OutputNotStalled, Ends, IntrExit
<1>18. ASSUME Resting PROVE OutputNotStalled'
  BY <1>18 DEF IntrType, TxType, TxInv, OutputNotStalled, Ends, Resting, vars
<1>19. CASE UNCHANGED vars
  BY <1>19 DEF IntrType, TxType, TxInv, OutputNotStalled, Ends, vars
<1> QED
  BY <1>1, <1>2, <1>3, <1>4, <1>5, <1>6, <1>7, <1>8, <1>9, <1>10, <1>11, <1>12, <1>13, <1>14,
     <1>15, <1>16, <1>17, <1>18, <1>19, <1>20, Zenon DEF Next

\* Characters go in at one end of the ring and leave at the other.
LEMMA OutStep ==
  ASSUME TxType, TxInv, OutSlots, [Next]_vars
  PROVE  TxType' /\ OutSlots'
<1>1. ASSUME NEW c \in Keys, Type(c) PROVE TxType' /\ OutSlots'
  BY <1>1, Zenon DEF TxType, OutSlots, Type
<1>2. ASSUME Sent PROVE TxType' /\ OutSlots'
  BY <1>2, Zenon DEF TxType, OutSlots, Sent
<1>3. ASSUME NEW p \in Procs, NEW n \in Writes, WriteCall(p, n) PROVE TxType' /\ OutSlots'
  BY <1>3, Zenon DEF TxType, OutSlots, WriteCall
<1>4. ASSUME NEW p \in Procs, NEW n \in Reads, ReadCall(p, n) PROVE TxType' /\ OutSlots'
  BY <1>4, Zenon DEF TxType, OutSlots, ReadCall
<1>5. ASSUME NEW p \in Procs, Uartputc(p) PROVE TxType' /\ OutSlots'
  <2>1. CASE Full
    BY <1>5, <2>1 DEF Uartputc, TxType, OutSlots
  <2>2. CASE ~Full
    BY <1>5, <2>2, PutOut DEF Uartputc
  <2> QED
    BY <2>1, <2>2
<1>6. ASSUME NEW p \in Procs, PutcDone(p) PROVE TxType' /\ OutSlots'
  BY <1>6, Zenon DEF TxType, OutSlots, PutcDone
<1>7. ASSUME NEW who \in Procs \cup {Intr}, StartTest(who) PROVE TxType' /\ OutSlots'
  BY <1>7, Zenon DEF TxType, OutSlots, StartTest
<1>8. ASSUME NEW who \in Procs \cup {Intr}, StartWrite(who) PROVE TxType' /\ OutSlots'
  <2>1. tx.w # tx.r
    BY <1>8, Names DEF StartWrite, TxInv
  <2> QED
    BY <1>8, <2>1, TakeOut DEF StartWrite
<1>9. ASSUME NEW p \in Procs, ReadStep(p) PROVE TxType' /\ OutSlots'
  BY <1>9, Zenon DEF TxType, OutSlots, ReadStep
<1>20. ASSUME NEW p \in Procs, ReadSleep(p) PROVE TxType' /\ OutSlots'
  BY <1>20, Zenon DEF TxType, OutSlots, ReadSleep
<1>10. ASSUME NEW p \in Procs, ReadFault(p) PROVE TxType' /\ OutSlots'
  BY <1>10, Zenon DEF TxType, OutSlots, ReadFault
<1>11. ASSUME NEW p \in Procs, Kill(p) PROVE TxType' /\ OutSlots'
  BY <1>11, Zenon DEF TxType, OutSlots, Kill
<1>12. ASSUME IntrEnter PROVE TxType' /\ OutSlots'
  BY <1>12, Zenon DEF TxType, OutSlots, IntrEnter
<1>13. ASSUME Consoleintr PROVE TxType' /\ OutSlots'
  BY <1>13, Zenon DEF TxType, OutSlots, Consoleintr
<1>14. ASSUME EchoTest PROVE TxType' /\ OutSlots'
  BY <1>14, Zenon DEF TxType, OutSlots, EchoTest
<1>15. ASSUME EchoWrite PROVE TxType' /\ OutSlots'
  BY <1>15, Zenon DEF TxType, OutSlots, EchoWrite
<1>16. ASSUME IntrStart PROVE TxType' /\ OutSlots'
  BY <1>16, Zenon DEF TxType, OutSlots, IntrStart
<1>17. ASSUME IntrExit PROVE TxType' /\ OutSlots'
  BY <1>17, Zenon DEF TxType, OutSlots, IntrExit
<1>18. ASSUME Resting PROVE TxType' /\ OutSlots'
  BY <1>18, Zenon DEF TxType, OutSlots, Resting, vars
<1>19. CASE UNCHANGED vars
  BY <1>19, Zenon DEF TxType, OutSlots, vars
<1> QED
  BY <1>1, <1>2, <1>3, <1>4, <1>5, <1>6, <1>7, <1>8, <1>9, <1>10, <1>11, <1>12, <1>13, <1>14,
     <1>15, <1>16, <1>17, <1>18, <1>19, <1>20, Zenon DEF Next

\* THR is given the next character of the ring, or an echo.
LEMMA ThrStep ==
  ASSUME TxType, TxInv, OutSlots, ThrInv, [Next]_vars
  PROVE  ThrInv'
<1>1. ASSUME NEW c \in Keys, Type(c) PROVE ThrInv'
  BY <1>1, Zenon DEF ThrInv, Type
<1>2. ASSUME Sent PROVE ThrInv'
  BY <1>2, Zenon DEF ThrInv, Sent
<1>3. ASSUME NEW p \in Procs, NEW n \in Writes, WriteCall(p, n) PROVE ThrInv'
  BY <1>3, Zenon DEF ThrInv, WriteCall
<1>4. ASSUME NEW p \in Procs, NEW n \in Reads, ReadCall(p, n) PROVE ThrInv'
  BY <1>4, Zenon DEF ThrInv, ReadCall
<1>5. ASSUME NEW p \in Procs, Uartputc(p) PROVE ThrInv'
  BY <1>5, Zenon DEF ThrInv, Uartputc
<1>6. ASSUME NEW p \in Procs, PutcDone(p) PROVE ThrInv'
  BY <1>6, Zenon DEF ThrInv, PutcDone
<1>7. ASSUME NEW who \in Procs \cup {Intr}, StartTest(who) PROVE ThrInv'
  BY <1>7, Zenon DEF ThrInv, StartTest
<1>8. ASSUME NEW who \in Procs \cup {Intr}, StartWrite(who) PROVE ThrInv'
  <2>1. tx.w # tx.r
    BY <1>8, Names DEF StartWrite, TxInv
  <2>2. tx.buf[tx.r % UART_TX_BUF_SIZE] = out + 1
    BY <1>8, <2>1, TakeOut DEF StartWrite
  <2> QED
    BY <1>8, <2>2, Zenon DEF StartWrite, ThrInv
<1>9. ASSUME NEW p \in Procs, ReadStep(p) PROVE ThrInv'
  BY <1>9, Zenon DEF ThrInv, ReadStep
<1>20. ASSUME NEW p \in Procs, ReadSleep(p) PROVE ThrInv'
  BY <1>20, Zenon DEF ThrInv, ReadSleep
<1>10. ASSUME NEW p \in Procs, ReadFault(p) PROVE ThrInv'
  BY <1>10, Zenon DEF ThrInv, ReadFault
<1>11. ASSUME NEW p \in Procs, Kill(p) PROVE ThrInv'
  BY <1>11, Zenon DEF ThrInv, Kill
<1>12. ASSUME IntrEnter PROVE ThrInv'
  BY <1>12, Zenon DEF ThrInv, IntrEnter
<1>13. ASSUME Consoleintr PROVE ThrInv'
  BY <1>13, Zenon DEF ThrInv, Consoleintr
<1>14. ASSUME EchoTest PROVE ThrInv'
  BY <1>14, Zenon DEF ThrInv, EchoTest
<1>15. ASSUME EchoWrite PROVE ThrInv'
  BY <1>15, Zenon DEF ThrInv, EchoWrite
<1>16. ASSUME IntrStart PROVE ThrInv'
  BY <1>16, Zenon DEF ThrInv, IntrStart
<1>17. ASSUME IntrExit PROVE ThrInv'
  BY <1>17, Zenon DEF ThrInv, IntrExit
<1>18. ASSUME Resting PROVE ThrInv'
  BY <1>18, Zenon DEF ThrInv, Resting, vars
<1>19. CASE UNCHANGED vars
  BY <1>19, Zenon DEF ThrInv, vars
<1> QED
  BY <1>1, <1>2, <1>3, <1>4, <1>5, <1>6, <1>7, <1>8, <1>9, <1>10, <1>11, <1>12, <1>13, <1>14,
     <1>15, <1>16, <1>17, <1>18, <1>19, <1>20, Zenon DEF Next

\* Every step keeps the lines and what is being edited in the ring.
LEMMA InStep ==
  ASSUME InType, RingInv, [Next]_vars
  PROVE  InType' /\ RingInv'
<1>1. ASSUME NEW c \in Keys, Type(c) PROVE InType' /\ RingInv'
  <2>1. rhr' \in Seq(Keys)
    BY <1>1, AppendProperties DEF Type, InType
  <2> QED
    BY <1>1, <2>1, Zenon DEF Type, InType, ConsType, RingInv
<1>2. ASSUME Sent PROVE InType' /\ RingInv'
  BY <1>2, Zenon DEF InType, ConsType, RingInv, Sent
<1>3. ASSUME NEW p \in Procs, NEW n \in Writes, WriteCall(p, n) PROVE InType' /\ RingInv'
  BY <1>3, Zenon DEF InType, ConsType, RingInv, WriteCall
<1>4. ASSUME NEW p \in Procs, NEW n \in Reads, ReadCall(p, n) PROVE InType' /\ RingInv'
  BY <1>4, Zenon DEF InType, ConsType, RingInv, ReadCall
<1>5. ASSUME NEW p \in Procs, Uartputc(p) PROVE InType' /\ RingInv'
  BY <1>5, Zenon DEF InType, ConsType, RingInv, Uartputc
<1>6. ASSUME NEW p \in Procs, PutcDone(p) PROVE InType' /\ RingInv'
  BY <1>6, Zenon DEF InType, ConsType, RingInv, PutcDone
<1>7. ASSUME NEW who \in Procs \cup {Intr}, StartTest(who) PROVE InType' /\ RingInv'
  BY <1>7, Zenon DEF InType, ConsType, RingInv, StartTest
<1>8. ASSUME NEW who \in Procs \cup {Intr}, StartWrite(who) PROVE InType' /\ RingInv'
  BY <1>8, Zenon DEF InType, ConsType, RingInv, StartWrite
<1>9. ASSUME NEW p \in Procs, ReadStep(p) PROVE InType' /\ RingInv'
  <2>1. rhr' = rhr
    BY <1>9, Zenon DEF ReadStep
  <2>2. CASE UNCHANGED input
    BY <2>1, <2>2, Zenon DEF input, InType, ConsType, RingInv
  <2>3. CASE /\ cons.r # cons.w /\ lines' = Tail(lines) /\ edit' = edit
             /\ cons' = [cons EXCEPT !.r = (@ + 1) % UINT, !.buf[cons.r % INPUT_BUF_SIZE] = Nil]
    BY <2>1, <2>3, GetStep DEF InType
  <2> QED
    BY <1>9, <2>2, <2>3, Zenon DEF ReadStep
<1>20. ASSUME NEW p \in Procs, ReadSleep(p) PROVE InType' /\ RingInv'
  BY <1>20, Zenon DEF InType, ConsType, RingInv, ReadSleep
<1>10. ASSUME NEW p \in Procs, ReadFault(p) PROVE InType' /\ RingInv'
  BY <1>10, GetStep DEF ReadFault, InType
<1>11. ASSUME NEW p \in Procs, Kill(p) PROVE InType' /\ RingInv'
  BY <1>11, Zenon DEF InType, ConsType, RingInv, Kill
<1>12. ASSUME IntrEnter PROVE InType' /\ RingInv'
  BY <1>12, Zenon DEF InType, ConsType, RingInv, IntrEnter
<1>13. ASSUME Consoleintr PROVE InType' /\ RingInv'
  <2>1. Head(rhr) \in Keys /\ rhr' \in Seq(Keys)
    BY <1>13, HeadTailProperties DEF Consoleintr, InType
  <2>2. CASE Store(Head(rhr))
    BY <2>1, <2>2, StoreStep DEF InType
  <2>3. CASE Erase(Count(cons.w))
    BY <2>1, <2>3, EraseStep, Zenon DEF InType
  <2>4. CASE Erase(IF cons.e # cons.w THEN 1 ELSE 0)
    BY <2>1, <2>4, EraseStep, Zenon DEF InType
  <2> QED
    BY <1>13, <2>2, <2>3, <2>4, Zenon DEF Consoleintr
<1>14. ASSUME EchoTest PROVE InType' /\ RingInv'
  BY <1>14, Zenon DEF InType, ConsType, RingInv, EchoTest
<1>15. ASSUME EchoWrite PROVE InType' /\ RingInv'
  BY <1>15, Zenon DEF InType, ConsType, RingInv, EchoWrite
<1>16. ASSUME IntrStart PROVE InType' /\ RingInv'
  BY <1>16, Zenon DEF InType, ConsType, RingInv, IntrStart
<1>17. ASSUME IntrExit PROVE InType' /\ RingInv'
  BY <1>17, Zenon DEF InType, ConsType, RingInv, IntrExit
<1>18. ASSUME Resting PROVE InType' /\ RingInv'
  BY <1>18, Zenon DEF InType, ConsType, RingInv, Resting, vars
<1>19. CASE UNCHANGED vars
  BY <1>19, Zenon DEF InType, ConsType, RingInv, vars
<1> QED
  BY <1>1, <1>2, <1>3, <1>4, <1>5, <1>6, <1>7, <1>8, <1>9, <1>10, <1>11, <1>12, <1>13, <1>14,
     <1>15, <1>16, <1>17, <1>18, <1>19, <1>20, Zenon DEF Next

-----------------------------------------------------------------------------
ConsoleInv ==
  /\ ProcType /\ IntrType /\ InType /\ TxType /\ TxInv /\ LockInv
  /\ ThrInv /\ OutSlots /\ RingInv /\ SleepersWait /\ OutputNotStalled

\* The invariant holds when the kernel starts, whatever the indices are.
LEMMA InitHolds == Init => ConsoleInv
<1> SUFFICES ASSUME Init PROVE ConsoleInv
  OBVIOUS
<1>1. PICK x \in Starts :
        /\ cons = [buf |-> [i \in 0 .. INPUT_BUF_SIZE - 1 |-> Nil], r |-> x % UINT, w |-> x % UINT, e |-> x % UINT]
        /\ tx = [buf |-> [i \in 0 .. UART_TX_BUF_SIZE - 1 |-> Nil], r |-> x % UINT64, w |-> x % UINT64]
  BY Zenon DEF Init
<1>2. x \in Int /\ UINT \in Nat \ {0} /\ UINT64 \in Nat \ {0} /\ INPUT_BUF_SIZE \in Nat /\ UART_TX_BUF_SIZE \in Nat
  BY ConsoleAssumption
<1>3. x % UINT \in 0 .. UINT - 1 /\ x % UINT64 \in 0 .. UINT64 - 1
  BY <1>2, ModType
<1>4. st = [p \in Procs |-> Idle] /\ intr = [pc |-> "idle", echo |-> 0] /\ ready = {} /\ rhr = <<>>
      /\ lines = <<>> /\ edit = <<>> /\ put = 0 /\ out = 0 /\ thr = Nil
  BY Zenon DEF Init
<1>5. ProcType /\ SleepersWait /\ LockInv
  BY <1>4 DEF ProcType, Idle, Labels, SleepersWait, LockInv
<1>6. IntrType /\ TxInv /\ ThrInv
  BY <1>4 DEF IntrType, TxInv, ThrInv
<1>7. InType
  BY <1>1, <1>3, <1>4, EmptySeq DEF InType, ConsType, Bufs, Sym
<1>8. TxType /\ OutputNotStalled
  BY <1>1, <1>3, <1>4 DEF TxType, OutputNotStalled
<1>9. OutSlots
  <2>1. tx.w - tx.r = 0 /\ 0 % UINT64 = 0
    BY <1>1, <1>2, <1>3, ModSmall
  <2> QED
    BY <1>2, <1>4, <2>1 DEF OutSlots
<1>10. RingInv
  <2> DEFINE r == x % UINT
  <2>1. r + 0 = r /\ r % UINT = r /\ 0 + 0 = 0
    BY <1>2, <1>3, ModSmall
  <2>2. cons.r = r /\ cons.w = r /\ cons.e = r
    BY <1>1
  <2> HIDE DEF r
  <2>3. cons.w = (cons.r + 0) % UINT /\ cons.e = (cons.r + (0 + 0)) % UINT
    BY <2>1, <2>2
  <2>4. Ring(cons.buf, cons.r, 0, 0, lines, edit)
    <3>1. 1 .. 0 = {} /\ 0 \in Nat /\ 0 + 0 <= INPUT_BUF_SIZE
      BY <1>2
    <3>2. <<>> \in [1 .. 0 -> Sym]
      BY <3>1
    <3> QED
      BY <1>4, <3>1, <3>2 DEF Ring
  <2>5. 0 \in Nat
    OBVIOUS
  <2> QED
    BY <2>3, <2>4, <2>5, Zenon DEF RingInv
<1> QED
  BY <1>5, <1>6, <1>7, <1>8, <1>9, <1>10 DEF ConsoleInv

\* The invariant of the console and the UART, whatever is typed and whoever
\* reads and writes.
THEOREM ConsoleInvariance == Spec => []ConsoleInv
<1>1. ConsoleInv /\ [Next]_vars => ConsoleInv'
  BY ProcStep, IntrStep, ReadyStep, LockStep, SleepStep, StallStep, OutStep, ThrStep, InStep DEF ConsoleInv
<1> QED
  BY InitHolds, <1>1, PTL DEF Spec

\* The ring of the console holds exactly what was typed, edited and entered
\* and not yet read, wherever r, w and e wrap around.
THEOREM InputIsExact == Spec => []InputExact
<1>1. ConsoleInv => InputExact
  <2> SUFFICES ASSUME ConsoleInv PROVE InputExact
    OBVIOUS
  <2>1. PICK a \in Nat, b \in Nat : /\ Ring(cons.buf, cons.r, a, b, lines, edit)
                                    /\ cons.w = (cons.r + a) % UINT /\ cons.e = (cons.r + (a + b)) % UINT
    BY DEF ConsoleInv, RingInv
  <2>2. ConsType /\ a + b <= INPUT_BUF_SIZE
    BY <2>1 DEF ConsoleInv, InType, Ring
  <2>3. (cons.w - cons.r) % UINT = a /\ (cons.e - cons.w) % UINT = b
    BY <2>1, <2>2, ApartNow
  <2>4. lines = Slice(cons.buf, INPUT_BUF_SIZE, cons.r, a, UINT)
    <3>1. ASSUME NEW i \in 1 .. a PROVE lines[i] = cons.buf[((cons.r + i - 1) % UINT) % INPUT_BUF_SIZE]
      <4>1. cons.r + i - 1 = cons.r + (i - 1)
        BY <2>2 DEF ConsType
      <4> QED
        BY <2>1, <4>1, Zenon DEF Ring, Slot
    <3>2. lines = [i \in 1 .. a |-> lines[i]]
      BY <2>1 DEF Ring
    <3> QED
      BY <3>1, <3>2 DEF Slice
  <2>5. edit = Slice(cons.buf, INPUT_BUF_SIZE, cons.w, b, UINT)
    <3>1. ASSUME NEW i \in 1 .. b PROVE edit[i] = cons.buf[((cons.w + i - 1) % UINT) % INPUT_BUF_SIZE]
      <4> DEFINE j == i - 1
      <4>1. /\ j \in Nat /\ a + j <= UINT /\ cons.r \in 0 .. UINT - 1 /\ UINT \in Nat \ {0}
            /\ cons.w + i - 1 = cons.w + j /\ a + i - 1 = a + j
        BY <2>2, Sizes DEF ConsType
      <4>2. edit[i] = cons.buf[Slot(UINT, INPUT_BUF_SIZE, cons.r, a + i - 1)]
        BY <2>1 DEF Ring
      <4> HIDE DEF j
      <4>3. Slot(UINT, INPUT_BUF_SIZE, (cons.r + a) % UINT, j) = Slot(UINT, INPUT_BUF_SIZE, cons.r, a + j)
        BY <4>1, InFrom
      <4>4. edit[i] = cons.buf[Slot(UINT, INPUT_BUF_SIZE, cons.w, j)]
        BY <2>1, <4>1, <4>2, <4>3, Zenon
      <4> QED
        BY <4>1, <4>4, Zenon DEF Slot
    <3>2. edit = [i \in 1 .. b |-> edit[i]]
      BY <2>1 DEF Ring
    <3> QED
      BY <3>1, <3>2 DEF Slice
  <2> QED
    BY <2>2, <2>3, <2>4, <2>5, Zenon DEF InputExact
<1> QED
  BY ConsoleInvariance, <1>1, PTL

\* No wakeup of the console or of the UART is lost.
THEOREM NobodySleepsInVain == Spec => []SleepersWait
<1>1. ConsoleInv => SleepersWait
  BY DEF ConsoleInv
<1> QED
  BY ConsoleInvariance, <1>1, PTL

\* uartstart() gives THR what uartputc() took, in the same order and each
\* character once.  (An echo may still overwrite one there: NoOverrun.)
THEOREM OutputOrder == Spec => []OutputInOrder
<1>1. ConsoleInv => OutputInOrder
  BY OutIs DEF ConsoleInv
<1> QED
  BY ConsoleInvariance, <1>1, PTL

\* While characters wait, somebody will go on with them.
THEOREM OutputGoesOn == Spec => []OutputNotStalled
<1>1. ConsoleInv => OutputNotStalled
  BY DEF ConsoleInv
<1> QED
  BY ConsoleInvariance, <1>1, PTL
=============================================================================
