------------------------------ MODULE Console ------------------------------
(***************************************************************************)
(* The console and the UART: console.c and uart.c.                          *)
(*                                                                          *)
(* Processes call consoleread() and consolewrite(); the interrupt handler   *)
(* uartintr() runs on one processor at a time (the PLIC gives an interrupt  *)
(* to one hart until it is completed).  cons.lock and uart_tx_lock are kept *)
(* as variables where a holder takes several steps.  The UART is external:  *)
(* it holds received characters, sends the one in THR, and interrupts when  *)
(* a character has come or THR has become empty.                            *)
(***************************************************************************)
EXTENDS Integers, Sequences, FiniteSets

CONSTANTS Procs,
          Keys,              \* what is typed: letters and "nl", "^D", "^U", "^H"
          INPUT_BUF_SIZE, UART_TX_BUF_SIZE,
          UINT,              \* 2^32, the arithmetic of r, w and e
          UINT64,            \* that of uart_tx_r and uart_tx_w
          Starts,            \* values of the indices to start from
          MaxTyped, MaxCalls,
          Reads, Writes,     \* the n of read() and write()
          RXMax,             \* characters the UART holds that were not read
          Nil

Intr == "intr"               \* the holder of a lock, when it is uartintr()

(* The sizes are powers of two in the code, so that the indices may wrap.   *)
ASSUME ConsoleAssumption ==
  /\ INPUT_BUF_SIZE \in Nat \ {0} /\ UINT \in Nat /\ INPUT_BUF_SIZE < UINT
  /\ UART_TX_BUF_SIZE \in Nat \ {0} /\ UINT64 \in Nat /\ UART_TX_BUF_SIZE < UINT64
  /\ UINT % INPUT_BUF_SIZE = 0 /\ UINT64 % UART_TX_BUF_SIZE = 0
  /\ Starts \cup Reads \cup Writes \subseteq Nat
  /\ Nil \notin Procs \cup {Intr} \cup Nat /\ {Intr, "echo"} \cap Procs = {}

VARIABLES
  cons,      \* cons.buf, r, w, e
  conslock,
  tx,        \* uart_tx_buf, uart_tx_r, uart_tx_w
  txlock,
  rhr,       \* received characters that were not read
  thr,       \* the character being sent, Nil when idle
  txirq,     \* THR became empty and that was not handled
  intr,      \* where uartintr() is, and what consputc() has still to send
  st,        \* where each process is
  ready,     \* those that saw THR empty and are about to write to it
  lines, edit,   \* what was entered and not yet read, what is being edited
  put, out,  \* characters that uartputc() took, and those given to THR
  typed, calls

vars == <<cons, conslock, tx, txlock, rhr, thr, txirq, intr, st, ready, lines, edit, put, out, typed, calls>>
input == <<cons, lines, edit>>
output == <<tx, put, out>>

Idle == [pc |-> "idle", n |-> 0, target |-> 0, killed |-> FALSE]

Init ==
  \E x \in Starts :
    /\ cons = [buf |-> [i \in 0 .. INPUT_BUF_SIZE - 1 |-> Nil], r |-> x % UINT, w |-> x % UINT, e |-> x % UINT]
    /\ tx = [buf |-> [i \in 0 .. UART_TX_BUF_SIZE - 1 |-> Nil], r |-> x % UINT64, w |-> x % UINT64]
    /\ conslock = Nil /\ txlock = Nil
    /\ rhr = <<>> /\ thr = Nil /\ txirq = FALSE
    /\ intr = [pc |-> "idle", echo |-> 0]
    /\ st = [p \in Procs |-> Idle]
    /\ ready = {}
    /\ lines = <<>> /\ edit = <<>>
    /\ put = 0 /\ out = 0
    /\ typed = MaxTyped /\ calls = MaxCalls

-----------------------------------------------------------------------------
(* The UART (external).                                                     *)
Type(c) ==
  /\ typed > 0 /\ Len(rhr) < RXMax
  /\ typed' = typed - 1
  /\ rhr' = Append(rhr, c)
  /\ UNCHANGED <<cons, conslock, tx, txlock, thr, txirq, intr, st, ready, lines, edit, put, out, calls>>
Sent ==
  /\ thr # Nil
  /\ thr' = Nil
  /\ txirq' = TRUE
  /\ UNCHANGED <<cons, conslock, tx, txlock, rhr, intr, st, ready, lines, edit, put, out, typed, calls>>

(* uartstart() by who, which holds uart_tx_lock, one round of the loop in   *)
(* two steps: the test of LSR and the write to THR.  next is where who goes *)
(* on when the loop ends.                                                   *)
Waiting == {p \in Procs : st[p].pc = "txsleep"}
Ends == tx.w = tx.r \/ thr # Nil
StartTest(who) ==
  /\ txlock = who /\ who \notin ready /\ ~Ends
  /\ ready' = ready \cup {who}
  /\ UNCHANGED <<cons, conslock, tx, txlock, rhr, thr, txirq, intr, st, lines, edit, put, out, typed, calls>>
(* Mutant: nobody is woken.                                                 *)
StartWriteSilent(who) ==
  /\ txlock = who /\ who \in ready
  /\ thr' = tx.buf[tx.r % UART_TX_BUF_SIZE]
  /\ tx' = [tx EXCEPT !.r = (@ + 1) % UINT64, !.buf[tx.r % UART_TX_BUF_SIZE] = Nil]
  /\ out' = out + 1
  /\ ready' = ready \ {who}
  /\ UNCHANGED <<cons, conslock, txlock, rhr, txirq, intr, st, lines, edit, put, typed, calls>>
StartWrite(who) ==
  /\ txlock = who /\ who \in ready
  /\ thr' = tx.buf[tx.r % UART_TX_BUF_SIZE]
  /\ tx' = [tx EXCEPT !.r = (@ + 1) % UINT64, !.buf[tx.r % UART_TX_BUF_SIZE] = Nil]
  /\ out' = out + 1
  /\ st' = [p \in Procs |-> IF p \in Waiting THEN [st[p] EXCEPT !.pc = "putc"] ELSE st[p]]
  /\ ready' = ready \ {who}
  /\ UNCHANGED <<cons, conslock, txlock, rhr, txirq, intr, lines, edit, put, typed, calls>>

-----------------------------------------------------------------------------
(* A call returns to user space, where a killed process ends.               *)
Return(p) == [st EXCEPT ![p] = IF st[p].killed THEN [Idle EXCEPT !.pc = "dead"] ELSE Idle]

(* consolewrite() of n characters: uartputc() for each, until copyin()      *)
(* fails.  The characters are numbered in the order in which uartputc()     *)
(* takes them.                                                              *)
WriteNext(p, n) ==
  \/ n > 0 /\ st' = [st EXCEPT ![p].pc = "putc", ![p].n = n]
  \/ st' = Return(p)
WriteCall(p, n) ==
  /\ st[p].pc = "idle" /\ calls > 0
  /\ calls' = calls - 1
  /\ WriteNext(p, n)
  /\ UNCHANGED <<cons, conslock, tx, txlock, rhr, thr, txirq, intr, ready, lines, edit, put, out, typed>>
(* Mutant: one character too many.                                          *)
FullLate == tx.w = (tx.r + UART_TX_BUF_SIZE + 1) % UINT64
Full == tx.w = (tx.r + UART_TX_BUF_SIZE) % UINT64
Uartputc(p) ==
  /\ st[p].pc = "putc" /\ txlock = Nil
  /\ IF Full
       THEN st' = [st EXCEPT ![p].pc = "txsleep"] /\ UNCHANGED <<tx, txlock, put>>
       ELSE /\ tx' = [tx EXCEPT !.buf[tx.w % UART_TX_BUF_SIZE] = put + 1, !.w = (@ + 1) % UINT64]
            /\ put' = put + 1
            /\ txlock' = p
            /\ st' = [st EXCEPT ![p].pc = "start", ![p].n = @ - 1]
  /\ UNCHANGED <<cons, conslock, rhr, thr, txirq, intr, ready, lines, edit, out, typed, calls>>
PutcDone(p) ==
  /\ st[p].pc = "start" /\ txlock = p /\ p \notin ready /\ Ends
  /\ txlock' = Nil
  /\ WriteNext(p, st[p].n)
  /\ UNCHANGED <<cons, conslock, tx, rhr, thr, txirq, intr, ready, lines, edit, put, out, typed, calls>>

-----------------------------------------------------------------------------
(* consoleread() of n characters.                                           *)
ReadCall(p, n) ==
  /\ st[p].pc = "idle" /\ calls > 0
  /\ calls' = calls - 1
  /\ st' = [st EXCEPT ![p] = [@ EXCEPT !.pc = "read", !.n = n, !.target = n]]
  /\ UNCHANGED <<cons, conslock, tx, txlock, rhr, thr, txirq, intr, ready, lines, edit, put, out, typed>>

(* The loop of consoleread() from where the lock is taken to where it is    *)
(* released, one character at a time.  killed() and sleep() are two steps:  *)
(* kill() does not take cons.lock and may come between them.                *)
ReadStep(p) ==
  LET c == cons.buf[cons.r % INPUT_BUF_SIZE]
      next == [cons EXCEPT !.r = (@ + 1) % UINT, !.buf[cons.r % INPUT_BUF_SIZE] = Nil]
  IN /\ st[p].pc = "read" /\ conslock \in {Nil, p}
     /\ \/ /\ cons.r = cons.w
           /\ IF st[p].killed THEN st' = Return(p) /\ conslock' = Nil
              ELSE st' = [st EXCEPT ![p].pc = "tosleep"] /\ conslock' = p
           /\ UNCHANGED input
        \/ /\ cons.r # cons.w /\ c = "^D"
           /\ IF st[p].n < st[p].target THEN UNCHANGED input
              ELSE cons' = next /\ lines' = Tail(lines) /\ UNCHANGED edit
           /\ st' = Return(p)
           /\ conslock' = Nil
        \/ /\ cons.r # cons.w /\ c # "^D"
           /\ cons' = next
           /\ lines' = Tail(lines)
           /\ IF c = "nl" \/ st[p].n = 1 THEN st' = Return(p) /\ conslock' = Nil
              ELSE st' = [st EXCEPT ![p].n = @ - 1] /\ conslock' = p
           /\ UNCHANGED edit
     /\ UNCHANGED <<tx, txlock, rhr, thr, txirq, intr, ready, put, out, typed, calls>>
ReadFault(p) == \* copyout() fails: the character is gone
  /\ st[p].pc = "read" /\ conslock \in {Nil, p} /\ cons.r # cons.w
  /\ cons.buf[cons.r % INPUT_BUF_SIZE] # "^D"
  /\ cons' = [cons EXCEPT !.r = (@ + 1) % UINT, !.buf[cons.r % INPUT_BUF_SIZE] = Nil]
  /\ lines' = Tail(lines)
  /\ st' = Return(p)
  /\ conslock' = Nil
  /\ UNCHANGED <<edit, tx, txlock, rhr, thr, txirq, intr, ready, put, out, typed, calls>>

(* sleep(&cons.r, &cons.lock).                                              *)
ReadSleep(p) ==
  /\ st[p].pc = "tosleep"
  /\ st' = [st EXCEPT ![p].pc = "sleep"]
  /\ conslock' = Nil
  /\ UNCHANGED <<cons, tx, txlock, rhr, thr, txirq, intr, ready, lines, edit, put, out, typed, calls>>

(* kill(): makes a sleeping process runnable.  consoleread() looks, the     *)
(* loop of uartputc() does not.                                             *)
Runnable(l) == IF l = "sleep" THEN "read" ELSE IF l = "txsleep" THEN "putc" ELSE l
Kill(p) ==
  /\ st[p].pc \notin {"idle", "dead"}
  /\ st' = [st EXCEPT ![p].killed = TRUE, ![p].pc = Runnable(st[p].pc)]
  /\ UNCHANGED <<cons, conslock, tx, txlock, rhr, thr, txirq, intr, ready, lines, edit, put, out, typed, calls>>

-----------------------------------------------------------------------------
(* uartintr(): every received character, then uartstart().                  *)
IntrEnter ==
  /\ intr.pc = "idle" /\ (rhr # <<>> \/ txirq)
  /\ txirq' = FALSE
  /\ intr' = [intr EXCEPT !.pc = "rx"]
  /\ UNCHANGED <<cons, conslock, tx, txlock, rhr, thr, st, ready, lines, edit, put, out, typed, calls>>

(* consoleintr(c): the buffer and the number of characters to echo, which   *)
(* consputc() sends while cons.lock is held.  Count is e - x in uint.       *)
Count(x) == (cons.e - x) % UINT
Wake(p) == IF st[p].pc = "sleep" THEN [st[p] EXCEPT !.pc = "read"] ELSE st[p]
(* Mutant: one character too many.                                          *)
RoomLoose == Count(cons.r) <= INPUT_BUF_SIZE
Room == Count(cons.r) < INPUT_BUF_SIZE
Store(c) ==
  IF ~Room THEN UNCHANGED <<cons, lines, edit, st>> /\ intr' = intr
  ELSE LET e == (cons.e + 1) % UINT
           commit == c \in {"nl", "^D"} \/ (e - cons.r) % UINT = INPUT_BUF_SIZE
       IN /\ cons' = [cons EXCEPT !.buf[cons.e % INPUT_BUF_SIZE] = c, !.e = e, !.w = IF commit THEN e ELSE @]
          /\ IF commit THEN lines' = lines \o Append(edit, c) /\ edit' = <<>>
             ELSE edit' = Append(edit, c) /\ UNCHANGED lines
          /\ st' = IF commit THEN [p \in Procs |-> Wake(p)] ELSE st
          /\ intr' = [pc |-> "echo", echo |-> 1]
Erase(k) ==
  /\ cons' = [cons EXCEPT !.e = (@ - k) % UINT,
                          !.buf = [i \in DOMAIN @ |-> IF \E j \in 1 .. k : i = ((cons.e - j) % UINT) % INPUT_BUF_SIZE
                                                        THEN Nil ELSE @[i]]]
  /\ edit' = SubSeq(edit, 1, Len(edit) - k)
  /\ intr' = IF k = 0 THEN intr ELSE [pc |-> "echo", echo |-> 3 * k]
  /\ UNCHANGED <<lines, st>>
Consoleintr ==
  LET c == Head(rhr)
  IN /\ intr.pc = "rx" /\ rhr # <<>> /\ conslock = Nil
     /\ rhr' = Tail(rhr)
     /\ \/ c = "^U" /\ Erase(Count(cons.w))
        \/ c = "^H" /\ Erase(IF cons.e # cons.w THEN 1 ELSE 0)
        \/ c \notin {"^U", "^H"} /\ Store(c)
     /\ conslock' = IF intr'.pc = "echo" THEN Intr ELSE Nil
     /\ UNCHANGED <<tx, txlock, thr, txirq, ready, put, out, typed, calls>>

(* uartputc_sync() for an echo: it does not hold uart_tx_lock.              *)
EchoTest ==
  /\ intr.pc = "echo" /\ "echo" \notin ready /\ thr = Nil
  /\ ready' = ready \cup {"echo"}
  /\ UNCHANGED <<cons, conslock, tx, txlock, rhr, thr, txirq, intr, st, lines, edit, put, out, typed, calls>>
EchoWrite ==
  /\ intr.pc = "echo" /\ "echo" \in ready
  /\ thr' = 0
  /\ ready' = ready \ {"echo"}
  /\ intr' = IF intr.echo = 1 THEN [pc |-> "rx", echo |-> 0] ELSE [intr EXCEPT !.echo = @ - 1]
  /\ conslock' = IF intr.echo = 1 THEN Nil ELSE conslock
  /\ UNCHANGED <<cons, tx, txlock, rhr, txirq, st, lines, edit, put, out, typed, calls>>

(* Mutant: the handler does not restart the output.                         *)
IntrSkip ==
  /\ intr.pc = "rx" /\ rhr = <<>>
  /\ intr' = [intr EXCEPT !.pc = "idle"]
  /\ UNCHANGED <<cons, conslock, tx, txlock, rhr, thr, txirq, st, ready, lines, edit, put, out, typed, calls>>
IntrStart ==
  /\ intr.pc = "rx" /\ rhr = <<>> /\ txlock = Nil
  /\ txlock' = Intr
  /\ intr' = [intr EXCEPT !.pc = "start"]
  /\ UNCHANGED <<cons, conslock, tx, rhr, thr, txirq, st, ready, lines, edit, put, out, typed, calls>>
IntrExit ==
  /\ intr.pc = "start" /\ Intr \notin ready /\ Ends
  /\ txlock' = Nil
  /\ intr' = [intr EXCEPT !.pc = "idle"]
  /\ UNCHANGED <<cons, conslock, tx, rhr, thr, txirq, st, ready, lines, edit, put, out, typed, calls>>

Resting ==
  /\ typed = 0 /\ calls = 0 /\ rhr = <<>> /\ thr = Nil /\ ~txirq /\ intr.pc = "idle"
  /\ \A p \in Procs : st[p].pc \in {"idle", "dead"}
  /\ UNCHANGED vars

Next ==
  \/ \E c \in Keys : Type(c)
  \/ Sent
  \/ \E p \in Procs :
       \/ \E n \in Writes : WriteCall(p, n)
       \/ \E n \in Reads : ReadCall(p, n)
       \/ Uartputc(p) \/ PutcDone(p) \/ StartTest(p) \/ StartWrite(p)
       \/ ReadStep(p) \/ ReadSleep(p) \/ ReadFault(p) \/ Kill(p)
  \/ IntrEnter \/ Consoleintr \/ EchoTest \/ EchoWrite \/ IntrStart \/ IntrExit
  \/ StartTest(Intr) \/ StartWrite(Intr)
  \/ Resting

Spec == Init /\ [][Next]_vars

-----------------------------------------------------------------------------
Slice(buf, size, from, n, uint) == [i \in 1 .. n |-> buf[((from + i - 1) % uint) % size]]

(* The ring of the console holds what was typed, edited and entered and not *)
(* yet read, each character once and in order, also when r, w and e wrap:   *)
(* editing never reaches back into a line that was entered, a full buffer   *)
(* is given to the reader, and ^D is kept for a read of its own.            *)
InputExact ==
  LET W == (cons.w - cons.r) % UINT
      E == (cons.e - cons.w) % UINT
  IN /\ W + E <= INPUT_BUF_SIZE
     /\ lines = Slice(cons.buf, INPUT_BUF_SIZE, cons.r, W, UINT)
     /\ edit = Slice(cons.buf, INPUT_BUF_SIZE, cons.w, E, UINT)

(* A reader sleeps only while there is nothing to read, a writer only while *)
(* the ring of the UART is full: no wakeup of consoleintr() or uartstart()  *)
(* is lost, also when kill() makes a sleeper look again.  (That the reader  *)
(* was not killed cannot be asked: see KilledReaderReturns.)                *)
SleepersWait ==
  \A p \in Procs :
    /\ st[p].pc = "sleep" => cons.r = cons.w
    /\ st[p].pc = "txsleep" => Full

(* "Wake process from sleep()" (kill() in proc.c), so that a killed reader  *)
(* gets to the killed() of its loop.  False when kill() comes between       *)
(* killed() and sleep().                                                    *)
KilledReaderReturns == \A p \in Procs : st[p].pc = "sleep" => ~st[p].killed

(* uartstart() gives THR the characters in the order in which uartputc()    *)
(* took them, each once: those in the ring are the ones after the last that *)
(* was given, and THR holds that one, or an echo (0), or is empty.          *)
OutputInOrder ==
  /\ thr \in {Nil, 0, out}
  /\ put - out = (tx.w - tx.r) % UINT64 /\ put - out <= UART_TX_BUF_SIZE
  /\ \A i \in 1 .. put - out : tx.buf[((tx.r + i - 1) % UINT64) % UART_TX_BUF_SIZE] = out + i

(* Output never stops by itself: while characters wait in the ring, the     *)
(* UART is sending, or an interrupt is due or in service, or somebody is in *)
(* uartstart().                                                             *)
OutputNotStalled == tx.w # tx.r => thr # Nil \/ txirq \/ intr.pc # "idle" \/ txlock # Nil

(* The comments of uartstart() and uartputc_sync(): a character is written  *)
(* to THR only when it is empty.                                            *)
NoOverrun == [][thr # Nil => thr' \in {thr, Nil}]_vars
=============================================================================
