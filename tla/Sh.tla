--------------------------------- MODULE Sh ---------------------------------
(***************************************************************************)
(* The user side of the system: init (user/init.c) and the shell           *)
(* (user/sh.c) above the process and descriptor calls of the kernel.  A    *)
(* command line is a sequence of tokens.  A shell reads it, forks, the     *)
(* child parses it into a command tree and runs the tree, forking further  *)
(* processes and joining them with pipes.  init restarts a shell that ends *)
(* and reaps the processes whose parents are gone.                         *)
(*                                                                         *)
(* Calls one process makes in a row that cannot block (close, dup, close,  *)
(* close) are one step.  The programs that exec() starts are external:     *)
(* one may stop at any time, and one that reads all of its input and       *)
(* writes all of its output stops when its pipes let it.                   *)
(***************************************************************************)
EXTENDS Integers, Sequences, FiniteSets, FiniteSetsExt, SequencesExt

CONSTANTS Procs,       \* the process table; its least element is init
          Pipes,       \* the pipes the kernel has room for
          NOFILE,      \* open files per process
          MAXARGS,     \* sh.c:14
          FirstLines,  \* what the first line typed may be
          Lines,       \* what every later line may be
          MaxLines     \* bound: lines typed (the end of input is one too)

ASSUME ShAssumption == /\ Procs \subseteq Nat /\ Cardinality(Procs) >= 3
                       /\ NOFILE >= 5 /\ MAXARGS >= 1 /\ MaxLines \in Nat

VARIABLES proc,     \* the process table: what runs in each slot
          typed,    \* the lines typed so far
          gaveup    \* ghost: some fork() or pipe() has failed

vars == <<proc, typed, gaveup>>

Word == "a"
EOF == <<"eof">>
Cd == <<"cd">>

-----------------------------------------------------------------------------
(* The parser.  Each function takes the tokens left and returns what it    *)
(* built with the tokens it leaves; ok is FALSE where the code panics.     *)

\* F applied to x, evaluated once.
With(x, F(_)) == CHOOSE r \in {F(y) : y \in {x}} : TRUE

Execcmd(argc) == [type |-> "EXEC", argc |-> argc]
Pipecmd(l, r) == [type |-> "PIPE", left |-> l, right |-> r]
Listcmd(l, r) == [type |-> "LIST", left |-> l, right |-> r]
Backcmd(c) == [type |-> "BACK", cmd |-> c]

\* redircmd() with the mode and descriptor its three call sites give it.
Redircmd(c, tok) ==
  [type |-> "REDIR", cmd |-> c, mode |-> tok, fd |-> IF tok = "<" THEN 0 ELSE 1]

Parsed(c, s) == [ok |-> TRUE, cmd |-> c, ps |-> s]
Syntax == [ok |-> FALSE, cmd |-> Execcmd(0), ps |-> <<>>]

\* gettoken(): a token is taken, and what is left returned.  Its characters,
\* and the white space around it, do not matter.
Gettoken(s) == Tail(s)

Peek(s, toks) == s # <<>> /\ Head(s) \in toks

Redirs == {"<", ">", ">>"}

RECURSIVE ParseRedirs(_, _)
ParseRedirs(toks, s) ==
  CASE ~Peek(s, Redirs) -> [ok |-> TRUE, toks |-> toks, ps |-> s]
    [] Peek(s, Redirs) /\ Peek(Gettoken(s), {Word}) ->
         ParseRedirs(Append(toks, Head(s)), Gettoken(Gettoken(s)))
    [] OTHER -> [ok |-> FALSE, toks |-> toks, ps |-> s]

\* What parseredirs() wraps around c, the last redirection outermost.
Wrapped(c, toks) == FoldLeft(Redircmd, c, toks)

\* The loop of parseexec(): argc words and the redirections toks so far.  The
\* words go into the execcmd at the bottom, whatever has been wrapped around it.
RECURSIVE ParseArgs(_, _, _)
ParseArgs(argc, toks, s) ==
  With(ParseRedirs(toks, s), LAMBDA r :
    CASE ~r.ok -> Syntax
      [] r.ok /\ (r.ps = <<>> \/ Peek(r.ps, {"|", ")", "&", ";"})) ->
           Parsed(Wrapped(Execcmd(argc), r.toks), r.ps)
      [] r.ok /\ Peek(r.ps, {Word}) /\ argc + 1 < MAXARGS ->
           ParseArgs(argc + 1, r.toks, Gettoken(r.ps))
      [] OTHER -> Syntax)

\* parseblock() after its parseline(): the closing parenthesis, redirections.
BlockEnd(l) ==
  IF ~l.ok \/ ~Peek(l.ps, {")"}) THEN Syntax
  ELSE With(ParseRedirs(<<>>, Gettoken(l.ps)), LAMBDA r :
         IF r.ok THEN Parsed(Wrapped(l.cmd, r.toks), r.ps) ELSE Syntax)

\* Mutant: parseline() tests for "&" once.
BacksOnce(r) == IF r.ok /\ Peek(r.ps, {"&"}) THEN Parsed(Backcmd(r.cmd), Gettoken(r.ps)) ELSE r

\* The loop of parseline() over "&".
RECURSIVE Backs(_)
Backs(r) == IF r.ok /\ Peek(r.ps, {"&"})
              THEN Backs(Parsed(Backcmd(r.cmd), Gettoken(r.ps))) ELSE r

\* The command c of a list or a pipe whose rest was parsed as r.
Joined(c, r) == IF r.ok THEN Parsed(c, r.ps) ELSE Syntax

RECURSIVE ParseLine(_), ParsePipe(_), ParseExec(_)
ParseExec(s) ==
  IF Peek(s, {"("}) THEN With(ParseLine(Gettoken(s)), BlockEnd) ELSE ParseArgs(0, <<>>, s)

ParsePipe(s) ==
  With(ParseExec(s), LAMBDA l :
    IF l.ok /\ Peek(l.ps, {"|"})
      THEN With(ParsePipe(Gettoken(l.ps)), LAMBDA r : Joined(Pipecmd(l.cmd, r.cmd), r))
      ELSE l)

ParseLine(s) ==
  With(Backs(ParsePipe(s)), LAMBDA l :
    IF l.ok /\ Peek(l.ps, {";"})
      THEN With(ParseLine(Gettoken(l.ps)), LAMBDA r : Joined(Listcmd(l.cmd, r.cmd), r))
      ELSE l)

Parsecmd(s) == With(ParseLine(s), LAMBDA r : IF r.ps = <<>> THEN r ELSE Syntax)

-----------------------------------------------------------------------------
(* The process and descriptor calls, as far as init and sh see them.       *)

FDs == 0 .. NOFILE - 1
None == <<"none", 0>>
Console == <<"console", 0>>
File == <<"file", 0>>
End(e, i) == <<e, i>>   \* e is "r" or "w": an end of pipe i

Unused == [pc |-> "unused", parent |-> 0, buf |-> <<>>, cmd |-> Execcmd(0),
           pid |-> 0, p |-> <<0, 0>>, fd |-> [f \in FDs |-> None], bg |-> FALSE]

init == Min(Procs)
Live(p) == proc[p].pc \notin {"unused", "zombie"}
Children(p) == {c \in Procs : proc[c].pc # "unused" /\ proc[c].parent = p}

\* init has exited, and the kernel has panicked.
Halted == proc[init].pc = "zombie"

\* Process p is at pc; it is in runcmd(), about to run a command of type t.
At(p, pc) == ~Halted /\ proc[p].pc = pc
Runs(p, t) == At(p, "run") /\ proc[p].cmd.type = t

Lowest(fd) == Min({f \in FDs : fd[f] = None})
CloseFd(fd, f) == [fd EXCEPT ![f] = None]
Install(fd, x) == [fd EXCEPT ![Lowest(fd)] = x]

\* Who has an end of pipe i open.
Holds(p, e, i) == \E f \in FDs : proc[p].fd[f] = End(e, i)
Held(e, i) == \E p \in Procs : Holds(p, e, i)

\* exit(): the descriptors are closed, the children go to init, the process
\* waits to be reaped.
Exited(t, p) ==
  [q \in Procs |->
     IF q = p THEN [Unused EXCEPT !.pc = "zombie", !.parent = t[p].parent]
     ELSE IF t[q].pc # "unused" /\ t[q].parent = p THEN [t[q] EXCEPT !.parent = init]
     ELSE t[q]]

Exit(p) == proc' = Exited(proc, p)

\* fork1(): with a free slot the child c starts at child, a copy of p, which
\* itself goes on at pc; with none p panics, that is, exits.  The line in buf
\* is for the child: p does not read it before getcmd() clears it.
Fork1(p, child, pc) ==
  IF \E c \in Procs : proc[c].pc = "unused"
    THEN LET c == Min({d \in Procs : proc[d].pc = "unused"}) IN
         /\ proc' = [proc EXCEPT ![c] = [child EXCEPT !.parent = p], ![p].pc = pc, ![p].pid = c,
                                  ![p].buf = <<>>]
         /\ UNCHANGED gaveup
    ELSE Exit(p) /\ gaveup' = TRUE

\* wait() returns with the dead child c reaped, and p goes on as next.
Reap(p, c, next) ==
  /\ c \in Children(p) /\ proc[c].pc = "zombie"
  /\ proc' = [proc EXCEPT ![c] = Unused, ![p] = next]

-----------------------------------------------------------------------------
(* init and the shell's main().                                            *)

Init ==
  /\ proc = [p \in Procs |->
       IF p = init
         THEN [Unused EXCEPT !.pc = "init", !.fd = [f \in FDs |-> IF f < 3 THEN Console ELSE None]]
         ELSE Unused]
  /\ typed = 0
  /\ gaveup = FALSE

\* init forks.  Without a slot init exits, and the kernel panics.
InitFork(p) ==
  /\ At(p, "init")
  /\ Fork1(p, [proc[p] EXCEPT !.pc = "execsh"], "initwait")
  /\ UNCHANGED typed

\* exec("sh") in the child: it becomes the shell, or exits when that fails.
InitExec(p) ==
  /\ At(p, "execsh")
  /\ proc' = [proc EXCEPT ![p].pc = "getcmd"] \/ Exit(p)
  /\ UNCHANGED <<typed, gaveup>>

\* init's loop around wait(): it starts another shell when the shell is what
\* it reaped, and an orphan it just forgets.
InitWait(p) ==
  /\ At(p, "initwait")
  /\ \E c \in Procs :
       Reap(p, c, [proc[p] EXCEPT !.pc = IF c = proc[p].pid THEN "init" ELSE "initwait"])
  /\ UNCHANGED <<typed, gaveup>>

\* getcmd() and the test for cd: a line to run, a cd done by the shell itself,
\* or the end of input, which ends the shell.
Getcmd(p) ==
  /\ At(p, "getcmd") /\ typed < MaxLines
  /\ typed' = typed + 1
  /\ \E l \in IF typed = 0 THEN FirstLines ELSE Lines :
       \/ l = EOF /\ Exit(p)
       \/ l = Cd /\ UNCHANGED proc
       \/ l \notin {EOF, Cd} /\ proc' = [proc EXCEPT ![p].pc = "fork", ![p].buf = l]
  /\ UNCHANGED gaveup

ShFork(p) ==
  /\ At(p, "fork")
  /\ Fork1(p, [proc[p] EXCEPT !.pc = "parse"], "wait")
  /\ UNCHANGED typed

ShWait(p) ==
  /\ At(p, "wait")
  /\ \E c \in Procs : Reap(p, c, [proc[p] EXCEPT !.pc = "getcmd"])
  /\ UNCHANGED <<typed, gaveup>>

-----------------------------------------------------------------------------
(* runcmd(): a process that has parsed its line, or a part of it.          *)

\* runcmd(parsecmd(buf)): a syntax error ends the child.
Parse(p) ==
  /\ At(p, "parse")
  /\ \E r \in {Parsecmd(proc[p].buf)} :
       IF r.ok THEN proc' = [proc EXCEPT ![p].pc = "run", ![p].cmd = r.cmd, ![p].buf = <<>>]
       ELSE Exit(p)
  /\ UNCHANGED <<typed, gaveup>>

\* case EXEC: nothing to run, a program that starts, or an exec() that fails.
RunExec(p) ==
  /\ Runs(p, "EXEC")
  /\ \/ proc[p].cmd.argc > 0 /\ proc' = [proc EXCEPT ![p].pc = "program"]
     \/ Exit(p)
  /\ UNCHANGED <<typed, gaveup>>

\* case REDIR: close(), then open(), which may fail and end the process.
RunRedir(p) ==
  /\ Runs(p, "REDIR")
  /\ \/ proc' = [proc EXCEPT ![p].fd = Install(CloseFd(@, proc[p].cmd.fd), File),
                             ![p].cmd = proc[p].cmd.cmd]
     \/ Exit(p)
  /\ UNCHANGED <<typed, gaveup>>

\* case LIST: the left command in a child, the right one after its wait().
RunList(p) ==
  /\ Runs(p, "LIST")
  /\ Fork1(p, [proc[p] EXCEPT !.cmd = proc[p].cmd.left], "list")
  /\ UNCHANGED typed

ListWait(p) ==
  /\ At(p, "list")
  /\ \E c \in Procs : Reap(p, c, [proc[p] EXCEPT !.pc = "run", !.cmd = proc[p].cmd.right])
  /\ UNCHANGED <<typed, gaveup>>

\* case BACK: the command in a child nobody waits for.
RunBack(p) ==
  /\ Runs(p, "BACK")
  /\ Fork1(p, [proc[p] EXCEPT !.cmd = proc[p].cmd.cmd, !.bg = TRUE], "exit")
  /\ UNCHANGED typed

\* case PIPE: pipe(), whose failure is a panic.
RunPipe(p) ==
  /\ Runs(p, "PIPE")
  /\ LET free == {i \in Pipes : ~Held("r", i) /\ ~Held("w", i)} IN
     IF free = {} THEN Exit(p) /\ gaveup' = TRUE
     ELSE LET half == Install(proc[p].fd, End("r", Min(free))) IN
          /\ proc' = [proc EXCEPT ![p].pc = "left",
                                  ![p].p = <<Lowest(proc[p].fd), Lowest(half)>>,
                                  ![p].fd = Install(half, End("w", Min(free)))]
          /\ UNCHANGED gaveup
  /\ UNCHANGED typed

\* close(p[0]); close(p[1])
ClosePair(fd, p) == CloseFd(CloseFd(fd, p[1]), p[2])

\* The two forks of a pipe, of the writer and of the reader.
ForkLeft(p) ==
  /\ At(p, "left")
  /\ Fork1(p, [proc[p] EXCEPT !.pc = "writer", !.cmd = proc[p].cmd.left], "right")
  /\ UNCHANGED typed

ForkRight(p) ==
  /\ At(p, "right")
  /\ Fork1(p, [proc[p] EXCEPT !.pc = "reader", !.cmd = proc[p].cmd.right], "close")
  /\ UNCHANGED typed

\* Mutant: the child closes only the end it has duplicated.
PluggedKeep(fd, f, end, p) == CloseFd(Install(CloseFd(fd, f), fd[end]), end)

\* A child plugs its end of the pipe in: close(), dup(), close(), close().
Plugged(fd, f, end, p) == ClosePair(Install(CloseFd(fd, f), fd[end]), p)

Plug(p) ==
  /\ \/ /\ At(p, "writer")
        /\ proc' = [proc EXCEPT ![p].pc = "run", ![p].fd = Plugged(@, 1, proc[p].p[2], proc[p].p)]
     \/ /\ At(p, "reader")
        /\ proc' = [proc EXCEPT ![p].pc = "run", ![p].fd = Plugged(@, 0, proc[p].p[1], proc[p].p)]
  /\ UNCHANGED <<typed, gaveup>>

\* Mutant: the parent keeps its descriptors of the pipe.
PipeCloseNot(p) ==
  /\ At(p, "close")
  /\ proc' = [proc EXCEPT ![p].pc = "wait1"]
  /\ UNCHANGED <<typed, gaveup>>

\* Mutant: one wait() for the two children.
PipeWaitOnce(p) ==
  /\ At(p, "wait1")
  /\ \E c \in Procs : Reap(p, c, [proc[p] EXCEPT !.pc = "exit"])
  /\ UNCHANGED <<typed, gaveup>>

\* The parent closes both ends, and waits twice.
PipeClose(p) ==
  /\ At(p, "close")
  /\ proc' = [proc EXCEPT ![p].pc = "wait1", ![p].fd = ClosePair(@, proc[p].p)]
  /\ UNCHANGED <<typed, gaveup>>

PipeWait(p) ==
  /\ (At(p, "wait1") \/ At(p, "wait2"))
  /\ \E c \in Procs :
       Reap(p, c, [proc[p] EXCEPT !.pc = IF @ = "wait1" THEN "wait2" ELSE "exit"])
  /\ UNCHANGED <<typed, gaveup>>

\* exit(0) at the end of runcmd().
RunExit(p) ==
  /\ At(p, "exit")
  /\ Exit(p)
  /\ UNCHANGED <<typed, gaveup>>

-----------------------------------------------------------------------------
(* The programs.                                                           *)

Program(p) ==
  /\ At(p, "program")
  /\ Exit(p)
  /\ UNCHANGED <<typed, gaveup>>

\* read() of a pipe sees the end of it once nobody has the writing end.
InputEnds(p) == \A i \in Pipes : proc[p].fd[0] = End("r", i) => ~Held("w", i)

\* write() to a pipe ends when a program reads the pipe, or nobody can.
OutputAccepted(p) ==
  \A i \in Pipes : proc[p].fd[1] = End("w", i) =>
     \/ ~Held("r", i)
     \/ \E q \in Procs : proc[q].pc = "program" /\ proc[q].fd[0] = End("r", i)

\* A program that reads all of its input and writes all of its output.
Finished(p) == InputEnds(p) /\ OutputAccepted(p) /\ Program(p)

-----------------------------------------------------------------------------
\* What a process does without waiting for someone to type.
Step(p) ==
  \/ InitFork(p) \/ InitExec(p) \/ InitWait(p) \/ ShFork(p) \/ ShWait(p)
  \/ Parse(p) \/ RunExec(p) \/ RunRedir(p) \/ RunList(p) \/ ListWait(p) \/ RunBack(p)
  \/ RunPipe(p) \/ ForkLeft(p) \/ ForkRight(p) \/ Plug(p) \/ PipeClose(p) \/ PipeWait(p)
  \/ RunExit(p)

Next == \E p \in Procs : Step(p) \/ Getcmd(p) \/ Program(p)

\* The scheduler runs every process that can run.  Nobody has to type, and a
\* program has to end only when its pipes let it.
Fairness == \A p \in Procs : WF_vars(Step(p)) /\ WF_vars(Finished(p))

Spec == Init /\ [][Next]_vars /\ Fairness

-----------------------------------------------------------------------------
(* The reference grammar: a line is cut at the operators outside           *)
(* parentheses, with no notion of a position to parse from.                *)

Bad == [type |-> "BAD"]

Count(s, t, n) == Cardinality({i \in 1 .. n : s[i] = t})
Depth(s, n) == Count(s, "(", n) - Count(s, ")", n)
Balanced(s) == Depth(s, Len(s)) = 0 /\ \A n \in 1 .. Len(s) : Depth(s, n) >= 0

\* The places of t outside parentheses.
Places(s, t) == {i \in 1 .. Len(s) : s[i] = t /\ Depth(s, i) = 0}

Before(s, i) == SubSeq(s, 1, i - 1)
After(s, i) == SubSeq(s, i + 1, Len(s))
Both(Node(_, _), l, r) == IF Bad \in {l, r} THEN Bad ELSE Node(l, r)
OneOf(Node(_), c) == IF c = Bad THEN Bad ELSE Node(c)

\* Redirections, an operator and a file each, and words.
RedirsAt(s) == {i \in 1 .. Len(s) : s[i] \in Redirs}
FilesNamed(s) == \A i \in RedirsAt(s) : i < Len(s) /\ s[i + 1] = Word
Operators(s) == SelectSeq(s, LAMBDA t : t \in Redirs)
Args(s) == Len(SelectSeq(s, LAMBDA t : t = Word)) - Cardinality(RedirsAt(s))

SimpleMeans(s) ==
  IF Range(s) \subseteq Redirs \cup {Word} /\ FilesNamed(s) /\ Args(s) < MAXARGS
    THEN Wrapped(Execcmd(Args(s)), Operators(s)) ELSE Bad

RECURSIVE LineMeans(_), JobMeans(_), PipeMeans(_), CommandMeans(_)
LineMeans(s) ==
  IF Places(s, ";") = {} THEN JobMeans(s)
  ELSE LET i == Min(Places(s, ";"))
       IN Both(Listcmd, JobMeans(Before(s, i)), LineMeans(After(s, i)))

JobMeans(s) ==
  IF s # <<>> /\ Last(s) = "&" THEN OneOf(Backcmd, JobMeans(Front(s))) ELSE PipeMeans(s)

PipeMeans(s) ==
  IF Places(s, "|") = {} THEN CommandMeans(s)
  ELSE LET i == Min(Places(s, "|"))
       IN Both(Pipecmd, CommandMeans(Before(s, i)), PipeMeans(After(s, i)))

CommandMeans(s) ==
  IF Peek(s, {"("})
    THEN LET i == Min(Places(s, ")"))
             rest == After(s, i)
         IN IF Range(rest) \subseteq Redirs \cup {Word} /\ FilesNamed(rest) /\ Args(rest) = 0
              THEN OneOf(LAMBDA c : Wrapped(c, Operators(rest)), LineMeans(SubSeq(s, 2, i - 1)))
              ELSE Bad
    ELSE SimpleMeans(s)

Means(s) == IF Balanced(s) THEN LineMeans(s) ELSE Bad

-----------------------------------------------------------------------------
(* Properties.                                                             *)

\* The recursive descent of parsecmd() builds, for the line a child is about to
\* run, the tree the reference grammar gives it, and panics on every other line.
ParsesGrammar ==
  \A p \in Procs : proc[p].pc = "parse" =>
    LET r == Parsecmd(proc[p].buf)
        m == Means(proc[p].buf)
    IN IF r.ok THEN r.cmd = m ELSE m = Bad

\* A program starts with descriptors 0, 1 and 2 and no other: its input never
\* the writing end of a pipe, its output never the reading end, its errors to
\* the console.  A stray end of a pipe would keep the pipe's reader from seeing
\* the end of its input (runcmd(), cases PIPE and REDIR).
ProgramDescriptors ==
  \A p \in Procs : proc[p].pc = "program" =>
    /\ {f \in FDs : proc[p].fd[f] # None} = 0 .. 2
    /\ proc[p].fd[0][1] # "w" /\ proc[p].fd[1][1] # "r" /\ proc[p].fd[2] = Console

\* When the shell prompts, the line before is done: every process besides init
\* and the shell was started in the background.  (A runcmd() that gave up for
\* want of a process or a pipe leaves behind what it had started.)
PromptMeansDone ==
  \A s \in Procs : proc[s].pc = "getcmd" /\ ~gaveup =>
    \A p \in Procs \ {init, s} : Live(p) => proc[p].bg

\* A shell that waits for its line gets its prompt back, or ends: no pipeline,
\* list or block waits for ever, even when forks and pipes fail in its middle.  (There
\* is one shell at a time.)
PromptReturns ==
  (\E s \in Procs : proc[s].pc = "wait") ~> ((\A s \in Procs : proc[s].pc # "wait") \/ Halted)

=============================================================================
