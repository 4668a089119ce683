--------------------------------- MODULE Vm ---------------------------------
(***************************************************************************)
(* Physical pages, page tables and user memory: kalloc.c, vm.c, exec.c, and *)
(* what proc.c, sysproc.c and sysfile.c do with them for fork, exec, sbrk   *)
(* and exit.                                                                *)
(*                                                                          *)
(* A function of the code that changes memory is an operator from a memory  *)
(* m to a memory.  m.left is how many more calls of kalloc() will find a    *)
(* page: other processors empty the free list at any moment, so an action   *)
(* chooses the number, and every call can be the first one that fails.      *)
(* m.got and m.ok are the last result of a call.                            *)
(***************************************************************************)
EXTENDS Integers, Sequences, FiniteSets

CONSTANTS Procs,     \* 1..NPROC
          Pages,     \* numbers of physical pages, 1..N
          FAN,       \* entries of a page table (512)
          PGSIZE,
          UINT,      \* 2^64
          Programs,  \* the segments of each executable file
          Sbrks,     \* the n of sbrk()
          MAXARG,    \* entries of argv in sys_exec()
          Argvs,     \* the argument vectors of exec(): the page of each string,
                     \* NoPointer where uargv[i] itself is not the user's
          MaxOps

MAXVA == FAN * FAN * FAN       \* in pages
TRAMPOLINE == MAXVA - 1
TRAPFRAME == TRAMPOLINE - 1
Trampoline == 0 - 1            \* the physical page of the code in trampoline.S

(* As in the code: physical memory is smaller than the user address space.  *)
ASSUME VmAssumption == FAN >= 2 /\ PGSIZE >= 1 /\ Cardinality(Pages) < TRAPFRAME /\ UINT > MAXVA * PGSIZE

VARIABLES
  mem,         \* free pages, page-table entries, contents of the other pages
  pagetable,   \* p->pagetable, 0 for an unused process
  trapframe,   \* p->trapframe
  sz,          \* p->sz
  image,       \* the pages that p should see from address 0 on
  ops

vars == <<mem, pagetable, trapframe, sz, image, ops>>

Least(S) == CHOOSE x \in S : \A y \in S : x <= y
Uint(x) == x % UINT
Up(s) == (s + PGSIZE - 1) \div PGSIZE     \* PGROUNDUP(s) / PGSIZE

None == [pa |-> 0, kind |-> "none"]       \* kinds of valid entries: table, user, guard, kernel
ZeroTable == [i \in 0 .. FAN - 1 |-> None]
Zero == 0
Text == 7                                 \* what a page of a program holds
Junk == 5
Stored(p) == 10 + p                       \* what a process stores
Stats == 9                                \* what get_cfs_stats() stores
NoPointer == 0 - 1

-----------------------------------------------------------------------------
(* F(x), with x evaluated once: the code after a call that returned x.      *)
With(x, F(_)) == CHOOSE r \in {F(y) : y \in {x}} : TRUE

(* kalloc.c.                                                                *)
Kalloc(m) ==
  IF m.left = 0 \/ m.free = {} THEN [m EXCEPT !.got = 0, !.ok = FALSE]
  ELSE LET a == Least(m.free)
       IN [m EXCEPT !.free = @ \ {a}, !.left = @ - 1, !.got = a, !.ok = TRUE, !.data[a] = Junk]
Kfree(m, a) ==
  IF a \notin Pages \/ a \in m.free THEN [m EXCEPT !.panic = TRUE]
  ELSE [m EXCEPT !.free = @ \cup {a}, !.data[a] = Junk, !.pte[a] = ZeroTable]

(* walk(): m.got is the page table of the last level, 0 if there is none.   *)
PX(level, v) == (v \div (IF level = 2 THEN FAN * FAN ELSE IF level = 1 THEN FAN ELSE 1)) % FAN
Down(m, t, i, alloc) ==
  IF m.pte[t][i] # None THEN [m EXCEPT !.got = m.pte[t][i].pa, !.ok = TRUE]
  ELSE IF ~alloc THEN [m EXCEPT !.got = 0, !.ok = FALSE]
  ELSE With(Kalloc(m), LAMBDA n :
         IF ~n.ok THEN n
         ELSE [n EXCEPT !.pte[n.got] = ZeroTable, !.pte[t][i] = [pa |-> n.got, kind |-> "table"]])
Walk(m, t, v, alloc) ==
  IF v >= MAXVA THEN [m EXCEPT !.panic = TRUE, !.got = 0, !.ok = FALSE]
  ELSE With(Down(m, t, PX(2, v), alloc), LAMBDA n : IF n.ok THEN Down(n, n.got, PX(1, v), alloc) ELSE n)
Pte(m, t, v) == With(Walk(m, t, v, FALSE), LAMBDA n : IF n.ok THEN n.pte[n.got][PX(0, v)] ELSE None)

(* walkaddr(): the page of a user address.                                  *)
Walkaddr(m, t, v) ==
  IF v >= MAXVA THEN 0 ELSE With(Pte(m, t, v), LAMBDA e : IF e.kind = "user" THEN e.pa ELSE 0)

(* mappages() for one page, uvmunmap() for npages.                          *)
Mappages(m, t, v, pa, kind) ==
  With(Walk(m, t, v, TRUE), LAMBDA n :
    IF ~n.ok THEN n
    ELSE IF n.pte[n.got][PX(0, v)] # None THEN [n EXCEPT !.panic = TRUE]
    ELSE [n EXCEPT !.pte[n.got][PX(0, v)] = [pa |-> pa, kind |-> kind]])

Unmap(m, t, v, dofree) ==
  With(Walk(m, t, v, FALSE), LAMBDA n :
    IF ~n.ok \/ n.pte[n.got][PX(0, v)] = None THEN [m EXCEPT !.panic = TRUE]
    ELSE LET e == n.pte[n.got][PX(0, v)]
             c == [n EXCEPT !.pte[n.got][PX(0, v)] = None]
         IN IF dofree THEN Kfree(c, e.pa) ELSE c)
RECURSIVE Uvmunmap(_, _, _, _, _)
Uvmunmap(m, t, v, npages, dofree) ==
  IF npages <= 0 THEN m
  ELSE With(Unmap(m, t, v, dofree), LAMBDA n : Uvmunmap(n, t, v + 1, npages - 1, dofree))

(* uvmdealloc() and uvmalloc(); the result is m.got, a size, 0 on failure.  *)
(* Mutant: the new size is rounded down.                                    *)
UvmdeallocDown(m, t, oldsz, newsz) ==
  IF newsz >= oldsz THEN [m EXCEPT !.got = oldsz]
  ELSE [Uvmunmap(m, t, newsz \div PGSIZE, Up(oldsz) - newsz \div PGSIZE, TRUE) EXCEPT !.got = newsz]
Uvmdealloc(m, t, oldsz, newsz) ==
  IF newsz >= oldsz THEN [m EXCEPT !.got = oldsz]
  ELSE [Uvmunmap(m, t, Up(newsz), Up(oldsz) - Up(newsz), TRUE) EXCEPT !.got = newsz]

RECURSIVE AllocLoop(_, _, _, _, _)
AllocLoop(m, t, a, old, new) ==
  IF a * PGSIZE >= new THEN [m EXCEPT !.got = new]
  ELSE With(Kalloc(m), LAMBDA n :
         IF ~n.ok THEN [Uvmdealloc(n, t, a * PGSIZE, old * PGSIZE) EXCEPT !.got = 0]
         ELSE With(Mappages([n EXCEPT !.data[n.got] = Zero], t, a, n.got, "user"), LAMBDA q :
                IF q.ok THEN AllocLoop(q, t, a + 1, old, new)
                ELSE [Uvmdealloc(Kfree(q, n.got), t, a * PGSIZE, old * PGSIZE) EXCEPT !.got = 0]))
Uvmalloc(m, t, oldsz, newsz) ==
  IF newsz < oldsz THEN [m EXCEPT !.got = oldsz] ELSE AllocLoop(m, t, Up(oldsz), Up(oldsz), newsz)

(* freewalk(), uvmfree(), proc_freepagetable(), proc_pagetable().           *)
RECURSIVE Freewalk(_, _), FreeEntries(_, _, _)
FreeEntries(m, t, i) ==
  IF i = FAN THEN m
  ELSE IF m.pte[t][i].kind = "table"
    THEN With(Freewalk(m, m.pte[t][i].pa), LAMBDA n : FreeEntries([n EXCEPT !.pte[t][i] = None], t, i + 1))
    ELSE With([m EXCEPT !.panic = @ \/ m.pte[t][i] # None], LAMBDA n : FreeEntries(n, t, i + 1))
Freewalk(m, t) == With(FreeEntries(m, t, 0), LAMBDA n : Kfree(n, t))
Uvmfree(m, t, s) == With(Uvmunmap(m, t, 0, Up(s), TRUE), LAMBDA n : Freewalk(n, t))
ProcFreepagetable(m, t, s) ==
  With(Unmap(m, t, TRAMPOLINE, FALSE), LAMBDA n :
    With(Unmap(n, t, TRAPFRAME, FALSE), LAMBDA q : Uvmfree(q, t, s)))

ProcPagetable(m, tf) ==
  With(Kalloc(m), LAMBDA c :                                          \* uvmcreate()
    IF ~c.ok THEN c
    ELSE With(Mappages([c EXCEPT !.pte[c.got] = ZeroTable], c.got, TRAMPOLINE, Trampoline, "kernel"), LAMBDA a :
      IF ~a.ok THEN [Uvmfree(a, c.got, 0) EXCEPT !.got = 0]
      ELSE With(Mappages(a, c.got, TRAPFRAME, tf, "kernel"), LAMBDA b :
        IF b.ok THEN [b EXCEPT !.got = c.got]
        ELSE [Uvmfree(Unmap(b, c.got, TRAMPOLINE, FALSE), c.got, 0) EXCEPT !.got = 0])))

(* uvmcopy(); err removes the i pages that were mapped.                     *)
(* Mutant: the pages copied so far are kept.                                *)
UndoNone(m, new, i) == [m EXCEPT !.ok = FALSE]
Undo(m, new, i) == [Uvmunmap(m, new, 0, i, TRUE) EXCEPT !.ok = FALSE]
RECURSIVE CopyLoop(_, _, _, _, _)
CopyLoop(m, old, new, i, s) ==
  IF i * PGSIZE >= s THEN [m EXCEPT !.ok = TRUE]
  ELSE With(Pte(m, old, i), LAMBDA e :
    IF e = None THEN [m EXCEPT !.panic = TRUE]
    ELSE With(Kalloc(m), LAMBDA n :
      IF ~n.ok THEN Undo(n, new, i)
      ELSE With(Mappages([n EXCEPT !.data[n.got] = n.data[e.pa]], new, i, n.got, e.kind), LAMBDA q :
        IF q.ok THEN CopyLoop(q, old, new, i + 1, s) ELSE Undo(Kfree(q, n.got), new, i))))
Uvmcopy(m, old, new, s) == CopyLoop(m, old, new, 0, s)

(* copyout() of a value to the n pages from v on: stops where a page is not *)
(* the user's.                                                              *)
RECURSIVE Copyout(_, _, _, _, _)
Copyout(m, t, v, n, x) ==
  IF n = 0 THEN [m EXCEPT !.ok = TRUE]
  ELSE With(Walkaddr(m, t, v), LAMBDA pa :
    IF pa = 0 THEN [m EXCEPT !.ok = FALSE]
    ELSE With([m EXCEPT !.data[pa] = x], LAMBDA q : Copyout(q, t, v + 1, n - 1, x)))

(* copyinstr() of a string on page v.                                       *)
Fetchstr(m, t, v) == Walkaddr(m, t, v) # 0

-----------------------------------------------------------------------------
(* exec().  m.reads is how many calls of readi() will return what was asked *)
(* for.  A segment has its addresses in bytes.                              *)
RECURSIVE Loadseg(_, _, _, _, _), LoadAll(_, _, _, _)
Loadseg(m, t, v, i, filesz) ==
  IF i * PGSIZE >= filesz THEN [m EXCEPT !.ok = TRUE]
  ELSE With(Walkaddr(m, t, v + i), LAMBDA pa :
    IF pa = 0 THEN [m EXCEPT !.panic = TRUE, !.ok = FALSE]
    ELSE IF m.reads = 0 THEN [m EXCEPT !.ok = FALSE]
    ELSE With([m EXCEPT !.data[pa] = Text, !.reads = @ - 1], LAMBDA n : Loadseg(n, t, v, i + 1, filesz)))

(* The loop over the program headers; m.got is sz, good or bad.             *)
Malformed(g) == g.memsz < g.filesz \/ Uint(g.vaddr + g.memsz) < g.vaddr \/ g.vaddr % PGSIZE # 0
LoadAll(m, t, s, segs) ==
  IF segs = <<>> THEN [m EXCEPT !.got = s, !.ok = TRUE]
  ELSE IF m.reads = 0 THEN [m EXCEPT !.got = s, !.ok = FALSE]
  ELSE With([m EXCEPT !.reads = @ - 1], LAMBDA r :
    IF ~Head(segs).load THEN LoadAll(r, t, s, Tail(segs))
    ELSE IF Malformed(Head(segs)) THEN [r EXCEPT !.got = s, !.ok = FALSE]
    ELSE With(Uvmalloc(r, t, s, Head(segs).vaddr + Head(segs).memsz), LAMBDA n :
      IF n.got = 0 THEN [n EXCEPT !.got = s, !.ok = FALSE]
      ELSE With(Loadseg(n, t, Head(segs).vaddr \div PGSIZE, 0, Head(segs).filesz), LAMBDA l :
        IF l.ok THEN LoadAll(l, t, n.got, Tail(segs)) ELSE [l EXCEPT !.got = n.got])))

(* uvmclear() of page v.                                                    *)
Uvmclear(m, t, v) == With(Walk(m, t, v, FALSE), LAMBDA n : [n EXCEPT !.pte[n.got][PX(0, v)].kind = "guard"])

(* The new page table in m.got, 0 on failure, and its size in m.sz.  The    *)
(* arguments fit on the stack or do not.                                    *)
Bad(m, t, s) == [ProcFreepagetable(m, t, s) EXCEPT !.got = 0]
Exec(m, tf, segs, fit) ==
  IF m.reads = 0 THEN [m EXCEPT !.got = 0]
  ELSE With(ProcPagetable([m EXCEPT !.reads = @ - 1], tf), LAMBDA c :
    IF c.got = 0 THEN c
    ELSE With(LoadAll(c, c.got, 0, segs), LAMBDA l :
      IF ~l.ok THEN Bad(l, c.got, l.got)
      ELSE LET base == Up(l.got)
           IN With(Uvmalloc(l, c.got, base * PGSIZE, (base + 2) * PGSIZE), LAMBDA u :
                IF u.got = 0 THEN Bad(u, c.got, base * PGSIZE)
                ELSE With(Uvmclear(u, c.got, base), LAMBDA g :
                  IF ~fit THEN Bad(g, c.got, u.got)
                  ELSE [Copyout(g, c.got, base + 1, 1, Text) EXCEPT !.got = c.got, !.sz = u.got]))))

-----------------------------------------------------------------------------
(* allocproc() without its search: a trapframe and a page table in m.got;   *)
(* on failure freeproc() undoes what was done, and m.got is 0.              *)
Allocproc(m) ==
  With(Kalloc(m), LAMBDA a :
    IF ~a.ok THEN [a EXCEPT !.tf = 0]
    ELSE With(ProcPagetable(a, a.got), LAMBDA b :
      IF b.got # 0 THEN [b EXCEPT !.tf = a.got] ELSE [Kfree(b, a.got) EXCEPT !.got = 0, !.tf = 0]))
Freeproc(m, tf, t, s) == With(Kfree(m, tf), LAMBDA n : ProcFreepagetable(n, t, s))

(* kinit() and userinit(), with uvmfirst().                                 *)
Booted ==
  With([free |-> Pages, pte |-> [x \in Pages |-> ZeroTable], data |-> [x \in Pages |-> Junk],
        left |-> Cardinality(Pages), reads |-> 0, got |-> 0, ok |-> TRUE, sz |-> 0, tf |-> 0, args |-> <<>>,
        panic |-> FALSE],
       LAMBDA m : With(Allocproc(m), LAMBDA a : With(Kalloc(a), LAMBDA b :
         [Mappages([b EXCEPT !.data[b.got] = Text], a.got, 0, b.got, "user") EXCEPT !.got = a.got])))

Start(k, r) == [mem EXCEPT !.left = k, !.reads = r]
Done(m) == [m EXCEPT !.left = 0, !.reads = 0, !.got = 0, !.ok = TRUE, !.sz = 0, !.tf = 0, !.args = <<>>]

(* What goes wrong in a call, at most one thing: kalloc() fails after k     *)
(* pages, readi() after r calls, or the arguments do not fit.               *)
KMax == Cardinality(Pages)
RMax == 9
Faults == ((0 .. KMax) \X {RMax} \X {TRUE}) \cup ({KMax} \X (0 .. RMax) \X {TRUE}) \cup {<<KMax, RMax, FALSE>>}

first == Least(Procs)
Init ==
  /\ mem = Done(Booted)
  /\ pagetable = [p \in Procs |-> IF p = first THEN Booted.got ELSE 0]
  /\ trapframe = [p \in Procs |-> IF p = first THEN Booted.tf ELSE 0]
  /\ sz = [p \in Procs |-> IF p = first THEN PGSIZE ELSE 0]
  /\ image = [p \in Procs |-> IF p = first THEN <<Text>> ELSE <<>>]
  /\ ops = MaxOps

Calls(p) == pagetable[p] # 0 /\ ops > 0 /\ ops' = ops - 1

(* fork(): what it does to memory.                                          *)
Fork(p, c, k) ==
  /\ Calls(p)
  /\ pagetable[c] = 0
  /\ \E a \in {Allocproc(Start(k, 0))} :
       IF a.got = 0 THEN mem' = Done(a) /\ UNCHANGED <<pagetable, trapframe, sz, image>>
       ELSE \E u \in {Uvmcopy(a, pagetable[p], a.got, sz[p])} :
         IF ~u.ok
           THEN mem' = Done(Freeproc(u, a.tf, a.got, 0)) /\ UNCHANGED <<pagetable, trapframe, sz, image>>
           ELSE /\ mem' = Done(u)
                /\ pagetable' = [pagetable EXCEPT ![c] = a.got]
                /\ trapframe' = [trapframe EXCEPT ![c] = a.tf]
                /\ sz' = [sz EXCEPT ![c] = sz[p]]
                /\ image' = [image EXCEPT ![c] = image[p]]

(* The image a program asks for: its pages, a guard page and the stack.     *)
Guard == 0 - 1
ProgramPages(segs) ==
  LET ends == {Up(segs[i].vaddr + segs[i].memsz) : i \in {j \in DOMAIN segs : segs[j].load}}
  IN IF ends = {} THEN 0 ELSE CHOOSE x \in ends : \A y \in ends : y <= x
ProgramImage(segs) ==
  [v \in 1 .. ProgramPages(segs) |->
     IF \E i \in DOMAIN segs :
          segs[i].load /\ segs[i].vaddr \div PGSIZE < v /\ v <= Up(segs[i].vaddr + segs[i].filesz)
       THEN Text ELSE Zero]
  \o <<Guard, Text>>

(* The loop of sys_exec() that copies the strings of argv to pages of the   *)
(* kernel, m.args.  When it fails, all pages it has allocated are freed.    *)
RECURSIVE KfreeAll(_, _), FetchArgs(_, _, _, _)
KfreeAll(m, as) == IF as = <<>> THEN m ELSE With(Kfree(m, Head(as)), LAMBDA n : KfreeAll(n, Tail(as)))
ArgsBad(m, as) == [KfreeAll(m, as) EXCEPT !.ok = FALSE]
FetchArgs(m, t, argv, as) ==
  IF Len(as) >= MAXARG THEN ArgsBad(m, as)
  ELSE IF argv = <<>> THEN [m EXCEPT !.ok = TRUE, !.args = as]
  ELSE IF Head(argv) = NoPointer THEN ArgsBad(m, as)
  ELSE With(Kalloc(m), LAMBDA n :
         IF ~n.ok THEN ArgsBad(n, as)
         ELSE IF ~Fetchstr(n, t, Head(argv)) THEN ArgsBad(n, Append(as, n.got))
         ELSE FetchArgs(n, t, Tail(argv), Append(as, n.got)))

SysExec(p, segs, k, r, fit, argv) ==
  /\ Calls(p)
  /\ \E a \in {FetchArgs(Start(k, r), pagetable[p], argv, <<>>)} :
       IF ~a.ok THEN mem' = Done(a) /\ UNCHANGED <<pagetable, sz, image>>
       ELSE \E e \in {Exec(a, trapframe[p], segs, fit)} :
         IF e.got = 0 THEN mem' = Done(KfreeAll(e, a.args)) /\ UNCHANGED <<pagetable, sz, image>>
         ELSE /\ mem' = Done(KfreeAll(ProcFreepagetable(e, pagetable[p], sz[p]), a.args))
              /\ pagetable' = [pagetable EXCEPT ![p] = e.got]
              /\ sz' = [sz EXCEPT ![p] = e.sz]
              /\ image' = [image EXCEPT ![p] = ProgramImage(segs)]
  /\ UNCHANGED trapframe

(* sys_sbrk() and growproc(): n is an int, the size a uint64.               *)
Sbrk(p, n, k) ==
  LET new == Uint(sz[p] + n)
      a == Uvmalloc(Start(k, 0), pagetable[p], sz[p], new)
      d == Uvmdealloc(Start(k, 0), pagetable[p], sz[p], new)
  IN /\ Calls(p)
     /\ IF n > 0
          THEN IF a.got = 0 THEN UNCHANGED <<sz, image>>
               ELSE /\ sz' = [sz EXCEPT ![p] = a.got]
                    /\ image' = [image EXCEPT ![p] = [v \in 1 .. Up(new) |->
                                                        IF v <= Len(image[p]) THEN image[p][v] ELSE Zero]]
          ELSE /\ sz' = [sz EXCEPT ![p] = d.got]
               /\ image' = IF sz[p] + n < 0 THEN image
                           ELSE [image EXCEPT ![p] = SubSeq(@, 1, Up(sz[p] + n))]
     /\ mem' = Done(IF n > 0 THEN a ELSE d)
     /\ UNCHANGED <<pagetable, trapframe>>

(* The image of q after copyout() of x to its n pages from v on: the pages  *)
(* before the first one that is not the user's are written.                 *)
Written(q, v, n, x) ==
  LET bad == {y \in v .. v + n - 1 : y >= Len(image[q]) \/ (y < Len(image[q]) /\ image[q][y + 1] = Guard)}
      end == IF bad = {} THEN v + n ELSE Least(bad)
  IN [image EXCEPT ![q] = [y \in DOMAIN @ |-> IF y > v /\ y <= end THEN x ELSE @[y]]]

(* A system call of p that stores n pages of results at page v of p itself, *)
(* as either_copyout() does for read().                                     *)
Store(p, v, n) ==
  /\ Calls(p)
  /\ mem' = Done(Copyout(Start(0, 0), pagetable[p], v, n, Stored(p)))
  /\ image' = Written(p, v, n, Stored(p))
  /\ UNCHANGED <<pagetable, trapframe, sz>>

(* sys_get_cfs_stats() of p for process q: copyout() to the page table of q. *)
GetCfsStats(p, q, v, n) ==
  /\ Calls(p)
  /\ pagetable[q] # 0
  /\ mem' = Done(Copyout(Start(0, 0), pagetable[q], v, n, Stats))
  /\ image' = Written(q, v, n, Stats)
  /\ UNCHANGED <<pagetable, trapframe, sz>>

(* exit() and wait(): freeproc().                                           *)
Exit(p) ==
  /\ Calls(p) /\ p # first
  /\ mem' = Done(Freeproc(mem, trapframe[p], pagetable[p], sz[p]))
  /\ pagetable' = [pagetable EXCEPT ![p] = 0]
  /\ trapframe' = [trapframe EXCEPT ![p] = 0]
  /\ sz' = [sz EXCEPT ![p] = 0]
  /\ image' = [image EXCEPT ![p] = <<>>]

Finished == ops = 0 /\ UNCHANGED vars

Next ==
  \/ \E p \in Procs, k \in 0 .. KMax :
       \/ \E c \in Procs : Fork(p, c, k)
       \/ \E n \in Sbrks : Sbrk(p, n, k)
  \/ \E p \in Procs, segs \in Programs, x \in Faults, argv \in Argvs :
       SysExec(p, segs, x[1], x[2], x[3], argv)
  \/ \E p \in Procs, v \in 0 .. 2, n \in 1 .. 2 :
       \/ Store(p, v, n)
       \/ \E q \in Procs : GetCfsStats(p, q, v, n)
  \/ \E p \in Procs : Exit(p)
  \/ Finished

Spec == Init /\ [][Next]_vars

-----------------------------------------------------------------------------
(* The entries of the page tables of p, and the pages it has.               *)
Live == {p \in Procs : pagetable[p] # 0}
Below(T) == {mem.pte[t][i].pa : t \in T, i \in 0 .. FAN - 1} \ {0, Trampoline}
Entries(p) ==
  LET l1 == Below({pagetable[p]})
      l0 == Below(l1)
  IN ({pagetable[p]} \cup l1 \cup l0) \X (0 .. FAN - 1)
Mapped(p) == {e \in Entries(p) : mem.pte[e[1]][e[2]].pa > 0}
PagesOf(p) == {pagetable[p]} \cup {mem.pte[e[1]][e[2]].pa : e \in Mapped(p)}

(* No call, failed or not, leaks a page, frees one twice, gives one to two  *)
(* owners or panics: every page is free or is mapped once in one process.   *)
PagesPartitioned ==
  /\ ~mem.panic
  /\ mem.free \cup UNION {PagesOf(p) : p \in Live} = Pages
  /\ \A p \in Live :
       /\ mem.free \cap PagesOf(p) = {}
       /\ trapframe[p] \in PagesOf(p)
       /\ Cardinality(PagesOf(p)) = Cardinality(Mapped(p)) + 1
       /\ \A q \in Live \ {p} : PagesOf(p) \cap PagesOf(q) = {}

(* A process finds in its memory what fork, exec, sbrk and the calls that    *)
(* store results there have put there, on the pages they were asked to, and *)
(* nothing beyond its size; a call that fails leaves the old image.         *)
Unmapped == 0 - 2
See(p, v) ==
  LET e == Pte(mem, pagetable[p], v)
  IN CASE e = None -> Unmapped
       [] e.kind = "guard" -> Guard
       [] e.kind = "user" -> mem.data[e.pa]
ImageKept ==
  \A p \in Live :
    /\ Len(image[p]) = Up(sz[p])
    /\ \A v \in 0 .. TRAPFRAME - 1 :
         See(p, v) = IF v < Len(image[p]) THEN image[p][v + 1] ELSE Unmapped

(* get_cfs_stats() "gets the values" for its caller: it leaves the memory of *)
(* the process it asks about alone.  False: sys_get_cfs_stats() copies to   *)
(* p->pagetable, where p is that process, and not to myproc()'s.            *)
StatsForCaller ==
  [][\A p, q \in Procs, v \in 0 .. 2, n \in 1 .. 2 :
       p # q /\ GetCfsStats(p, q, v, n) => image'[q] = image[q]]_vars
=============================================================================
