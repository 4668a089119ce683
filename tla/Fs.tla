--------------------------------- MODULE Fs ---------------------------------
(***************************************************************************)
(* Inodes, directories, paths and open files: the inode table and the       *)
(* directory and path layers of fs.c, the file table of file.c and the      *)
(* calls of sysfile.c that work on names.                                   *)
(*                                                                          *)
(* A process carries the calls it has still to make in todo[p]; the step    *)
(* that is made is the first.  <<"ilock", i>> waits for the sleep lock of   *)
(* inode i, <<"iput", i>> drops a reference, any other entry is a section   *)
(* of a system call that runs between two such calls.  Nothing else blocks, *)
(* so sections are atomic.  The contents of files are left to module Inode, *)
(* transactions to module Log.                                              *)
(***************************************************************************)
EXTENDS Integers, Sequences, FiniteSets, TLC

CONSTANTS Procs,
          Inums,     \* inode numbers, 1..NI; 1 is the root
          Names,     \* names of directory entries, "." and ".." not among them
          NINODE,    \* entries of the inode table
          NFILE,     \* entries of the file table
          NOFILE,    \* descriptors of a process
          Calls,     \* the system calls the processes make
          MaxCalls,  \* how many of them
          Starts,    \* the file systems and open files to start from
          Nil

ROOTINO == 1

VARIABLES
  dinode,   \* inodes on the disk: type (free, dir, file, dev, or baddev, a major
            \* outside 0..NDEV-1), nlink and, for a directory, its entries
  inode,    \* itable by inode number: ref, valid and the copies of type and nlink
  lock,     \* who holds ip->lock
  ftable,   \* the file table: ref and ip
  ofile,    \* p->ofile
  cwd,      \* p->cwd
  todo,     \* what each process has still to do
  arg,      \* the variables of its system call
  calls,    \* calls still to be made
  panicked

vars == <<dinode, inode, lock, ftable, ofile, cwd, todo, arg, calls, panicked>>

Files == 1 .. NFILE
Fds == 0 .. NOFILE - 1
AllNames == Names \cup {".", ".."}

NoEnts == [n \in AllNames |-> 0]
Unused == [ref |-> 0, valid |-> FALSE, type |-> "free", nlink |-> 0]
NoArg == [call |-> "none", path |-> <<>>, par |-> FALSE, ip |-> 0, dp |-> 0, name |-> ".",
          new |-> Nil, type |-> "file", write |-> FALSE, fail |-> <<>>]

Init ==
  \E s \in Starts :
    /\ dinode = s.dinode
    /\ ftable = s.ftable
    /\ ofile = s.ofile
    /\ cwd = s.cwd
    /\ inode = [i \in Inums |->
                  LET n == Cardinality({p \in Procs : s.cwd[p] = i})
                           + Cardinality({f \in Files : s.ftable[f].ref > 0 /\ s.ftable[f].ip = i})
                  IN IF n = 0 THEN Unused
                     ELSE [ref |-> n, valid |-> TRUE,
                           type |-> s.dinode[i].type, nlink |-> s.dinode[i].nlink]]
    /\ lock = [i \in Inums |-> Nil]
    /\ todo = [p \in Procs |-> <<>>]
    /\ arg = [p \in Procs |-> NoArg]
    /\ calls = MaxCalls
    /\ panicked = "none"

-----------------------------------------------------------------------------
(* Steps.                                                                   *)

(* The inode of the first entry; 0 stands for what namex() has found.       *)
Ip(p) == IF Head(todo[p])[2] = 0 THEN arg[p].ip ELSE Head(todo[p])[2]
At(p, op) == todo[p] # <<>> /\ Head(todo[p])[1] = op
Rest(p) == Tail(todo[p])
Do(p, s) == todo' = [todo EXCEPT ![p] = s]
Panic(who) == panicked' = who /\ UNCHANGED <<dinode, inode, lock, ftable, ofile, cwd, todo, arg, calls>>
TableFits == \* iget() has found an entry for every inode in use
  panicked' = IF Cardinality({j \in Inums : inode'[j].ref > 0}) > NINODE THEN "iget: no inodes" ELSE "none"
Fixed == UNCHANGED <<ftable, ofile, cwd, calls>> /\ TableFits

(* iget(): one more reference; a new entry is not valid yet.                *)
Iget(i) ==
  [inode EXCEPT ![i] = IF @.ref > 0 THEN [@ EXCEPT !.ref = @ + 1] ELSE [Unused EXCEPT !.ref = 1]]

(* ilock(): wait for the lock; read the inode if that was not done.         *)
Ilock(p) ==
  LET i == Ip(p)
      d == dinode[i]
  IN /\ At(p, "ilock")
     /\ lock[i] = Nil
     /\ IF inode[i].ref < 1 THEN Panic("ilock")
        ELSE IF ~inode[i].valid /\ d.type = "free" THEN Panic("ilock: no type")
        ELSE /\ lock' = [lock EXCEPT ![i] = p]
             /\ inode' = IF inode[i].valid THEN inode
                         ELSE [inode EXCEPT ![i].valid = TRUE, ![i].type = d.type, ![i].nlink = d.nlink]
             /\ Do(p, Rest(p))
             /\ UNCHANGED <<dinode, arg>>
             /\ Fixed

Iunlock(p) ==
  /\ At(p, "iunlock")
  /\ IF lock[Ip(p)] # p THEN Panic("iunlock")
     ELSE /\ lock' = [lock EXCEPT ![Ip(p)] = Nil]
          /\ Do(p, Rest(p))
          /\ UNCHANGED <<dinode, inode, arg>>
          /\ Fixed

(* iput(): the last reference to an inode without links frees it, under its *)
(* lock but without itable.lock; "iput 2" is the end of the function.       *)
Last(i) == inode[i].ref = 1 /\ inode[i].valid /\ inode[i].nlink = 0
Deref(i) == [inode EXCEPT ![i] = IF @.ref = 1 THEN Unused ELSE [@ EXCEPT !.ref = @ - 1]]
(* Mutant: the reference count is not looked at.                            *)
IputUnlocked(p) ==
  LET i == Ip(p)
  IN /\ At(p, "iput")
     /\ IF inode[i].valid /\ inode[i].nlink = 0
          THEN Do(p, <<<<"free", i>>, <<"iput 2", i>>>> \o Rest(p)) /\ lock' = [lock EXCEPT ![i] = p] /\ UNCHANGED inode
          ELSE Do(p, Rest(p)) /\ inode' = Deref(i) /\ UNCHANGED lock
     /\ UNCHANGED <<dinode, arg>>
     /\ Fixed
Iput(p) ==
  LET i == Ip(p)
  IN /\ At(p, "iput")
     /\ IF Last(i)
          THEN IF lock[i] # Nil THEN Panic("iput blocks")
               ELSE /\ lock' = [lock EXCEPT ![i] = p]
                    /\ Do(p, <<<<"free", i>>, <<"iput 2", i>>>> \o Rest(p))
                    /\ UNCHANGED <<dinode, inode, arg>>
                    /\ Fixed
          ELSE /\ inode' = Deref(i)
               /\ Do(p, Rest(p))
               /\ UNCHANGED <<dinode, lock, arg>>
               /\ Fixed

(* itrunc(), type = 0, iupdate(), valid = 0, releasesleep().                *)
IputFree(p) ==
  LET i == Ip(p)
  IN /\ At(p, "free")
     /\ dinode' = [dinode EXCEPT ![i] = [type |-> "free", nlink |-> 0, ents |-> NoEnts]]
     /\ inode' = [inode EXCEPT ![i].valid = FALSE, ![i].type = "free"]
     /\ lock' = [lock EXCEPT ![i] = Nil]
     /\ Do(p, Rest(p))
     /\ UNCHANGED arg
     /\ Fixed

IputEnd(p) ==
  /\ At(p, "iput 2")
  /\ inode' = Deref(Ip(p))
  /\ Do(p, Rest(p))
  /\ UNCHANGED <<dinode, lock, arg>>
  /\ Fixed

(* Mutant: the reference is kept.                                           *)
IunlockKeep(i) == <<<<"iunlock", i>>>>
IunlockPut(i) == <<<<"iunlock", i>>, <<"iput", i>>>>

(* namex(): one round of its loop, with the directory locked.  The result   *)
(* is left in arg[p].ip, and the element skipelem() took in arg[p].name.    *)
Walk(p) ==
  LET a == arg[p]
      next == dinode[a.ip].ents[Head(a.path)]
  IN /\ At(p, "walk")
     /\ \/ /\ inode[a.ip].type # "dir"
           /\ Do(p, IunlockPut(a.ip) \o a.fail)
           /\ UNCHANGED <<inode, arg>>
        \/ /\ inode[a.ip].type = "dir" /\ a.par /\ Len(a.path) = 1
           /\ arg' = [arg EXCEPT ![p].name = Head(a.path)]
           /\ Do(p, <<<<"iunlock", a.ip>>>> \o Rest(p))
           /\ UNCHANGED inode
        \/ /\ inode[a.ip].type = "dir" /\ ~(a.par /\ Len(a.path) = 1) /\ next = 0
           /\ Do(p, IunlockPut(a.ip) \o a.fail)
           /\ UNCHANGED <<inode, arg>>
        \/ /\ inode[a.ip].type = "dir" /\ ~(a.par /\ Len(a.path) = 1) /\ next # 0
           /\ inode' = Iget(next)
           /\ arg' = [arg EXCEPT ![p].ip = next, ![p].path = Tail(a.path), ![p].name = Head(a.path)]
           /\ Do(p, IunlockPut(a.ip)
                    \o (IF Len(a.path) = 1 THEN <<>> ELSE <<<<"ilock", next>>, <<"walk", 0>>>>)
                    \o Rest(p))
     /\ UNCHANGED <<dinode, lock>>
     /\ Fixed

(* namex() for a path: references its first directory; what is to be done   *)
(* up to the continuation k, or instead of it when the parent of a path     *)
(* without elements is asked for.                                           *)
First(p, path) == IF path.abs THEN ROOTINO ELSE cwd[p]
Namex(i, path, par, fail, k) ==
  IF path.elems # <<>> THEN <<<<"ilock", i>>, <<"walk", 0>>>> \o k
  ELSE IF par THEN <<<<"iput", i>>>> \o fail ELSE k

Sys(p, c, par, k) ==
  LET i == First(p, c.path)
  IN /\ inode' = Iget(i)
     /\ arg' = [arg EXCEPT ![p] = [NoArg EXCEPT !.call = c.call, !.path = c.path.elems, !.par = par,
                                    !.ip = i, !.new = c.new, !.type = c.type, !.write = c.write]]
     /\ Do(p, Namex(i, c.path, par, <<>>, k))
     /\ calls' = calls - 1
     /\ UNCHANGED <<dinode, lock, ftable, ofile, cwd>>
     /\ TableFits

(* The entry of a system call on names, up to the first lock.               *)
Enter(p, c) ==
  /\ todo[p] = <<>> /\ calls > 0
  /\ \/ c.call = "open" /\ Sys(p, c, FALSE, <<<<"ilock", 0>>, <<"open", 0>>>>)
     \/ c.call \in {"create", "mkdir", "mknod"} /\ Sys(p, c, TRUE, <<<<"ilock", 0>>, <<"create", 0>>>>)
     \/ c.call = "link" /\ Sys(p, c, FALSE, <<<<"ilock", 0>>, <<"link", 0>>>>)
     \/ c.call = "unlink" /\ Sys(p, c, TRUE, <<<<"ilock", 0>>, <<"unlink", 0>>>>)
     \/ c.call = "chdir" /\ Sys(p, c, FALSE, <<<<"ilock", 0>>, <<"chdir", 0>>>>)

(* Copy of a changed link count to the disk (iupdate()).                    *)
SetNlink(i, n) ==
  /\ inode' = [inode EXCEPT ![i].nlink = n]
  /\ dinode' = [dinode EXCEPT ![i].nlink = n]

(* create() with the parent locked.  "ialloc" takes the first free inode.   *)
FreeInums == {i \in Inums : dinode[i].type = "free"}
Create(p) ==
  LET dp == arg[p].ip
      ip == dinode[dp].ents[arg[p].name]
      new == CHOOSE i \in FreeInums : \A j \in FreeInums : i <= j
  IN /\ At(p, "create")
     /\ \/ /\ ip # 0
           /\ inode' = Iget(ip)
           /\ arg' = [arg EXCEPT ![p].ip = ip]
           /\ Do(p, IunlockPut(dp) \o <<<<"ilock", ip>>, <<"create 2", 0>>>>)
           /\ UNCHANGED dinode
        \/ /\ ip = 0 /\ FreeInums = {}
           /\ Do(p, IunlockPut(dp))
           /\ UNCHANGED <<inode, arg, dinode>>
        \/ /\ ip = 0 /\ FreeInums # {}
           /\ dinode' = [dinode EXCEPT ![new].type = arg[p].type]
           /\ inode' = Iget(new)
           /\ arg' = [arg EXCEPT ![p].ip = new, ![p].dp = dp]
           /\ Do(p, <<<<"ilock", new>>, <<"create 3", 0>>>>)
     /\ UNCHANGED lock
     /\ Fixed

(* The name exists: good for open(O_CREATE) of something that is no         *)
(* directory.                                                               *)
CreateFound(p) ==
  LET ip == arg[p].ip
  IN /\ At(p, "create 2")
     /\ Do(p, IF arg[p].call = "create" /\ inode[ip].type # "dir" THEN <<<<"open", 0>>>> ELSE IunlockPut(ip))
     /\ UNCHANGED <<dinode, inode, lock, arg>>
     /\ Fixed

(* The new inode is locked too: its entries, the entry in the parent, the   *)
(* link count of the parent for "..".  A dirlink() that finds the disk full *)
(* undoes the allocation.                                                   *)
CreateNew(p) ==
  LET ip == arg[p].ip
      dp == arg[p].dp
      dir == arg[p].type = "dir"
      ents == IF dir THEN [NoEnts EXCEPT !["."] = ip, ![".."] = dp] ELSE NoEnts
      up == IF dir THEN 1 ELSE 0
  IN /\ At(p, "create 3")
     /\ inode' = [inode EXCEPT ![ip].nlink = 1, ![dp].nlink = @ + up]
     /\ dinode' = [dinode EXCEPT ![ip].nlink = 1, ![ip].ents = ents, ![dp].nlink = inode[dp].nlink + up,
                                 ![dp].ents[arg[p].name] = ip]
     /\ Do(p, IunlockPut(dp) \o (IF arg[p].call = "create" THEN <<<<"open", 0>>>> ELSE IunlockPut(ip)))
     /\ UNCHANGED <<lock, arg>>
     /\ Fixed
CreateFail(p) ==
  /\ At(p, "create 3")
  /\ SetNlink(arg[p].ip, 0)
  /\ Do(p, IunlockPut(arg[p].ip) \o IunlockPut(arg[p].dp))
  /\ UNCHANGED <<lock, arg>>
  /\ Fixed

(* sys_open() with the inode locked: the first free file and descriptor.    *)
Open(p) ==
  LET ip == arg[p].ip
      F == {f \in Files : ftable[f].ref = 0}
      D == {d \in Fds : ofile[p][d] = 0}
      f == CHOOSE x \in F : \A y \in F : x <= y
      d == CHOOSE x \in D : \A y \in D : x <= y
  IN /\ At(p, "open")
     /\ \/ /\ \/ inode[ip].type = "dir" /\ arg[p].write
              \/ inode[ip].type = "baddev"
              \/ F = {} \/ D = {}
           /\ Do(p, IunlockPut(ip))
           /\ UNCHANGED <<ftable, ofile>>
        \/ /\ ~(inode[ip].type = "dir" /\ arg[p].write)
           /\ inode[ip].type # "baddev" /\ F # {} /\ D # {}
           /\ ftable' = [ftable EXCEPT ![f] = [ref |-> 1, ip |-> ip]]
           /\ ofile' = [ofile EXCEPT ![p][d] = f]
           /\ Do(p, <<<<"iunlock", ip>>>>)
     /\ UNCHANGED <<dinode, inode, lock, cwd, arg, calls, panicked>>

(* sys_link(): the count goes up before the entry is made ...               *)
(* Mutant: the count does not go up.                                        *)
LinkUncounted(p) ==
  LET ip == arg[p].ip
      i == First(p, arg[p].new)
      bad == <<<<"ilock", ip>>, <<"link bad", 0>>>>
  IN /\ At(p, "link")
     /\ inode' = Iget(i)
     /\ arg' = [arg EXCEPT ![p].dp = ip, ![p].ip = i, ![p].path = arg[p].new.elems, ![p].par = TRUE, ![p].fail = bad]
     /\ Do(p, <<<<"iunlock", ip>>>> \o Namex(i, arg[p].new, TRUE, bad, <<<<"ilock", 0>>, <<"link 2", 0>>>>))
     /\ UNCHANGED <<dinode, lock>>
     /\ Fixed
Link(p) ==
  LET ip == arg[p].ip
      i == First(p, arg[p].new)
      bad == <<<<"ilock", ip>>, <<"link bad", 0>>>>
  IN /\ At(p, "link")
     /\ \/ /\ inode[ip].type = "dir"
           /\ Do(p, IunlockPut(ip))
           /\ UNCHANGED <<dinode, inode, arg>>
        \/ /\ inode[ip].type # "dir"
           /\ inode' = [Iget(i) EXCEPT ![ip].nlink = @ + 1]
           /\ dinode' = [dinode EXCEPT ![ip].nlink = inode[ip].nlink + 1]
           /\ arg' = [arg EXCEPT ![p].dp = ip, ![p].ip = i, ![p].path = arg[p].new.elems,
                                 ![p].par = TRUE, ![p].fail = bad]
           /\ Do(p, <<<<"iunlock", ip>>>>
                    \o Namex(i, arg[p].new, TRUE, bad, <<<<"ilock", 0>>, <<"link 2", 0>>>>))
     /\ UNCHANGED lock
     /\ Fixed

(* ... in dirlink(), which fails when the name exists or the disk is full   *)
Link2(p) ==
  LET dp == arg[p].ip
      ip == arg[p].dp
      there == dinode[dp].ents[arg[p].name]
      bad == IunlockPut(dp) \o <<<<"ilock", ip>>, <<"link bad", 0>>>>
  IN /\ At(p, "link 2")
     /\ \/ /\ there # 0
           /\ inode' = Iget(there)
           /\ Do(p, <<<<"iput", there>>>> \o bad)
           /\ UNCHANGED dinode
        \/ /\ there = 0
           /\ Do(p, bad)
           /\ UNCHANGED <<inode, dinode>>
        \/ /\ there = 0
           /\ dinode' = [dinode EXCEPT ![dp].ents[arg[p].name] = ip]
           /\ Do(p, IunlockPut(dp) \o <<<<"iput", ip>>>>)
           /\ UNCHANGED inode
     /\ UNCHANGED <<lock, arg>>
     /\ Fixed

(* ... and goes down again in that case.                                    *)
LinkBad(p) ==
  /\ At(p, "link bad")
  /\ SetNlink(arg[p].dp, inode[arg[p].dp].nlink - 1)
  /\ Do(p, IunlockPut(arg[p].dp))
  /\ UNCHANGED <<lock, arg>>
  /\ Fixed

(* sys_unlink() with the parent locked ...                                  *)
Unlink(p) ==
  LET dp == arg[p].ip
      ip == dinode[dp].ents[arg[p].name]
  IN /\ At(p, "unlink")
     /\ \/ /\ arg[p].name \in {".", ".."} \/ ip = 0
           /\ Do(p, IunlockPut(dp))
           /\ UNCHANGED <<inode, arg>>
        \/ /\ arg[p].name \notin {".", ".."} /\ ip # 0
           /\ inode' = Iget(ip)
           /\ arg' = [arg EXCEPT ![p].dp = dp, ![p].ip = ip]
           /\ Do(p, <<<<"ilock", ip>>, <<"unlink 2", 0>>>>)
     /\ UNCHANGED <<dinode, lock>>
     /\ Fixed

(* ... then the inode: the entry goes, the count of the parent of a         *)
(* directory, the parent is released ...                                    *)
IsDirEmpty(i) == \A n \in Names : dinode[i].ents[n] = 0
ParentDown(ip) == IF inode[ip].type = "dir" THEN 1 ELSE 0
Unlink2(p) ==
  LET dp == arg[p].dp
      ip == arg[p].ip
      down == ParentDown(ip)
  IN /\ At(p, "unlink 2")
     /\ IF inode[ip].nlink < 1 THEN Panic("unlink: nlink < 1")
        ELSE /\ \/ /\ inode[ip].type = "dir" /\ ~IsDirEmpty(ip)
                   /\ Do(p, IunlockPut(ip) \o IunlockPut(dp))
                   /\ UNCHANGED <<inode, dinode>>
                \/ /\ inode[ip].type # "dir" \/ IsDirEmpty(ip)
                   /\ inode' = [inode EXCEPT ![dp].nlink = @ - down]
                   /\ dinode' = [dinode EXCEPT ![dp].ents[arg[p].name] = 0,
                                               ![dp].nlink = inode[dp].nlink - down]
                   /\ Do(p, IunlockPut(dp) \o <<<<"unlink 3", 0>>>>)
             /\ UNCHANGED <<lock, arg>>
             /\ Fixed

(* ... and the inode loses its link.                                        *)
Unlink3(p) ==
  /\ At(p, "unlink 3")
  /\ SetNlink(arg[p].ip, inode[arg[p].ip].nlink - 1)
  /\ Do(p, IunlockPut(arg[p].ip))
  /\ UNCHANGED <<lock, arg>>
  /\ Fixed

(* sys_chdir() with the inode locked: the old directory is dropped, then    *)
(* the new one stored.                                                      *)
Chdir(p) ==
  LET ip == arg[p].ip
  IN /\ At(p, "chdir")
     /\ Do(p, IF inode[ip].type # "dir" THEN IunlockPut(ip)
              ELSE <<<<"iunlock", ip>>, <<"iput", cwd[p]>>, <<"chdir 2", ip>>>>)
     /\ UNCHANGED <<dinode, inode, lock, ftable, ofile, cwd, arg, calls, panicked>>
Chdir2(p) ==
  /\ At(p, "chdir 2")
  /\ cwd' = [cwd EXCEPT ![p] = Ip(p)]
  /\ Do(p, Rest(p))
  /\ UNCHANGED <<dinode, inode, lock, ftable, ofile, arg, calls, panicked>>

(* Calls on descriptors: close, dup, and read, write or fstat, which lock   *)
(* the inode of the file.                                                   *)
OnFile(p, d) ==
  /\ todo[p] = <<>> /\ calls > 0 /\ ofile[p][d] # 0
  /\ calls' = calls - 1
  /\ UNCHANGED <<dinode, inode, lock, cwd, arg, panicked>>
Close(p, d) ==
  LET f == ofile[p][d]
  IN /\ OnFile(p, d)
     /\ ofile' = [ofile EXCEPT ![p][d] = 0]
     /\ ftable' = [ftable EXCEPT ![f].ref = @ - 1, ![f].ip = IF ftable[f].ref = 1 THEN 0 ELSE @]
     /\ Do(p, IF ftable[f].ref = 1 THEN <<<<"iput", ftable[f].ip>>>> ELSE <<>>)
Dup(p, d) ==
  LET D == {x \in Fds : ofile[p][x] = 0}
  IN /\ OnFile(p, d)
     /\ D # {}
     /\ ofile' = [ofile EXCEPT ![p][CHOOSE x \in D : \A y \in D : x <= y] = ofile[p][d]]
     /\ ftable' = [ftable EXCEPT ![ofile[p][d]].ref = @ + 1]
     /\ UNCHANGED todo
Stat(p, d) ==
  LET i == ftable[ofile[p][d]].ip
  IN /\ OnFile(p, d)
     /\ Do(p, <<<<"ilock", i>>, <<"iunlock", i>>>>)
     /\ UNCHANGED <<ftable, ofile>>

Step(p) ==
  \/ \E c \in Calls : Enter(p, c)
  \/ Ilock(p) \/ Iunlock(p) \/ Iput(p) \/ IputFree(p) \/ IputEnd(p) \/ Walk(p)
  \/ Create(p) \/ CreateFound(p) \/ CreateNew(p) \/ CreateFail(p) \/ Open(p)
  \/ Link(p) \/ Link2(p) \/ LinkBad(p) \/ Unlink(p) \/ Unlink2(p) \/ Unlink3(p) \/ Chdir(p) \/ Chdir2(p)
  \/ \E d \in Fds : Close(p, d) \/ Dup(p, d) \/ Stat(p, d)

Quiet == \A p \in Procs : todo[p] = <<>>
Finished == Quiet /\ calls = 0 /\ UNCHANGED vars
Halted == panicked # "none" /\ UNCHANGED vars

Next == \/ panicked = "none" /\ \E p \in Procs : Step(p)
        \/ Finished
        \/ Halted

Spec == Init /\ [][Next]_vars

-----------------------------------------------------------------------------
(* No calls in any order reach a panic of the inode layer: no inode is      *)
(* locked that was freed ("ilock: no type"), none is unlinked more often    *)
(* than it is linked, and the lock that iput() takes is always free.  There *)
(* are two exceptions: more than NINODE inodes are in use at a time, and    *)
(* namex() follows the ".." of a removed directory to a parent that has     *)
(* been removed and freed after it.                                         *)
ParentGone(p) == At(p, "ilock") /\ arg[p].name = ".." /\ dinode[Ip(p)].type = "free"
NoPanic ==
  \/ panicked \in {"none", "iget: no inodes"}
  \/ panicked = "ilock: no type" /\ \E p \in Procs : ParentGone(p)

(* The links of inode i that a directory on the disk holds.                 *)
Links(i) ==
  Cardinality({<<d, n>> \in Inums \X Names : dinode[d].type = "dir" /\ dinode[d].ents[n] = i})
(* At every step the link count on the disk covers the entries that name    *)
(* the inode, so a transaction that ends between the steps of link() and    *)
(* unlink() leaves no entry for an inode that can be freed.                 *)
NlinkCovers ==
  \A i \in Inums : Links(i) > 0 => dinode[i].type # "free" /\ dinode[i].nlink >= Links(i)

(* When no call is going on, every reference of the inode table belongs to  *)
(* an open file or a current directory: no error path of a call forgets an  *)
(* iput() or makes one too many.                                            *)
NoLeak ==
  Quiet =>
    \A i \in Inums :
      inode[i].ref = Cardinality({p \in Procs : cwd[p] = i})
                     + Cardinality({f \in Files : ftable[f].ref > 0 /\ ftable[f].ip = i})

(* The comment of iput(): the last reference to an inode without links      *)
(* frees it.  When no call is going on, none is left over.                  *)
UnlinkedFreed ==
  Quiet => \A i \in Inums : inode[i].ref = 0 /\ dinode[i].nlink = 0 => dinode[i].type = "free"

(* An inode is freed only when no entry and no open file refers to it, and  *)
(* nobody but a process that chdir() is taking out of it stands in it,      *)
(* whatever others have looked up meanwhile (iput()).                       *)
FreedUnreferenced ==
  [][\A i \in Inums :
       dinode[i].type # "free" /\ dinode'[i].type = "free" =>
         /\ Links(i) = 0
         /\ \A f \in Files : ftable[f].ref > 0 => ftable[f].ip # i
         /\ \A p \in Procs : cwd[p] = i => At(p, "free") \/ At(p, "chdir 2")]_vars
=============================================================================
