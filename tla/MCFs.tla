-------------------------------- MODULE MCFs --------------------------------
(* Names and open files for TLC: small trees to start from, and the calls.  *)
EXTENDS Fs

Abs(s) == [abs |-> TRUE, elems |-> s]
Rel(s) == [abs |-> FALSE, elems |-> s]

C(call, path) == [call |-> call, path |-> path, new |-> Abs(<<>>), type |-> "file", write |-> TRUE]

MCCalls ==
  {C("create", x) : x \in {Abs(<<"a">>), Abs(<<"a", "b">>), Rel(<<"b">>)}}
  \cup {[C("open", x) EXCEPT !.write = FALSE] : x \in {Abs(<<>>), Abs(<<"a">>), Rel(<<"..">>)}}
  \cup {C("open", Abs(<<"a">>))}
  \cup {[C("mkdir", x) EXCEPT !.type = "dir"] : x \in {Abs(<<"a">>), Abs(<<"a", "b">>), Abs(<<>>)}}
  \cup {[C("mknod", Abs(<<"b">>)) EXCEPT !.type = "dev"]}
  \cup {[C("link", Abs(<<"a">>)) EXCEPT !.new = y] : y \in {Abs(<<"b">>), Abs(<<"a", "a">>)}}
  \cup {C("unlink", x) : x \in {Abs(<<"a">>), Abs(<<"b">>), Abs(<<"a", "b">>), Rel(<<"b">>), Abs(<<"a", ".">>)}}
  \cup {C("chdir", x) : x \in {Abs(<<"a">>), Abs(<<>>)}}

None == [type |-> "free", nlink |-> 0, ents |-> NoEnts]
Root(e, n) == [type |-> "dir", nlink |-> n, ents |-> [e EXCEPT !["."] = 1, ![".."] = 1]]
Dir(i, e) == [type |-> "dir", nlink |-> 1, ents |-> [e EXCEPT !["."] = i, ![".."] = 1]]
File(n, t) == [type |-> t, nlink |-> n, ents |-> NoEnts]
Ents(a, b) == [NoEnts EXCEPT !["a"] = a, !["b"] = b]
Disk(x, y, z, u) == [i \in Inums |-> <<x, y, z, u>>[i]]

Disks == {Disk(Root(Ents(2, 0), 1), File(1, "file"), None, None),
          Disk(Root(Ents(2, 2), 1), File(2, "file"), None, None),
          Disk(Root(Ents(2, 0), 2), Dir(2, NoEnts), None, None),
          Disk(Root(Ents(2, 0), 2), Dir(2, Ents(0, 3)), File(1, "file"), None),
          Disk(Root(Ents(2, 0), 2), Dir(2, Ents(4, 3)), File(1, "file"), File(1, "file")),
          Disk(Root(Ents(2, 3), 1), File(1, "file"), File(1, "baddev"), None)}

(* One process is in a directory or has a file open, or neither ...         *)
p0 == CHOOSE p \in Procs : TRUE
NoFile == [f \in Files |-> [ref |-> 0, ip |-> 0]]
Plain(d) == [dinode |-> d, ftable |-> NoFile, ofile |-> [p \in Procs |-> [x \in Fds |-> 0]],
             cwd |-> [p \in Procs |-> 1]]
(* ... or is in a directory that was removed.                               *)
Removed == [Plain(Disk(Root(Ents(2, 0), 2), Dir(2, NoEnts), [Dir(3, NoEnts) EXCEPT !.nlink = 0, !.ents[".."] = 2], None))
              EXCEPT !.cwd[p0] = 3]
MCStarts ==
  {Removed} \cup
  UNION {LET s == Plain(d)
         IN {s}
            \cup (IF d[2].type = "dir" THEN {[s EXCEPT !.cwd[p0] = 2]} ELSE {})
            \cup {[s EXCEPT !.ftable[1] = [ref |-> 1, ip |-> 2], !.ofile[p0][0] = 1]} : d \in Disks}
=============================================================================
