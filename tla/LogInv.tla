------------------------------- MODULE LogInv -------------------------------
(* The inductive invariant behind the safety properties of Log. *)
EXTENDS Log

\* The two headers name distinct blocks that fit the on-disk log, and agree
\* while a committed transaction is being installed.
HeadInv ==
  /\ n <= SIZE - 1 /\ dn <= SIZE - 1
  /\ \A i \in 1..n : block[i] \in Block
  /\ \A i \in 1..dn : dblock[i] \in Block
  /\ \A i, j \in 1..n : block[i] = block[j] => i = j
  /\ \A i, j \in 1..dn : dblock[i] = dblock[j] => i = j
  /\ dn # 0 => cpc \in {"install", "read_head", "recover"}
  /\ cpc \in {"install", "recover"} => dn = n /\ dblock = block
  /\ cpc \in {"read_head", "done"} => n = 0

\* A commit, or recovery, runs alone; outstanding counts the operations.
PhaseInv ==
  /\ committing <=> cpc \in {"write_log", "install", "done"}
  /\ cpc # "none" => Running = {}
  /\ ~Booted => \A o \in Op : pc[o] = "idle"
  /\ Running = {} /\ cpc = "none" => n = 0
  /\ outstanding = Cardinality(Running)

\* A locked buffer is in the cache, and locked once.
BufInv ==
  /\ \A o \in Op : buf[o] # Absent <=> pc[o] = "dirty"
  /\ \A o \in Op : buf[o] # Absent => cache[buf[o]] # Absent
  /\ \A o, p \in Op : buf[o] = buf[p] /\ buf[o] # Absent => o = p

\* What is newer in the cache than on the disk is pinned or locked; what is
\* pinned is in the log and still to be installed.
CacheInv ==
  /\ \A b \in pinned : cache[b] # Absent
  /\ ~Booted => pinned = {}
  /\ Booted => \A b \in Block :
       b \in pinned <=> \E i \in 1..n : block[i] = b /\ (cpc = "install" => i >= tail)
  /\ \A b \in Block : cache[b] = Absent \/ cache[b] = disk[b] \/ b \in pinned
                      \/ \E o \in Op : buf[o] = b

\* How far commit() and recovery have come.
InstallInv ==
  /\ cpc = "write_log" => \A i \in 1..n : i < tail => dlog[i] = cache[block[i]]
  /\ cpc = "install" => \A i \in 1..n : i >= tail => dlog[i] = cache[block[i]]
  /\ cpc \in {"install", "recover"} => \A i \in 1..n : i < tail => dlog[i] = disk[block[i]]
  /\ \A i \in 1..dn : dlog[i] \in Data
  /\ \A b \in Block : disk[b] = Torn =>
       ~Booted /\ \E i \in 1..dn : dblock[i] = b /\ (cpc = "recover" => i >= tail)

Inv == TypeOK /\ HeadInv /\ PhaseInv /\ BufInv /\ CacheInv /\ InstallInv /\ SleeperHasWaker

=============================================================================
