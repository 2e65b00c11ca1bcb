----------------------------- MODULE SocketOwners -----------------------------
(***************************************************************************)
(* attachPIDs: which process owns which socket.  A producer lists the fds  *)
(* of one process after another and cuts them into jobs; a pool of workers *)
(* takes jobs from a bounded channel, reads one link at a time and keeps   *)
(* the sockets it recognises to itself; when the channel is closed and     *)
(* drained each worker merges what it found, under a lock, into one map.   *)
(* A budget stops the producer between two processes.  Meanwhile the       *)
(* processes open, close and hand over sockets.                            *)
(*                                                                         *)
(* Then GatherConnections: in a container's namespace a connection nobody  *)
(* was found for is given to the namespace's representative process.       *)
(*                                                                         *)
(* Left out: fds that are open on something else than a socket, and the    *)
(* order of the fds within a listing (any order is allowed).               *)
(***************************************************************************)
EXTENDS Naturals, Sequences, FiniteSets

CONSTANTS
  Pids,          \* the processes of the namespace, in the order they are walked
  Fds,           \* the fd numbers a process may use
  Inodes,        \* the sockets of the connection table (want)
  Workers,
  Capacity,      \* of the jobs channel: twice the workers
  Chunk,         \* fds per job
  Rep,           \* the pid the namespace falls back on; NoPid on the host
  MaxChanges     \* bound: how often the processes change an fd during the walk

Closed == 0      \* an fd number that is not in use
NoPid  == 0

ASSUME SocketOwnersAssumption ==
  /\ Pids \in Seq(Nat \ {NoPid})
  /\ IsFiniteSet(Fds)
  /\ Inodes \subseteq Nat \ {Closed}
  /\ IsFiniteSet(Workers) /\ Workers # {}
  /\ Capacity \in Nat \ {0} /\ Chunk \in Nat \ {0} /\ MaxChanges \in Nat

VARIABLES
  fds,           \* fds[p][n]: the socket behind fd n of p, or Closed
  changes,       \* how many changes the processes have made
  next,          \* index in Pids of the next process to list
  names,         \* fds of the listed process not handed out yet
  jobs,          \* the channel
  closed,        \* the producer has returned and closed the channel
  expired,       \* the budget is spent
  job,           \* job[w]: what is left of the job w is working through
  local,         \* local[w]: inode -> pid as far as w has recognised them
  finished,      \* workers that have merged and returned
  inodePID,      \* the merged map
  held,          \* history: every <<pid, inode>> there was during the walk
  steady,        \* history: every <<pid, fd, inode>> that was there all along
  listed         \* history: processes whose fds were listed

processes == <<fds, changes, held, steady>>
producer  == <<next, names, closed, listed>>
workers   == <<job, local, finished, inodePID>>
vars      == <<processes, producer, workers, jobs, expired>>

PidSet == {Pids[i] : i \in 1..Len(Pids)}

NoMap == [i \in {} |-> NoPid]
Over(f, g) == [i \in DOMAIN f \cup DOMAIN g |-> IF i \in DOMAIN g THEN g[i] ELSE f[i]]

Opened(p)  == {n \in Fds : fds[p][n] # Closed}
Holding    == {<<p, fds[p][n]>> : p \in PidSet, n \in Fds} \cap (PidSet \X Inodes)
OpenNow    == {<<p, n, fds[p][n]>> : p \in PidSet, n \in Fds} \cap (PidSet \X Fds \X Inodes)

Init ==
  /\ fds \in [PidSet -> [Fds -> Inodes \cup {Closed}]]
  /\ changes = 0
  /\ held = Holding /\ steady = OpenNow /\ listed = {}
  /\ next = 1 /\ names = {} /\ closed = FALSE
  /\ jobs = <<>> /\ expired = FALSE
  /\ job = [w \in Workers |-> [pid |-> NoPid, names |-> {}]]
  /\ local = [w \in Workers |-> NoMap]
  /\ finished = {}
  /\ inodePID = NoMap

-------------------------------------------------------------------------------
(* The producer.                                                           *)

Walking == names = {} /\ ~closed

(* os.ReadDir of the process's fd directory.                               *)
List ==
  /\ Walking /\ next <= Len(Pids)
  /\ ~expired
  /\ names' = Opened(Pids[next])
  /\ listed' = listed \cup {Pids[next]}
  /\ next' = next + 1
  /\ UNCHANGED <<processes, workers, jobs, closed, expired>>

(* The process is gone, or its fd directory is not readable.               *)
ListFails ==
  /\ Walking /\ next <= Len(Pids)
  /\ ~expired
  /\ next' = next + 1
  /\ UNCHANGED <<processes, workers, jobs, names, closed, expired, listed>>

Least(a, b) == IF a < b THEN a ELSE b

(* Mutant: the channel is unbounded.                                       *)
MutHandOutUnbounded(c) ==
  /\ c \subseteq names /\ c # {}
  /\ jobs' = Append(jobs, [pid |-> Pids[next - 1], names |-> c])
  /\ names' = names \ c
  /\ UNCHANGED <<processes, workers, next, closed, expired, listed>>

(* Mutant: the loop over the chunks stops before the last one.             *)
MutHandOut(c) ==
  /\ c \subseteq names /\ c # {}
  /\ Cardinality(c) = Least(Chunk, Cardinality(names))
  /\ Len(jobs) < Capacity
  /\ jobs' = Append(jobs, [pid |-> Pids[next - 1], names |-> c])
  /\ names' = IF Cardinality(names \ c) <= Chunk THEN {} ELSE names \ c
  /\ UNCHANGED <<processes, workers, next, closed, expired, listed>>

(* jobs <- job blocks while the channel is full.  The budget is not asked  *)
(* between two chunks of one process.                                      *)
HandOut(c) ==
  /\ c \subseteq names /\ c # {}
  /\ Cardinality(c) = Least(Chunk, Cardinality(names))
  /\ Len(jobs) < Capacity
  /\ jobs' = Append(jobs, [pid |-> Pids[next - 1], names |-> c])
  /\ names' = names \ c
  /\ UNCHANGED <<processes, workers, next, closed, expired, listed>>

(* No process is left, or the budget is spent.                             *)
Close ==
  /\ Walking
  /\ next > Len(Pids) \/ expired
  /\ closed' = TRUE
  /\ UNCHANGED <<processes, workers, jobs, next, names, expired, listed>>

Expire ==
  /\ ~expired
  /\ expired' = TRUE
  /\ UNCHANGED <<processes, producer, workers, jobs>>

-------------------------------------------------------------------------------
(* The workers.                                                            *)

Idle(w) == w \notin finished /\ job[w].names = {}

Take(w) ==
  /\ Idle(w)
  /\ jobs # <<>>
  /\ job' = [job EXCEPT ![w] = Head(jobs)]
  /\ jobs' = Tail(jobs)
  /\ UNCHANGED <<processes, producer, expired, local, finished, inodePID>>

(* Mutant: a worker credits the process the producer is at, not the job's. *)
MutReadLink(w, n) ==
  /\ n \in job[w].names
  /\ LET i == fds[job[w].pid][n] IN
       local' = IF i \in Inodes
                  THEN [local EXCEPT ![w] = Over(@, [j \in {i} |-> Pids[next - 1]])]
                  ELSE local
  /\ job' = [job EXCEPT ![w].names = @ \ {n}]
  /\ UNCHANGED <<processes, producer, jobs, expired, finished, inodePID>>

(* Mutant: a link that cannot be read is tried again.                      *)
MutReadLinkRetries(w, n) ==
  /\ n \in job[w].names
  /\ job' = IF fds[job[w].pid][n] = Closed THEN job ELSE [job EXCEPT ![w].names = @ \ {n}]
  /\ UNCHANGED <<processes, producer, jobs, expired, local, finished, inodePID>>

(* os.Readlink of one fd; a socket of the table is remembered.             *)
ReadLink(w, n) ==
  /\ n \in job[w].names
  /\ LET p == job[w].pid IN
       local' = IF fds[p][n] \in Inodes
                  THEN [local EXCEPT ![w] = Over(@, [i \in {fds[p][n]} |-> p])]
                  ELSE local
  /\ job' = [job EXCEPT ![w].names = @ \ {n}]
  /\ UNCHANGED <<processes, producer, jobs, expired, finished, inodePID>>

(* The range over the channel ends when it is closed and drained.  Of two  *)
(* workers that found the same socket the one that merges last wins.       *)
Finish(w) ==
  /\ Idle(w)
  /\ closed /\ jobs = <<>>
  /\ inodePID' = Over(inodePID, local[w])
  /\ finished' = finished \cup {w}
  /\ UNCHANGED <<processes, producer, jobs, expired, job, local>>

-------------------------------------------------------------------------------
Done == finished = Workers

(* The processes go on living: one fd changes at a time.                   *)
Change(p, n, i) ==
  /\ ~Done
  /\ changes < MaxChanges
  /\ fds[p][n] # i
  /\ fds' = [fds EXCEPT ![p][n] = i]
  /\ changes' = changes + 1
  /\ held' = held \cup Holding'
  /\ steady' = steady \cap OpenNow'
  /\ UNCHANGED <<producer, workers, jobs, expired>>

(* wg.Wait returns; what follows only reads the map.                       *)
Returned == Done /\ UNCHANGED vars

Owner(i) == IF i \in DOMAIN inodePID THEN inodePID[i] ELSE Rep

Next ==
  \/ List \/ ListFails \/ Close \/ Expire \/ Returned
  \/ \E c \in SUBSET names : HandOut(c)
  \/ \E w \in Workers : Take(w) \/ Finish(w) \/ \E n \in job[w].names : ReadLink(w, n)
  \/ \E p \in PidSet, n \in Fds, i \in Inodes \cup {Closed} : Change(p, n, i)

Spec == Init /\ [][Next]_vars

(* Goroutines are scheduled and the kernel answers.                        *)
Fairness ==
  /\ WF_vars(List \/ ListFails) /\ WF_vars(\E c \in SUBSET names : HandOut(c)) /\ WF_vars(Close)
  /\ \A w \in Workers :
       WF_vars(Take(w)) /\ WF_vars(Finish(w)) /\ WF_vars(\E n \in job[w].names : ReadLink(w, n))

FairSpec == Spec /\ Fairness

-------------------------------------------------------------------------------
Job == [pid : PidSet \cup {NoPid}, names : SUBSET Fds]

IsOwnerMap(f) == DOMAIN f \subseteq Inodes /\ f \in [DOMAIN f -> PidSet]

(* Shapes and ranges; the channel never holds more than its capacity.      *)
TypeOK ==
  /\ fds \in [PidSet -> [Fds -> Inodes \cup {Closed}]]
  /\ changes \in Nat
  /\ held \subseteq PidSet \X Inodes
  /\ steady \subseteq PidSet \X Fds \X Inodes
  /\ next \in 1..(Len(Pids) + 1)
  /\ names \subseteq Fds /\ (names # {} => next > 1)
  /\ listed \subseteq PidSet
  /\ closed \in BOOLEAN /\ expired \in BOOLEAN
  /\ jobs \in Seq([pid : PidSet, names : SUBSET Fds]) /\ Len(jobs) <= Capacity
  /\ job \in [Workers -> Job]
  /\ \A w \in Workers : job[w].names # {} => job[w].pid \in PidSet
  /\ DOMAIN local = Workers /\ \A w \in Workers : IsOwnerMap(local[w])
  /\ finished \subseteq Workers
  /\ IsOwnerMap(inodePID)

(* Whoever the walk attributes a connection to really held its socket at   *)
(* some moment of it, whatever was opened, closed or handed over between   *)
(* the listing, the link and the merge.  (Not so the process a container's *)
(* unresolved connections fall back on.)                                   *)
OwnersAreHolders ==
  Done => \A i \in DOMAIN inodePID : <<Owner(i), i>> \in held

(* No result is lost between the chunks, the channel, the workers' own     *)
(* lists and the merge: a socket that a listed process held all along is   *)
(* in the map, even when the budget ran out meanwhile.                     *)
NothingLost ==
  Done => \A t \in steady : t[1] \in listed => t[3] \in DOMAIN inodePID

(* The walk ends: neither a full channel nor a spent budget leaves the     *)
(* producer or a worker waiting for ever.                                  *)
Terminates == <>Done
===============================================================================
