------------------------- MODULE SocketHoldersLinux -------------------------
(***************************************************************************)
(* `socket_holders` of src/src/linux.rs: the bound-socket table, then the  *)
(* pid list, then a walk of every /proc/<pid>/fd by a pool of scoped       *)
(* threads, then, under --procs, one name per holder.  Each read is a step *)
(* of its own and the host moves between any two of them.                  *)
(***************************************************************************)
EXTENDS UnixSockets

CONSTANTS
  BucketOf,       \* the kernel's hash bucket of each path-bound socket
  LastBucket,     \* buckets are 0..LastBucket, listed in that order
  PidsPerWorker,  \* PIDS_PER_WORKER, 64 in the source
  MaxWorkers      \* MAX_WORKERS, 8 in the source

ASSUME TableAssumption ==
  LastBucket \in Nat /\ BucketOf \in [Inodes -> 0..LastBucket]
ASSUME PoolAssumption ==
  PidsPerWorker \in Nat \ {0} /\ MaxWorkers \in Nat \ {0}

Sources == {"proc_net_unix", "proc_readdir"}

INSTANCE HoldersDocument

VARIABLES
  phase,   \* where the function is
  procs,   \* args.procs
  bucket,  \* next bucket of /proc/net/unix the read will list
  inodes,  \* the path's inodes found in the table
  pids,    \* what host_pids() has listed
  scan,    \* scan[p]: how far socket_inodes(p) has come, or how it ended
  names,   \* names[p]: listed entries of /proc/p/fd still to readlink
  held,    \* held[p]: socket inodes read from p's descriptors
  out,     \* the document being filled
  present  \* history: the processes that were there at every instant so far

world  == <<env, present>>
sensor == <<phase, procs, bucket, inodes, pids, scan, names, held, out>>
vars   == <<world, sensor>>

Phases == {"table", "pids", "walk", "names", "done"}

\* A scan ends as Result<HashSet<u64>, i32>: the set, or the errno of the
\* directory that would not be listed.
Failed   == {"EACCES", "ENOENT", "EMFILE"}
Finished == {"ok"} \cup Failed

TypeOK ==
  /\ HostTypeOK
  /\ phase \in Phases
  /\ procs \in BOOLEAN
  /\ bucket \in 0..(LastBucket + 1)
  /\ inodes \subseteq Inodes
  /\ pids \subseteq Pids
  /\ scan \in [Pids -> {"waiting", "reading"} \cup Finished]
  /\ names \in [Pids -> SUBSET Inodes]
  /\ held \in [Pids -> SUBSET Inodes]
  /\ out \in Document
  /\ present \subseteq Pids

Init ==
  /\ HostInit
  /\ phase = "table"
  /\ procs \in BOOLEAN
  /\ bucket = 0
  /\ inodes = {}
  /\ pids = {}
  /\ scan = [p \in Pids |-> "waiting"]
  /\ names = [p \in Pids |-> {}]
  /\ held = [p \in Pids |-> {}]
  /\ out = EmptyDocument
  /\ present = alive

-----------------------------------------------------------------------------
(* read_bytes("/proc/net/unix"): a seq_file, consistent only per bucket.   *)

ReadBucket ==
  /\ phase = "table"
  /\ bucket <= LastBucket
  /\ inodes' = inodes \cup {i \in Bound : BucketOf[i] = bucket}
  /\ bucket' = bucket + 1
  /\ UNCHANGED <<world, phase, procs, pids, scan, names, held, out>>

\* Mutant of TableFails: blames the table of another facet.
TableFailsMisnamed ==
  /\ phase = "table"
  /\ out' = BlindDocument("proc_net_tcp")
  /\ phase' = "done"
  /\ UNCHANGED <<world, procs, bucket, inodes, pids, scan, names, held>>

\* The read fails, or what it returned is not the table (Err(()), EINVAL).
TableFails ==
  /\ phase = "table"
  /\ out' = BlindDocument("proc_net_unix")
  /\ phase' = "done"
  /\ UNCHANGED <<world, procs, bucket, inodes, pids, scan, names, held>>

\* unix_socket_inodes: no row with the path is the proof of absence.
ParseTable ==
  /\ phase = "table"
  /\ bucket = LastBucket + 1
  /\ phase' = IF inodes = {} THEN "done" ELSE "pids"
  /\ UNCHANGED <<world, procs, bucket, inodes, pids, scan, names, held, out>>

-----------------------------------------------------------------------------
(* host_pids: readdir walks /proc in pid order, over a moving process set. *)

Ahead == {p \in alive : \A q \in pids : q < p}

ListNextPid ==
  /\ phase = "pids"
  /\ \E p \in Ahead :
       /\ \A q \in Ahead : p <= q
       /\ pids' = pids \cup {p}
  /\ UNCHANGED <<world, phase, procs, bucket, inodes, scan, names, held, out>>

ListEnds ==
  /\ phase = "pids"
  /\ Ahead = {}
  /\ phase' = "walk"
  /\ UNCHANGED <<world, procs, bucket, inodes, pids, scan, names, held, out>>

\* Mutant of ListFails: no list is taken for an empty one, and is searched.
ListFailsEmpty ==
  /\ phase = "pids"
  /\ pids' = {}
  /\ phase' = "walk"
  /\ UNCHANGED <<world, procs, bucket, inodes, scan, names, held, out>>

ListFails ==
  /\ phase = "pids"
  /\ out' = BlindDocument("proc_readdir")
  /\ phase' = "done"
  /\ UNCHANGED <<world, procs, bucket, inodes, pids, scan, names, held>>

-----------------------------------------------------------------------------
(* socket_inodes_for_pids: contiguous chunks of the sorted list, one       *)
(* thread each; a thread takes its chunk's pids in order.                  *)

CeilDiv(a, b) == (a + b - 1) \div b

Workers  == LET wanted == CeilDiv(Cardinality(pids), PidsPerWorker)
            IN  IF wanted < MaxWorkers THEN wanted ELSE MaxWorkers
ChunkLen == IF Workers <= 1 THEN Cardinality(pids)
            ELSE CeilDiv(Cardinality(pids), Workers)
Rank(p)  == Cardinality({q \in pids : q < p})
Chunk(p) == Rank(p) \div ChunkLen

\* p is the next pid of its thread.
Turn(p) ==
  /\ phase = "walk"
  /\ p \in pids
  /\ scan[p] = "waiting"
  /\ \A q \in pids : q < p /\ Chunk(q) = Chunk(p) => scan[q] \in Finished

\* read_dir_names("/proc/p/fd") succeeds: the entries of this instant.
ListFds(p) ==
  /\ Turn(p)
  /\ p \in alive \ denied
  /\ scan' = [scan EXCEPT ![p] = "reading"]
  /\ names' = [names EXCEPT ![p] = fds[p]]
  /\ UNCHANGED <<world, phase, procs, bucket, inodes, pids, held, out>>

\* Mutant of ListFdsFails: a pid that is gone is waited for.
ListFdsFailsIfAlive(p) ==
  /\ Turn(p)
  /\ \E errno \in Failed :
       /\ errno = "EACCES" => p \in denied
       /\ p \in alive
       /\ scan' = [scan EXCEPT ![p] = errno]
  /\ UNCHANGED <<world, phase, procs, bucket, inodes, pids, names, held, out>>

\* ... or fails: the pid is gone, is not ours, or (EMFILE, for every errno
\* that says nothing about p) the host would not serve the listing.
ListFdsFails(p) ==
  /\ Turn(p)
  /\ \E errno \in Failed :
       /\ errno = "ENOENT" => p \notin alive
       /\ errno = "EACCES" => p \in denied
       /\ scan' = [scan EXCEPT ![p] = errno]
  /\ UNCHANGED <<world, phase, procs, bucket, inodes, pids, names, held, out>>

\* One read_link.  The entry resolves to what the descriptor is now: the
\* socket that was listed, another one after the number was reused, or
\* nothing; an error is swallowed.
ReadLink(p, i) ==
  /\ phase = "walk"
  /\ scan[p] = "reading"
  /\ i \in names[p]
  /\ names' = [names EXCEPT ![p] = @ \ {i}]
  /\ \E found \in SUBSET fds[p] :
       /\ p \in denied => found = {}
       /\ p \notin denied /\ i \in fds[p] => found = {i}
       /\ \A x, y \in found : x = y
       /\ held' = [held EXCEPT ![p] = @ \cup found]
  /\ UNCHANGED <<world, phase, procs, bucket, inodes, pids, scan, out>>

ScanEnds(p) ==
  /\ phase = "walk"
  /\ scan[p] = "reading"
  /\ names[p] = {}
  /\ scan' = [scan EXCEPT ![p] = "ok"]
  /\ UNCHANGED <<world, phase, procs, bucket, inodes, pids, names, held, out>>

-----------------------------------------------------------------------------
(* Every thread joined: the rows.                                          *)

\* An Err is not a holder and not a row; a readable pid with one of the
\* path's inodes is a holder.
Holders == {p \in pids : scan[p] = "ok" /\ held[p] \cap inodes # {}}

\* Mutant of Rows: nobody named is reported as nobody there.
RowsCollapsed ==
  /\ phase = "walk"
  /\ \A p \in pids : scan[p] \in Finished
  /\ out' = [out EXCEPT !.claimed = Holders]
  /\ phase' = IF procs /\ Holders # {} THEN "names" ELSE "done"
  /\ UNCHANGED <<world, procs, bucket, inodes, pids, scan, names, held>>

\* Mutant of Rows: does not join every thread.
RowsWithoutJoin ==
  /\ phase = "walk"
  /\ \E p \in pids : scan[p] \in Finished
  /\ out' = [out EXCEPT !.claimed = Holders, !.unclaimed = (Holders = {})]
  /\ phase' = IF procs /\ Holders # {} THEN "names" ELSE "done"
  /\ UNCHANGED <<world, procs, bucket, inodes, pids, scan, names, held>>

Rows ==
  /\ phase = "walk"
  /\ \A p \in pids : scan[p] \in Finished
  /\ out' = [out EXCEPT !.claimed = Holders, !.unclaimed = (Holders = {})]
  /\ phase' = IF procs /\ Holders # {} THEN "names" ELSE "done"
  /\ UNCHANGED <<world, procs, bucket, inodes, pids, scan, names, held>>

Unnamed == out.claimed \ (out.procs \cup out.unreadable)

\* Mutant of ReadName: a holder that cannot be named leaves no row.
ReadNameOrNothing(p) ==
  /\ phase = "names"
  /\ p \in Unnamed
  /\ IF p \in alive THEN out' = [out EXCEPT !.procs = @ \cup {p}]
                     ELSE UNCHANGED out
  /\ phase' = IF Unnamed = {p} THEN "done" ELSE "names"
  /\ UNCHANGED <<world, procs, bucket, inodes, pids, scan, names, held>>

\* One holder's stat and cmdline: a P row, or a U row when stat is not to be
\* had (the pid is gone, or procfs hides it).
ReadName(p) ==
  /\ phase = "names"
  /\ p \in Unnamed
  /\ \A q \in Unnamed : p <= q
  /\ \/ /\ p \in alive
        /\ out' = [out EXCEPT !.procs = @ \cup {p}]
     \/ /\ p \notin alive \/ p \in denied
        /\ out' = [out EXCEPT !.unreadable = @ \cup {p}]
  /\ phase' = IF Unnamed = {p} THEN "done" ELSE "names"
  /\ UNCHANGED <<world, procs, bucket, inodes, pids, scan, names, held>>

SensorNext ==
  \/ ReadBucket \/ TableFails \/ ParseTable
  \/ ListNextPid \/ ListEnds \/ ListFails
  \/ \E p \in Pids : \/ ListFds(p) \/ ListFdsFails(p) \/ ScanEnds(p)
                     \/ \E i \in Inodes : ReadLink(p, i)
  \/ Rows
  \/ \E p \in Pids : ReadName(p)

\* What the host does after the document is finished is not the ask's.  A pid
\* takes two steps to change hands, so whoever bears one in `present` is who
\* bore it at the start.
Environment ==
  /\ phase # "done"
  /\ HostNext
  /\ present' = present \cap alive'
  /\ UNCHANGED sensor

Next == SensorNext \/ Environment

Spec == Init /\ [][Next]_vars

\* The process is scheduled; the host owes it nothing else.
FairSpec == Spec /\ WF_vars(SensorNext)

-----------------------------------------------------------------------------
(* Properties                                                              *)

Done == phase = "done"

\* What the document says, in the terms a caller must keep apart.
AnswerOf ==
  IF ~Done THEN [kind |-> "asking", pids |-> {}]
  ELSE IF out.claimed # {} THEN [kind |-> "claimed", pids |-> out.claimed]
  ELSE IF out.unclaimed THEN [kind |-> "unclaimed", pids |-> {}]
  ELSE IF out.errors # {} THEN [kind |-> "blind", pids |-> {}]
  ELSE [kind |-> "none", pids |-> {}]

Promise == INSTANCE Occupancy WITH
  ProvesAbsence <- TRUE, MayBeUnclaimed <- TRUE, answer <- AnswerOf

\* The whole sensor implements the promise: one answer, given once, true of
\* the ask, whatever the host did between its reads.
ImplementsOccupancy == Promise!OccupancySpec

\* The empty document (linux.rs:263, "proof of absence") is given only if no
\* socket was bound to the path for the whole of the ask.
AbsenceIsProof ==
  Done /\ out = EmptyDocument => lasting = {}

\* linux.rs:222-225 and 267 promise more: the path's absence from the table is
\* proof that nobody holds it.  But the table is consistent per bucket only: a
\* successor that binds behind the read, before the holder leaves ahead of it,
\* keeps the path held at every instant of an ask that finds it absent.
AbsenceWasReal ==
  Done /\ out = EmptyDocument => gap

\* A holder that could be inspected and held its socket throughout is in the
\* claimed rows, unless its own fd directory was refused for want of
\* descriptors: no chunk, thread or pid-list step loses it.
SteadyHolderClaimed ==
  \A p \in Pids, i \in Inodes :
    Done /\ out.errors = {} /\ <<p, i>> \in steady
      => p \in out.claimed \/ scan[p] = "EMFILE"

\* A claimed pid held, at some instant of the ask, a socket the table listed.
ClaimedHeldListed ==
  \A p \in out.claimed : \E i \in inodes : <<p, i>> \in ever

\* `unclaimed` asserts that a search took place (linux.rs:272-274): the table
\* listed a socket, and every process that was there for the whole ask had its
\* turn, none of them taken for one that is gone.  If one of them kept one of
\* the path's sockets in reach for all that time, it is because the host had no
\* descriptor left to list its directory with.
UnclaimedWasSearched ==
  out.unclaimed =>
    /\ inodes # {} /\ inodes \subseteq sighted
    /\ \A p \in present :
         /\ p \in pids
         /\ scan[p] \in Finished \ {"ENOENT"}
         /\ \A i \in Inodes : <<p, i>> \in steady => scan[p] = "EMFILE"

\* --procs names exactly the claimed pids, each once, as a P or as a U row.
EveryHolderNamedOnce ==
  /\ out.procs \cap out.unreadable = {}
  /\ out.procs \cup out.unreadable \subseteq out.claimed
  /\ Done /\ procs => out.procs \cup out.unreadable = out.claimed

\* The verb ends whatever the host does, holders exiting included.
Terminates == <>Done

=============================================================================
