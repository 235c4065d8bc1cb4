------------------------ MODULE SocketHoldersDarwin ------------------------
(***************************************************************************)
(* `socket_holders` of src/src/darwin.rs: one kern.proc.all table, then    *)
(* every listed pid's descriptors, one after the other.  There is no table *)
(* of bound sockets, so nothing found is never proof of absence.           *)
(***************************************************************************)
EXTENDS UnixSockets

CONSTANTS
  ProcSlack,  \* spare table rows per attempt, 16 in the source
  FdSlack,    \* spare descriptors per listing, 32 in the source
  Attempts    \* sysctl attempts before ENOMEM is final, 3 in the source

ASSUME SlackAssumption ==
  ProcSlack \in Nat /\ FdSlack \in Nat /\ Attempts \in Nat \ {0}

Sources == {"kern_proc_all", "darwin_proc_fds"}

INSTANCE HoldersDocument

VARIABLES
  phase,  \* where the function is
  procs,  \* args.procs
  tries,  \* attempts of kern_proc_all that ended in ENOMEM
  room,   \* rows, then descriptors, the last size probe made room for
  table,  \* pids of the decoded process table
  scan,   \* scan[p]: how far holds_unix_socket(p) has come, or its result
  names,  \* listed descriptors of the pid being read, not looked at yet
  cut,    \* history: pids whose listing did not fit its room
  out     \* the document being filled

sensor == <<phase, procs, tries, room, table, scan, names, cut, out>>
vars   == <<env, sensor>>

\* Result<bool, i32> of holds_unix_socket.
Finished == {"yes", "no", "err"}
Reading  == {"probed", "listed"}

TypeOK ==
  /\ HostTypeOK
  /\ phase \in {"probe", "table", "walk", "done"}
  /\ procs \in BOOLEAN
  /\ tries \in 0..Attempts
  /\ room \in Nat
  /\ table \subseteq Pids
  /\ scan \in [Pids -> {"waiting"} \cup Reading \cup Finished]
  /\ names \subseteq Inodes
  /\ cut \subseteq Pids
  /\ out \in Document

Init ==
  /\ HostInit
  /\ phase = "probe"
  /\ procs \in BOOLEAN
  /\ tries = 0
  /\ room = 0
  /\ table = {}
  /\ scan = [p \in Pids |-> "waiting"]
  /\ names = {}
  /\ cut = {}
  /\ out = EmptyDocument

-----------------------------------------------------------------------------
(* kern_proc_all: probe the size, add slack, read; try again if it grew.   *)

ProbeTable ==
  /\ phase = "probe"
  /\ room' = Cardinality(alive) + ProcSlack
  /\ phase' = "table"
  /\ UNCHANGED <<env, procs, tries, table, scan, names, cut, out>>

Blinded(source) ==
  /\ out' = BlindDocument(source)
  /\ phase' = "done"

ReadTable ==
  /\ phase = "table"
  /\ Cardinality(alive) <= room
  /\ table' = alive
  /\ phase' = "walk"
  /\ UNCHANGED <<env, procs, tries, room, scan, names, cut, out>>

TableGrew ==
  /\ phase = "table"
  /\ Cardinality(alive) > room
  /\ tries' = tries + 1
  /\ IF tries' < Attempts THEN phase' = "probe" /\ UNCHANGED out
                          ELSE Blinded("kern_proc_all")
  /\ UNCHANGED <<env, procs, room, table, scan, names, cut>>

\* Mutant of TableFails: blames the source of the other platform.
TableFailsMisnamed ==
  /\ phase \in {"probe", "table"}
  /\ Blinded("proc_readdir")
  /\ UNCHANGED <<env, procs, tries, room, table, scan, names, cut>>

\* Any other errno, or a table that does not decode.
TableFails ==
  /\ phase \in {"probe", "table"}
  /\ Blinded("kern_proc_all")
  /\ UNCHANGED <<env, procs, tries, room, table, scan, names, cut>>

-----------------------------------------------------------------------------
(* holds_unix_socket(p) for every pid, in no particular order.             *)

Idle == phase = "walk" /\ \A q \in Pids : scan[q] \notin Reading

\* socket_fds, first proc_pidinfo.  A pid that is gone has no descriptors
\* and no errno.  Any errno means that the pid could not be inspected: it is
\* one of `denied`, whatever the kernel's reason.
ProbeFds(p) ==
  /\ Idle
  /\ p \in table
  /\ scan[p] = "waiting"
  /\ room' = Cardinality(fds[p]) + FdSlack
  /\ scan' = [scan EXCEPT ![p] = IF p \in denied THEN "err"
                                 ELSE IF p \notin alive THEN "no"
                                 ELSE "probed"]
  /\ UNCHANGED <<env, phase, procs, tries, table, names, cut, out>>

\* Second proc_pidinfo: what fits; a longer list is cut without an error.
ListFds(p) ==
  /\ phase = "walk"
  /\ scan[p] = "probed"
  /\ IF p \in denied
       THEN scan' = [scan EXCEPT ![p] = "err"] /\ names' = {} /\ UNCHANGED cut
       ELSE /\ scan' = [scan EXCEPT ![p] = "listed"]
            /\ IF Cardinality(fds[p]) <= room
                 THEN names' = fds[p] /\ UNCHANGED cut
                 ELSE /\ names' \in SUBSET fds[p]
                      /\ Cardinality(names') = room
                      /\ cut' = cut \cup {p}
  /\ UNCHANGED <<env, phase, procs, tries, room, table, out>>

\* Mutant of LookAtFd: a closed descriptor is looked at again.
LookAtFdAgain(p, i) ==
  /\ phase = "walk"
  /\ scan[p] = "listed"
  /\ i \in names
  /\ p \notin denied
  /\ i \in fds[p]
  /\ scan' = [scan EXCEPT ![p] = "yes"]
  /\ names' = {}
  /\ UNCHANGED <<env, phase, procs, tries, room, table, cut, out>>

\* Mutant of LookAtFd: a descriptor that closed answers for the process.
LookAtFdReturns(p, i) ==
  /\ phase = "walk"
  /\ scan[p] = "listed"
  /\ i \in names
  /\ \/ /\ p \notin denied
        /\ fds[p] # {}
        /\ scan' = [scan EXCEPT ![p] = "yes"]
     \/ /\ p \in denied \/ i \notin fds[p]
        /\ scan' = [scan EXCEPT ![p] = "no"]
  /\ names' = {}
  /\ UNCHANGED <<env, phase, procs, tries, room, table, cut, out>>

\* socket_info of one listed descriptor: the path's socket answers Ok(true) at
\* once; one that was closed, or is no longer ours to read, is passed over; a
\* number that was reused may answer for the socket now behind it.
LookAtFd(p, i) ==
  /\ phase = "walk"
  /\ scan[p] = "listed"
  /\ i \in names
  /\ \/ /\ p \notin denied
        /\ fds[p] # {}
        /\ scan' = [scan EXCEPT ![p] = "yes"]
        /\ names' = {}
     \/ /\ p \in denied \/ i \notin fds[p]
        /\ names' = names \ {i}
        /\ UNCHANGED scan
  /\ UNCHANGED <<env, phase, procs, tries, room, table, cut, out>>

NoMatch(p) ==
  /\ phase = "walk"
  /\ scan[p] = "listed"
  /\ names = {}
  /\ scan' = [scan EXCEPT ![p] = "no"]
  /\ UNCHANGED <<env, phase, procs, tries, room, table, names, cut, out>>

Holders == {p \in table : scan[p] = "yes"}

\* Mutant of Rows: a walk that named nobody is trusted.
RowsTrustingWalk ==
  /\ phase = "walk"
  /\ \A p \in table : scan[p] \in Finished
  /\ phase' = "done"
  /\ out' = [out EXCEPT !.claimed = Holders,
                        !.procs = IF procs THEN Holders ELSE {}]
  /\ UNCHANGED <<env, procs, tries, room, table, scan, names, cut>>

\* The whole table is walked: the rows.  Names are already in the table.
Rows ==
  /\ phase = "walk"
  /\ \A p \in table : scan[p] \in Finished
  /\ IF Holders = {}
       THEN Blinded("darwin_proc_fds")
       ELSE /\ phase' = "done"
            /\ out' = [out EXCEPT !.claimed = Holders,
                                  !.procs = IF procs THEN Holders ELSE {}]
  /\ UNCHANGED <<env, procs, tries, room, table, scan, names, cut>>

SensorNext ==
  \/ ProbeTable \/ ReadTable \/ TableGrew \/ TableFails
  \/ \E p \in Pids : \/ ProbeFds(p) \/ ListFds(p) \/ NoMatch(p)
                     \/ \E i \in Inodes : LookAtFd(p, i)
  \/ Rows

Environment == phase # "done" /\ HostNext /\ UNCHANGED sensor

Next == SensorNext \/ Environment

Spec == Init /\ [][Next]_vars

\* The process is scheduled; the host owes it nothing else.
FairSpec == Spec /\ WF_vars(SensorNext)

-----------------------------------------------------------------------------
(* Properties                                                              *)

Done == phase = "done"

AnswerOf ==
  IF ~Done THEN [kind |-> "asking", pids |-> {}]
  ELSE IF out.claimed # {} THEN [kind |-> "claimed", pids |-> out.claimed]
  ELSE IF out.unclaimed THEN [kind |-> "unclaimed", pids |-> {}]
  ELSE IF out.errors # {} THEN [kind |-> "blind", pids |-> {}]
  ELSE [kind |-> "none", pids |-> {}]

Promise == INSTANCE Occupancy WITH
  ProvesAbsence <- FALSE, MayBeUnclaimed <- FALSE, answer <- AnswerOf

\* The sensor implements the promise of a platform without a socket table:
\* holders that were there during the ask, or blindness (darwin.rs:416-437);
\* never `none`, never `unclaimed`.
ImplementsOccupancy == Promise!OccupancySpec

\* A holder that could be inspected and held its socket throughout is named,
\* whatever its other descriptors did: only a listing that did not fit, or the
\* loss of the whole table, can hide it.
SteadyHolderClaimed ==
  \A p \in Pids, i \in Inodes :
    Done /\ <<p, i>> \in steady /\ "kern_proc_all" \notin out.errors
      => p \in out.claimed \cup cut

\* A claimed pid is of the table and held the path at some instant of the ask,
\* though pids exit, descriptor numbers are reused and the walk may be denied
\* between the reads: a number listed a moment ago is looked at, not believed.
ClaimedWasHolder ==
  \A p \in out.claimed : p \in table /\ \E i \in Inodes : <<p, i>> \in ever

\* kern_proc_all gives up after its attempts, so the verb ends even on a host
\* that keeps forking between the size probe and the read.
Terminates == <>Done

=============================================================================
