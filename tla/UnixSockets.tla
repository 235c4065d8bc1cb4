---------------------------- MODULE UnixSockets ----------------------------
(***************************************************************************)
(* The part of the host the `socket-holders` verb looks at: processes, the *)
(* sockets bound to the asked path, and who holds a descriptor on which.   *)
(* None of it is osfacts code.  It is what src/src/linux.rs and            *)
(* src/src/darwin.rs read while it keeps moving.                           *)
(*                                                                         *)
(* A behaviour starts when the ask starts.  The history variables record   *)
(* what was true during the ask, so that an answer pieced together from    *)
(* several instants can be judged against all of them.                     *)
(***************************************************************************)
EXTENDS Integers, FiniteSets

CONSTANTS
  Pids,      \* process ids the host may use
  Inodes,    \* socket inode numbers that may carry the asked path
  MaxEvents  \* bound on host steps in one behaviour

ASSUME PidsAssumption == Pids \subseteq Nat \ {0} /\ IsFiniteSet(Pids)
ASSUME InodesFinite == IsFiniteSet(Inodes)
ASSUME MaxEventsAssumption == MaxEvents \in Nat

VARIABLES
  alive,     \* live pids
  fds,       \* fds[p]: path-bound sockets p holds a descriptor on
  inflight,  \* path-bound sockets inside an undelivered SCM_RIGHTS message
  denied,    \* live pids whose descriptors osfacts may not inspect
  used,      \* inodes already handed out (never reused)
  events,    \* host steps taken
  ever,      \* <<p, i>>: p held i at some instant of the ask
  steady,    \* <<p, i>>: p held i, inspectable, at every instant so far
  sighted,   \* inodes bound at some instant of the ask
  lasting,   \* inodes bound at every instant of the ask so far
  gap        \* at some instant of the ask nothing was bound to the path

host    == <<alive, fds, inflight, denied, used, events>>
history == <<ever, steady, sighted, lasting, gap>>
env     == <<alive, fds, inflight, denied, used, events,
             ever, steady, sighted, lasting, gap>>

\* A socket lives, and keeps its path in the kernel's table, as long as some
\* process or some message in flight refers to it.
Bound == inflight \cup UNION {fds[p] : p \in Pids}
Held  == {h \in Pids \X Inodes : h[2] \in fds[h[1]]}
Inspectable == {h \in Held : h[1] \notin denied}

HostTypeOK ==
  /\ alive \subseteq Pids
  /\ fds \in [Pids -> SUBSET Inodes]
  /\ inflight \subseteq Inodes
  /\ denied \subseteq alive
  /\ used \subseteq Inodes
  /\ events \in 0..MaxEvents
  /\ ever \subseteq Pids \X Inodes
  /\ steady \subseteq Pids \X Inodes
  /\ sighted \subseteq Inodes
  /\ lasting \subseteq Inodes
  /\ gap \in BOOLEAN

HostInit ==
  /\ alive \in SUBSET Pids
  /\ fds \in [Pids -> SUBSET Inodes]
  /\ \A p \in Pids \ alive : fds[p] = {}
  /\ inflight \in SUBSET Inodes
  /\ denied \in SUBSET alive
  /\ used = Bound
  /\ events = 0
  /\ ever = Held
  /\ steady = Inspectable
  /\ sighted = Bound
  /\ lasting = Bound
  /\ gap = (Bound = {})

\* Every host step counts towards the bound and extends the histories.
Remember ==
  /\ events < MaxEvents
  /\ events' = events + 1
  /\ ever' = ever \cup Held'
  /\ steady' = steady \cap Inspectable'
  /\ sighted' = sighted \cup Bound'
  /\ lasting' = lasting \cap Bound'
  /\ gap' = (gap \/ Bound' = {})

\* p binds a fresh socket to the path (after an unlink, if it was taken), or
\* accepts a connection on it: the accepted socket carries the path too.
Bind(p, i) ==
  /\ p \in alive
  /\ i \notin used
  /\ used' = used \cup {i}
  /\ fds' = [fds EXCEPT ![p] = @ \cup {i}]
  /\ UNCHANGED <<alive, inflight, denied>>
  /\ Remember

\* The child inherits every descriptor.  Its pid may be one that died before.
Fork(p, c) ==
  /\ p \in alive
  /\ c \notin alive
  /\ alive' = alive \cup {c}
  /\ fds' = [fds EXCEPT ![c] = fds[p]]
  /\ denied' = IF p \in denied THEN denied \cup {c} ELSE denied
  /\ UNCHANGED <<inflight, used>>
  /\ Remember

Close(p, i) ==
  /\ i \in fds[p]
  /\ fds' = [fds EXCEPT ![p] = @ \ {i}]
  /\ UNCHANGED <<alive, inflight, denied, used>>
  /\ Remember

Exit(p) ==
  /\ p \in alive
  /\ alive' = alive \ {p}
  /\ fds' = [fds EXCEPT ![p] = {}]
  /\ denied' = denied \ {p}
  /\ UNCHANGED <<inflight, used>>
  /\ Remember

Send(p, i) ==
  /\ i \in fds[p]
  /\ inflight' = inflight \cup {i}
  /\ UNCHANGED <<alive, fds, denied, used>>
  /\ Remember

Receive(p, i) ==
  /\ p \in alive
  /\ i \in inflight
  /\ inflight' = inflight \ {i}
  /\ fds' = [fds EXCEPT ![p] = @ \cup {i}]
  /\ UNCHANGED <<alive, denied, used>>
  /\ Remember

\* A set-uid exec, or a return to the caller's own uid.
Recredential(p) ==
  /\ p \in alive
  /\ denied' = IF p \in denied THEN denied \ {p} ELSE denied \cup {p}
  /\ UNCHANGED <<alive, fds, inflight, used>>
  /\ Remember

HostNext ==
  \/ \E p \in Pids, i \in Inodes :
       Bind(p, i) \/ Close(p, i) \/ Send(p, i) \/ Receive(p, i)
  \/ \E p, c \in Pids : Fork(p, c)
  \/ \E p \in Pids : Exit(p) \/ Recredential(p)

=============================================================================
