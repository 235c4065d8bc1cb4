--------------------------- MODULE ListenersLinux ---------------------------
(***************************************************************************)
(* The --ports facet of `snapshot` in src/src/linux.rs: the TCP listeners  *)
(* of the host, and which of the snapshot's pids each belongs to.  The     *)
(* sockets of module UnixSockets are listeners here: bound by listen(2),   *)
(* inherited, closed, passed on, while the tables and the descriptors are  *)
(* read.                                                                   *)
(***************************************************************************)
EXTENDS UnixSockets

CONSTANTS
  V6Inodes,  \* the listeners that are rows of /proc/net/tcp6
  MaxCopies  \* bound on how often one read of a table lists a socket

ASSUME V6Assumption == V6Inodes \subseteq Inodes
ASSUME CopiesAssumption == MaxCopies \in Nat \ {0}

VARIABLES
  phase,    \* where the function is
  targets,  \* the snapshot's pids
  place,    \* place[p]: where in the pid list p stands
  table,    \* table[i]: rows of listener i read so far
  scan,     \* scan[p]: how far socket_inodes(p) has come, or how it ended
  names,    \* names[p]: listed entries of /proc/p/fd still to readlink
  found,    \* found[p]: socket inodes read from p's descriptors
  todo,     \* targets whose result has not been looked at yet
  claims,   \* claims[i]: the first pid found to hold i, 0: nobody so far
  rows,     \* L rows: listener, which copy of it, claimant or 0
  blamed,   \* pids of the U ports rows
  lost,     \* sources of the E ports rows
  kept      \* history: <<p, i>> with p holding i at every instant so far, and
            \* p's descriptors open to osfacts at all of them or at none

sensor == <<phase, targets, place, table, scan, names, found, todo, claims,
            rows, blamed, lost>>
vars   == <<env, kept, sensor>>

Finished == {"ok", "err"}

TypeOK ==
  /\ HostTypeOK
  /\ phase \in {"tcp", "tcp6", "walk", "claims", "done"}
  /\ targets \subseteq Pids
  /\ place \in [Pids -> Nat]
  /\ table \in [Inodes -> Nat]
  /\ scan \in [Pids -> {"waiting", "reading"} \cup Finished]
  /\ \A p \in Pids \ targets : scan[p] = "waiting"
  /\ names \in [Pids -> SUBSET Inodes]
  /\ found \in [Pids -> SUBSET Inodes]
  /\ todo \subseteq targets
  /\ claims \in [Inodes -> targets \cup {0}]
  /\ rows \subseteq [inode : Inodes, copy : Nat, claimant : targets \cup {0}]
  /\ blamed \subseteq targets
  /\ lost \subseteq {"proc_net_tcp", "proc_net_tcp6"}
  /\ kept \subseteq Pids \X Inodes

Orders == {o \in [Pids -> 1..Cardinality(Pids)] :
             \A p, q \in Pids : o[p] = o[q] => p = q}

Init ==
  /\ HostInit
  /\ phase = "tcp"
  /\ targets \in SUBSET Pids
  /\ place \in Orders
  /\ table = [i \in Inodes |-> 0]
  /\ scan = [p \in Pids |-> "waiting"]
  /\ names = [p \in Pids |-> {}]
  /\ found = [p \in Pids |-> {}]
  /\ todo = targets
  /\ claims = [i \in Inodes |-> 0]
  /\ rows = {}
  /\ blamed = {}
  /\ lost = {}
  /\ kept = Held

-----------------------------------------------------------------------------
(* load_listeners                                                          *)

\* What a read of one table may give: a socket that was there throughout is
\* listed, one that is listed was there at some instant, and one that moves
\* between the kernel's own tables may be listed again.
Reads(family) ==
  {t \in [Inodes -> 0..MaxCopies] :
     \A i \in Inodes : /\ t[i] > 0 => i \in family \cap sighted
                       /\ i \in family \cap lasting => t[i] > 0}

ReadTcp ==
  /\ phase = "tcp"
  /\ table' \in Reads(Inodes \ V6Inodes)
  /\ phase' = "tcp6"
  /\ UNCHANGED <<env, kept, targets, place, scan, names, found,
                 todo, claims, rows, blamed, lost>>

\* A host without IPv6 has no such file, which reads like a table of no rows.
ReadTcp6 ==
  /\ phase = "tcp6"
  /\ \E t \in Reads(V6Inodes) : table' = [i \in Inodes |-> table[i] + t[i]]
  /\ phase' = "walk"
  /\ UNCHANGED <<env, kept, targets, place, scan, names, found,
                 todo, claims, rows, blamed, lost>>

\* Either table unreadable or without its header costs the listener set.
TableFails ==
  /\ phase \in {"tcp", "tcp6"}
  /\ lost' = {IF phase = "tcp" THEN "proc_net_tcp" ELSE "proc_net_tcp6"}
  /\ phase' = "done"
  /\ UNCHANGED <<env, kept, targets, place, table, scan, names, found, todo,
                 claims, rows, blamed>>

-----------------------------------------------------------------------------
(* socket_inodes_for_pids.  Its threads take chunks of the list; all that  *)
(* is left of them here is that any two pids are read in either order.     *)

\* Mutant of Starts: every process is walked, whatever the scope.
StartsAnywhere(p) == phase = "walk" /\ scan[p] = "waiting"

Starts(p) == phase = "walk" /\ p \in targets /\ scan[p] = "waiting"

ListFds(p) ==
  /\ Starts(p)
  /\ p \in alive \ denied
  /\ scan' = [scan EXCEPT ![p] = "reading"]
  /\ names' = [names EXCEPT ![p] = fds[p]]
  /\ UNCHANGED <<env, kept, phase, targets, place, table, found, todo, claims,
                 rows, blamed, lost>>

\* The pid is gone, is not ours to inspect, or the host refuses the listing.
ListFdsFails(p) ==
  /\ Starts(p)
  /\ scan' = [scan EXCEPT ![p] = "err"]
  /\ UNCHANGED <<env, kept, phase, targets, place, table, names, found, todo,
                 claims, rows, blamed, lost>>

\* A descriptor is what it is now: the socket that was listed, another one
\* whose descriptor has its number by now, or nothing, which is passed over.
ReadLink(p, i) ==
  /\ scan[p] = "reading"
  /\ i \in names[p]
  /\ names' = [names EXCEPT ![p] = @ \ {i}]
  /\ \E now \in {{}} \cup {{x} : x \in fds[p]} :
       /\ p \in denied => now = {}
       /\ p \notin denied /\ i \in fds[p] => now = {i}
       /\ found' = [found EXCEPT ![p] = @ \cup now]
  /\ UNCHANGED <<env, kept, phase, targets, place, table, scan, todo, claims,
                 rows, blamed, lost>>

ScanEnds(p) ==
  /\ scan[p] = "reading"
  /\ names[p] = {}
  /\ scan' = [scan EXCEPT ![p] = "ok"]
  /\ UNCHANGED <<env, kept, phase, targets, place, table, names, found, todo,
                 claims, rows, blamed, lost>>

WalkEnds ==
  /\ phase = "walk"
  /\ \A p \in targets : scan[p] \in Finished
  /\ phase' = "claims"
  /\ UNCHANGED <<env, kept, targets, place, table, scan, names, found, todo,
                 claims, rows, blamed, lost>>

-----------------------------------------------------------------------------
(* The claims and the rows.                                                *)

\* The results come in the order of the pid list, whoever finished first.
Turn(p) == phase = "claims" /\ p \in todo /\ \A q \in todo : place[p] <= place[q]

\* Mutant of Claim: the last pid of the list that holds a listener wins.
ClaimLast(p) ==
  /\ Turn(p)
  /\ todo' = todo \ {p}
  /\ claims' = [i \in Inodes |-> IF scan[p] = "ok" /\ i \in found[p]
                                 THEN p ELSE claims[i]]
  /\ blamed' = IF scan[p] = "err" THEN blamed \cup {p} ELSE blamed
  /\ UNCHANGED <<env, kept, phase, targets, place, table, scan, names, found,
                 rows, lost>>

\* claims.entry(inode).or_insert(pid), or a U row.
Claim(p) ==
  /\ Turn(p)
  /\ todo' = todo \ {p}
  /\ claims' = [i \in Inodes |->
                  IF scan[p] = "ok" /\ i \in found[p] /\ claims[i] = 0
                  THEN p ELSE claims[i]]
  /\ blamed' = IF scan[p] = "err" THEN blamed \cup {p} ELSE blamed
  /\ UNCHANGED <<env, kept, phase, targets, place, table, scan, names, found,
                 rows, lost>>

\* Mutant of Copies: repeats of a listener are rows of their own.
CopiesAll(i) == 1..table[i]

\* One row per inode, whatever the tables repeat.
Copies(i) == IF table[i] > 0 THEN {1} ELSE {}

Rows ==
  /\ phase = "claims"
  /\ todo = {}
  /\ rows' = UNION {{[inode |-> i, copy |-> c, claimant |-> claims[i]] :
                      c \in Copies(i)} : i \in Inodes}
  /\ phase' = "done"
  /\ UNCHANGED <<env, kept, targets, place, table, scan, names, found, todo,
                 claims, blamed, lost>>

SensorNext ==
  \/ ReadTcp \/ ReadTcp6 \/ TableFails \/ WalkEnds \/ Rows
  \/ \E p \in Pids : \/ ListFds(p) \/ ListFdsFails(p) \/ ScanEnds(p) \/ Claim(p)
                     \/ \E i \in Inodes : ReadLink(p, i)

\* The host moves until the last read; what it does later is not looked at.
Environment ==
  /\ phase \in {"tcp", "tcp6", "walk"}
  /\ HostNext
  /\ kept' = {h \in kept \cap Held' : h[1] \in denied' <=> h[1] \in denied}
  /\ UNCHANGED sensor

Next == SensorNext \/ Environment

Spec == Init /\ [][Next]_vars

-----------------------------------------------------------------------------
(* Properties                                                              *)

Done == phase = "done"

RowsOf(i) == {r \in rows : r.inode = i}

\* A listener that was there for the whole ask has its row, and no listener
\* has two, though the kernel may list a socket twice while it moves: unless
\* an E row says that the whole set is lost (linux.rs:596-607).
EveryListenerOnce ==
  \A i \in Inodes :
    /\ \A r, t \in RowsOf(i) : r = t
    /\ Done /\ lost = {} /\ i \in lasting => RowsOf(i) # {}

\* An attribution is never made up: the claimant held that very socket at
\* some instant of the ask, and the socket was there.
ClaimWasHeld ==
  \A r \in rows : /\ r.inode \in sighted
                  /\ r.claimant # 0 => <<r.claimant, r.inode>> \in ever

\* README "Honesty": `unclaimed` is an owner out of scope or unreadable.  An
\* owner in scope that stayed gets its listener attributed, to itself or to
\* someone before it in the list, or is blamed itself.
StayingOwnerAnswered ==
  \A r \in rows : \A p \in targets :
    <<p, r.inode>> \in kept =>
      \/ p \in blamed
      \/ r.claimant # 0 /\ place[r.claimant] <= place[p]

\* Attributions are neither made up nor withheld.
AttributionIsTrue == ClaimWasHeld /\ StayingOwnerAnswered

=============================================================================
