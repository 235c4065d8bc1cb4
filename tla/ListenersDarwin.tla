-------------------------- MODULE ListenersDarwin --------------------------
(***************************************************************************)
(* The --ports facet of `snapshot` in src/src/darwin.rs: the descriptors   *)
(* of the snapshot's pids, one pid after the other, then the host's table  *)
(* of TCP sockets, then the union of the two.  The sockets of module       *)
(* UnixSockets are TCP sockets here.  Neither source names a socket, only  *)
(* its key: sockets of one port and address are told apart by nobody.  The *)
(* two sources make a key of different things, and the union of them is of *)
(* keys.  ListenersProofs is about this module and ListenersLinux at once, *)
(* over one moving host, so their names are kept apart.                    *)
(***************************************************************************)
EXTENDS UnixSockets, PcbList

CONSTANTS
  SocketOf,   \* SocketOf[i]: the port, family and IP version flags of socket i
  Connected,  \* the sockets that are not in state LISTEN
  FdSlack     \* spare descriptors per listing, 32 in the source

\* A socket of the kernel serves an IP version at least, and one of AF_INET
\* IPv4 alone.
ASSUME SocketAssumption ==
  /\ SocketOf \in [Inodes -> [port : Ports, family : Families, vflag : Vflags \ {{}}]]
  /\ \A i \in Inodes : SocketOf[i].family = "inet" => SocketOf[i].vflag = {"v4"}
  /\ Connected \subseteq Inodes
  /\ FdSlack \in Nat

VARIABLES
  stage,      \* where the function is
  wanted,     \* the snapshot's pids
  position,   \* position[p]: where in wanted p stands, 0: nowhere
  queue,      \* wanted pids not through yet
  pid,        \* the pid whose descriptors are being read, 0 between two
  room,       \* descriptors its size probe made room for
  listed,     \* its listing is read
  entries,    \* listed descriptors not looked at yet
  claimant,   \* claimant[k]: the first pid found to listen on k, 0: nobody so far
  listeners,  \* listeners[k]: how many L rows k has
  unreadable, \* pids of the U ports rows
  errors,     \* E rows
  intact,     \* history: the table was read and its bytes were in order
  shown,      \* history: the sockets the table was made from
  cut,        \* history: pids whose listing did not fit its room
  stayed      \* history: <<p, i>> with p holding i at every instant so far, and
              \* p's descriptors open to osfacts at all of them or at none

walk   == <<queue, pid, room, listed, entries, claimant, unreadable, cut>>
darwinSensor == <<stage, wanted, position, walk, listeners, errors, intact, shown>>
darwinVars   == <<env, stayed, darwinSensor>>

Blames == [source : {"darwin_listeners", "darwin_tcp_pcblist"},
           facet : {"ports", "ports_uid", "ports_unclaimed"}]

DarwinTypeOK ==
  /\ HostTypeOK
  /\ stage \in {"walk", "done"}
  /\ wanted \subseteq Pids
  /\ position \in [Pids -> Nat]
  /\ queue \subseteq wanted
  /\ pid \in wanted \cup {0}
  /\ room \in Nat
  /\ listed \in BOOLEAN
  /\ entries \subseteq Inodes
  /\ claimant \in [Keys -> wanted \cup {0}]
  /\ listeners \in [Keys -> Nat]
  /\ unreadable \subseteq wanted
  /\ errors \subseteq Blames
  /\ intact \in BOOLEAN
  /\ shown \subseteq Inodes
  /\ cut \subseteq wanted
  /\ stayed \subseteq Pids \X Inodes

Positions(S) == {o \in [Pids -> 0..Cardinality(S)] :
                /\ \A p \in Pids : o[p] = 0 <=> p \notin S
                /\ \A p, q \in S : o[p] = o[q] => p = q}

\* No table of darwin has the owner of a socket: the E row is there always.
DarwinInit ==
  /\ HostInit
  /\ stage = "walk"
  /\ wanted \in SUBSET Pids
  /\ position \in Positions(wanted)
  /\ queue = wanted
  /\ pid = 0
  /\ room = 0
  /\ listed = FALSE
  /\ entries = {}
  /\ claimant = [k \in Keys |-> 0]
  /\ listeners = NoRows
  /\ unreadable = {}
  /\ errors = {[source |-> "darwin_listeners", facet |-> "ports_uid"]}
  /\ intact = FALSE
  /\ shown = {}
  /\ cut = {}
  /\ stayed = Held

-----------------------------------------------------------------------------
(* listener_claims for each target, in the order of the list.              *)

\* Mutant of NextInLine: every process is walked, whatever the scope.
AnyoneInLine(p) == stage = "walk" /\ pid = 0 /\ queue # {}

NextInLine(p) ==
  /\ stage = "walk" /\ pid = 0 /\ p \in queue
  /\ \A q \in queue : position[p] <= position[q]

\* socket_fds has failed, or says that the pid has none.
Over(p, outcome) ==
  /\ queue' = queue \ {p}
  /\ pid' = 0
  /\ unreadable' = IF outcome = "denied" THEN unreadable \cup {p} ELSE unreadable

\* A pid that is gone answers with an errno, or with none and no descriptors.
ProbeFds(p) ==
  /\ NextInLine(p)
  /\ IF p \in alive \ denied
       THEN /\ pid' = p
            /\ room' = Cardinality(fds[p]) + FdSlack
            /\ UNCHANGED <<queue, unreadable>>
       ELSE /\ \E outcome \in {"none", "denied"} :
                 (p \in denied => outcome = "denied") /\ Over(p, outcome)
            /\ UNCHANGED room
  /\ UNCHANGED <<env, stayed, stage, wanted, position, listed, entries, claimant, cut,
                 listeners, errors, intact, shown>>

\* What fits; a longer listing is cut without an error.
ReadFds ==
  /\ pid # 0
  /\ ~listed
  /\ IF pid \in alive \ denied
       THEN /\ entries' \in SUBSET fds[pid]
            /\ IF Cardinality(fds[pid]) <= room
                 THEN entries' = fds[pid] /\ UNCHANGED cut
                 ELSE Cardinality(entries') = room /\ cut' = cut \cup {pid}
            /\ listed' = TRUE
            /\ UNCHANGED <<queue, pid, unreadable>>
       ELSE /\ \E outcome \in {"none", "denied"} :
                 (pid \in denied => outcome = "denied") /\ Over(pid, outcome)
            /\ UNCHANGED <<listed, entries, cut>>
  /\ UNCHANGED <<env, stayed, stage, wanted, position, room, claimant, listeners, errors,
                 intact, shown>>

\* The walk finds key k on socket i.
ListensOn(i, k) ==
  /\ i \notin Connected
  /\ k = <<SocketOf[i].port, Slot(SocketOf[i].family, SocketOf[i].vflag)>>

\* socket_info of one listed descriptor: the socket that was listed, another
\* whose descriptor has its number by now, or nothing, which is passed over.
\* The first pid to claim a key keeps it.
LookAtFd(i) ==
  /\ pid # 0
  /\ listed
  /\ i \in entries
  /\ entries' = entries \ {i}
  /\ \E now \in {{}} \cup {{x} : x \in fds[pid]} :
       /\ pid \in denied => now = {}
       /\ pid \notin denied /\ i \in fds[pid] => now = {i}
       /\ claimant' = [k \in Keys |->
            IF claimant[k] = 0 /\ \E x \in now : ListensOn(x, k) THEN pid ELSE claimant[k]]
  /\ UNCHANGED <<env, stayed, stage, wanted, position, queue, pid, room, listed, cut,
                 listeners, unreadable, errors, intact, shown>>

PidEnds ==
  /\ pid # 0
  /\ listed
  /\ entries = {}
  /\ queue' = queue \ {pid}
  /\ pid' = 0
  /\ listed' = FALSE
  /\ UNCHANGED <<env, stayed, stage, wanted, position, room, entries, claimant, listeners,
                 unreadable, errors, intact, shown, cut>>

-----------------------------------------------------------------------------
(* host_listeners and the union.                                           *)

\* The kernel's records of one socket, in its order.
Group(i) == <<Inp(SocketOf[i].port, SocketOf[i].vflag), Plain("other"),
              Tcp(i \notin Connected)>>

\* What the kernel may hand over for the sockets of a list: the records of all
\* of them, with or without the closing one; a buffer without so much as a
\* header; or one whose header, last socket or closing record has a length that
\* does not fit (one before these ends the reading in the same way).
Buffers(list) ==
  LET n      == Len(list)
      groups == [m \in 1..(3 * n) |-> Group(list[(m + 2) \div 3])[((m - 1) % 3) + 1]]
      open   == <<Plain("header")>> \o groups
      whole  == Append(open, Plain("closing"))
  IN  {whole, open} \cup {[whole EXCEPT ![m] = Plain("drift")] : m \in {1, (3 * n) + 1, (3 * n) + 2}}
        \cup IF n = 0 THEN {<<>>} ELSE {}

Lists(S) == {s \in [1..Cardinality(S) -> S] : \A i \in S : \E m \in DOMAIN s : s[m] = i}

Lost(facet) == errors' = errors \cup
                 {[source |-> "darwin_tcp_pcblist", facet |-> facet]}

\* The sysctl failed, or its bytes do not decode: the claims still ship, and
\* only an ask without one has lost every listener.
TableLost ==
  /\ Lost(IF \A k \in Keys : claimant[k] = 0 THEN "ports" ELSE "ports_unclaimed")
  /\ listeners' = Attributed(NoRows, claimant)

\* The bytes decode.  A table of no listener is one that was withheld.
TableRead(out) ==
  /\ IF out = NoRows THEN Lost("ports_unclaimed") ELSE UNCHANGED errors
  /\ listeners' = Attributed(out, claimant)

WalkOver == stage = "walk" /\ pid = 0 /\ queue = {}

\* The table is of one instant, and may withhold any socket.
ReadTable ==
  /\ WalkOver
  /\ shown' \in SUBSET Bound
  /\ \E list \in Lists(shown') : \E buffer \in Buffers(list) :
       /\ intact' = \A m \in DOMAIN buffer : buffer[m].kind # "drift"
       /\ IF Decoded(buffer).state = "malformed"
            THEN TableLost ELSE TableRead(Decoded(buffer).out)
  /\ stage' = "done"
  /\ UNCHANGED <<env, stayed, wanted, position, walk>>

HostTableFails ==
  /\ WalkOver
  /\ TableLost
  /\ stage' = "done"
  /\ UNCHANGED <<env, stayed, wanted, position, walk, intact, shown>>

DarwinSensorNext ==
  \/ \E p \in Pids : ProbeFds(p)
  \/ ReadFds \/ PidEnds \/ ReadTable \/ HostTableFails
  \/ \E i \in Inodes : LookAtFd(i)

DarwinEnvironment ==
  /\ stage = "walk"
  /\ HostNext
  /\ stayed' = {h \in stayed \cap Held' : h[1] \in denied' <=> h[1] \in denied}
  /\ UNCHANGED darwinSensor

DarwinNext == DarwinSensorNext \/ DarwinEnvironment

DarwinSpec == DarwinInit /\ [][DarwinNext]_darwinVars

-----------------------------------------------------------------------------
(* Properties                                                              *)

Ended == stage = "done"

\* Socket i is a listener of key k: one that serves IPv4 alone is bound in the
\* 4-byte slot, any other in the 16-byte one.
Listener(i, k) ==
  /\ i \notin Connected
  /\ k = <<SocketOf[i].port, IF SocketOf[i].vflag = {"v4"} THEN "V4" ELSE "V6">>

Withheld(facet) == [source |-> "darwin_tcp_pcblist", facet |-> facet] \in errors

\* pcblist.rs:38-43 and darwin.rs:377-406: a listener the table shows has a row
\* for each of its sockets, a socket that does not listen has none, and what a
\* table in disorder shows is not told at all: an E row says instead that the
\* unclaimed listeners are lost, or, if nothing was claimed, all of them.  A
\* claimed listener has a row whatever became of the table.
NoListenerLostSilently ==
  Ended => \A k \in Keys :
    LET told   == {i \in shown : Listener(i, k)}
        silent == \A i \in shown : i \in Connected \/ SocketOf[i].port = 0
    IN  /\ claimant[k] # 0 => listeners[k] > 0
        /\ IF ~intact \/ silent
             THEN /\ listeners[k] <= 1
                  /\ listeners[k] = 1 <=> claimant[k] # 0
                  /\ Withheld("ports_unclaimed") \/ Withheld("ports")
             ELSE /\ Cardinality(told) <= listeners[k]
                  /\ told # {} \/ claimant[k] = 0 => listeners[k] = Cardinality(told)
        /\ Withheld("ports") => \A q \in Keys : listeners[q] = 0

\* A claim is never made up: the pid held a listener of that key at some
\* instant of the ask.  And it is never withheld for want of a table: a target
\* that kept a listener of that key throughout is blamed itself, or the key is
\* claimed by it or by a pid before it; only a listing that did not fit can
\* hide one.
ClaimsAreTrue ==
  \A k \in Keys :
    /\ claimant[k] # 0 => \E i \in Inodes : Listener(i, k) /\ <<claimant[k], i>> \in ever
    /\ Ended => \A p \in wanted \ (cut \cup unreadable) : \A i \in Inodes :
         <<p, i>> \in stayed /\ Listener(i, k)
           => claimant[k] # 0 /\ position[claimant[k]] <= position[p]

=============================================================================
