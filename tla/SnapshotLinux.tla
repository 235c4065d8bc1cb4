--------------------------- MODULE SnapshotLinux ---------------------------
(***************************************************************************)
(* `snapshot` of src/src/linux.rs for the facets of processes: a list of   *)
(* pids, a few constants of the host, then for every pid the files the     *)
(* asked facets need, each read once while processes exit and pids are     *)
(* used again.  The --ports facet is module ListenersLinux.  A pid named   *)
(* twice in --pids, whose fact rows the program repeats, is named once     *)
(* here; a (pid, facet) has one U row, as normalize_unreadable leaves it.  *)
(***************************************************************************)
EXTENDS ProcessTable

CONSTANT
  Asks  \* the sets of facets a command line may name

Facets == {"proc", "mem", "start_time", "cpu_time", "uid", "cwd", "status",
           "argv"}

ASSUME AsksAssumption == Asks \subseteq (SUBSET Facets) \ {{}}

VARIABLES
  phase,       \* where the function is
  asked,       \* args.asked_facets()
  scope,       \* args.scope
  named,       \* the pids of --pids or --roots
  known,       \* boot_us, clk_hz and page_size that were read
  targets,     \* collect_pids: pids whose files are to be read
  todo,        \* targets not begun yet
  pid,         \* the pid being read, 0 between two
  unread,      \* files of it still to be read
  got,         \* got[f]: what the read of file f gave
  rows,        \* fact rows: pid, facet and the process the fact is of
  unreadable,  \* U rows
  errors       \* E rows

sensor == <<phase, asked, scope, named, known, targets, todo, pid, unread, got,
            rows, unreadable, errors>>
vars   == <<host, sensor>>

\* A read gives the file of one process, or an errno: ENOENT and ESRCH if the
\* pid names none, anything else for one that lives.
Gone    == 0
Refused == -1

Files     == {"stat", "cmdline", "statm", "status", "cwd"}
Place     == [stat |-> 1, cmdline |-> 2, statm |-> 3, status |-> 4, cwd |-> 5]
NotRead   == [of |-> 0, born |-> Gone]
Readings  == [of : Pids \cup {0}, born : Nat \cup {Refused}]

Sources   == {"proc_readdir", "boot", "ticks", "page"}
Constants == {"boot", "ticks", "page"}

\* The facets a host constant is needed for: /proc/stat btime, CLK_TCK and the
\* page size.
Costs == [boot  |-> {"start_time"},
          ticks |-> {"start_time", "cpu_time"},
          page  |-> {"mem"}]

TypeOK ==
  /\ HostTypeOK
  /\ phase \in {"collect", "constants", "reads", "done"}
  /\ asked \in Asks
  /\ scope \in {"host", "pids", "roots"}
  /\ named \subseteq Pids
  /\ known \subseteq Constants
  /\ targets \subseteq Pids
  /\ todo \subseteq targets
  /\ pid \in targets \cup {0}
  /\ unread \subseteq Files
  /\ got \in [Files -> Readings]
  /\ rows \subseteq [pid : Pids, facet : Facets, of : Pids, born : Nat \ {0}]
  /\ unreadable \subseteq [pid : Pids, facet : Facets, errno : {Gone, Refused}]
  /\ errors \subseteq [source : Sources, facet : Facets]

Init ==
  /\ HostInit
  /\ phase = "collect"
  /\ asked \in Asks
  /\ scope \in {"host", "pids", "roots"}
  /\ named \in IF scope = "host" THEN {{}} ELSE (SUBSET Pids) \ {{}}
  /\ known = {}
  /\ targets = {}
  /\ todo = {}
  /\ pid = 0
  /\ unread = {}
  /\ got = [f \in Files |-> NotRead]
  /\ rows = {}
  /\ unreadable = {}
  /\ errors = {}

-----------------------------------------------------------------------------
(* collect_pids and the constants of the host.                             *)

CollectTo(pids, blamed) ==
  /\ phase = "collect"
  /\ targets' = pids
  /\ todo' = pids
  /\ unreadable' = {[pid |-> p, facet |-> "proc",
                     errno |-> IF p \in pids THEN Refused ELSE Gone] : p \in blamed}
  /\ phase' = "constants"
  /\ UNCHANGED <<host, asked, scope, named, known, pid, unread, got, rows, errors>>

\* /proc is listed while processes come and go: what was there all along is
\* listed, what never was is not.
CollectHost ==
  /\ scope = "host"
  /\ \E pids \in SUBSET {e[1] : e \in lived} :
       Pids \ vacant \subseteq pids /\ CollectTo(pids, {})

CollectPids == scope = "pids" /\ CollectTo(named, {})

\* What module SubtreeWalk shows of the walk: a root is listed, or blamed
\* because it is not there; what is listed lived, and a listed root is blamed
\* too if its subtree could not be read as a whole.
CollectRoots ==
  /\ scope = "roots"
  /\ \E blamed \in SUBSET named, pids \in SUBSET {e[1] : e \in lived} :
       /\ named \subseteq pids \cup blamed
       /\ blamed \ pids \subseteq vacant
       /\ CollectTo(pids, blamed)

\* /proc does not list: no facet of the ask can be answered.
CollectFails ==
  /\ phase = "collect"
  /\ scope = "host"
  /\ errors' = {[source |-> "proc_readdir", facet |-> f] : f \in asked}
  /\ phase' = "done"
  /\ UNCHANGED <<host, asked, scope, named, known, targets, todo, pid, unread,
                 got, rows, unreadable>>

\* A constant is read if a facet needs it, once for all pids and facets.
ReadConstants ==
  /\ phase = "constants"
  /\ LET needed == {c \in Constants : Costs[c] \cap asked # {}}
     IN \E failed \in SUBSET needed :
          /\ known' = needed \ failed
          /\ errors' = errors \cup UNION {{[source |-> c, facet |-> f] :
                                            f \in Costs[c] \cap asked} : c \in failed}
  /\ phase' = "reads"
  /\ UNCHANGED <<host, asked, scope, named, targets, todo, pid, unread, got,
                 rows, unreadable>>

-----------------------------------------------------------------------------
(* The loop over the pids.                                                 *)

\* Asked facets that no failed constant has cost already.
Measured == {f \in asked : \A c \in Constants : f \in Costs[c] => c \in known}

StatFacets == {"proc", "start_time", "cpu_time", "status"}

\* Mutant of FilesNeeded: RSS is read afresh although stat has it.
FilesNeededAfresh ==
  {f \in Files : \/ f = "stat" /\ asked \cap StatFacets # {}
                 \/ f = "cmdline" /\ asked \cap {"proc", "argv"} # {}
                 \/ f = "statm" /\ "mem" \in Measured
                 \/ f = "status" /\ "uid" \in asked
                 \/ f = "cwd" /\ "cwd" \in asked}

FilesNeeded ==
  {f \in Files : \/ f = "stat" /\ asked \cap StatFacets # {}
                 \/ f = "cmdline" /\ asked \cap {"proc", "argv"} # {}
                 \/ f = "statm" /\ "mem" \in Measured /\ asked \cap StatFacets = {}
                 \/ f = "status" /\ "uid" \in asked
                 \/ f = "cwd" /\ "cwd" \in asked}

\* Mutant of BeginPid: what the last pid's files gave is still there.
BeginPidKeeping(p) ==
  /\ phase = "reads"
  /\ pid = 0
  /\ p \in todo
  /\ pid' = p
  /\ todo' = todo \ {p}
  /\ unread' = {f \in FilesNeeded : got[f] = NotRead}
  /\ UNCHANGED <<host, phase, asked, scope, named, known, targets, got, rows,
                 unreadable, errors>>

BeginPid(p) ==
  /\ phase = "reads"
  /\ pid = 0
  /\ p \in todo
  /\ pid' = p
  /\ todo' = todo \ {p}
  /\ unread' = FilesNeeded
  /\ got' = [f \in Files |-> NotRead]
  /\ UNCHANGED <<host, phase, asked, scope, named, known, targets, rows,
                 unreadable, errors>>

\* read_string, read_bytes, read_link of one file of the pid, in this order.
ReadFile(f) ==
  /\ pid # 0
  /\ f \in unread
  /\ \A g \in unread : Place[f] <= Place[g]
  /\ unread' = unread \ {f}
  /\ \E b \in {born[pid]} \cup IF pid \in Living THEN {Refused} ELSE {} :
       got' = [got EXCEPT ![f] = [of |-> pid, born |-> b]]
  /\ UNCHANGED <<host, phase, asked, scope, named, known, targets, todo, pid,
                 rows, unreadable, errors>>

\* The file a facet is read from.  A name prefers cmdline's argv[0] and falls
\* back on stat, which decides whether there is a row; RSS is in stat too, and
\* statm is read for it only if stat is not.
HomeFile == [proc |-> "stat", start_time |-> "stat", cpu_time |-> "stat",
             status |-> "stat", mem |-> "stat", uid |-> "status", cwd |-> "cwd",
             argv |-> "cmdline"]

ReadingOf(f) ==
  got[IF f = "mem" /\ "statm" \in FilesNeeded THEN "statm" ELSE HomeFile[f]]

Readable(f) == ReadingOf(f).born \notin {Gone, Refused}

\* Mutant of RowsFrom: an unreadable facet has a row, of nobody.
RowsFromAnyReading(facets) ==
  {[pid |-> pid, facet |-> f, of |-> ReadingOf(f).of, born |-> ReadingOf(f).born] :
     f \in facets}

RowsFrom(facets) ==
  {[pid |-> pid, facet |-> f, of |-> ReadingOf(f).of, born |-> ReadingOf(f).born] :
     f \in {g \in facets : Readable(g)}}

\* The first U row of a (pid, facet) is the one that stays.
BlameFrom(facets) ==
  {[pid |-> pid, facet |-> f, errno |-> ReadingOf(f).born] :
     f \in {g \in facets : /\ ~Readable(g)
                           /\ \A u \in unreadable : <<u.pid, u.facet>> # <<pid, g>>}}

EndPid ==
  /\ pid' = 0
  /\ UNCHANGED <<host, phase, asked, scope, named, known, targets, todo, unread,
                 got, errors>>

\* Mutant of ReportPid: the first unreadable file ends the pid.
ReportPidUnlessBlamed ==
  /\ pid # 0
  /\ unread = {}
  /\ rows' = rows \cup IF BlameFrom(Measured) = {} THEN RowsFrom(Measured) ELSE {}
  /\ unreadable' = unreadable \cup BlameFrom(Measured)
  /\ EndPid

\* One row or one U row per measured facet; no failure costs another facet.
ReportPid ==
  /\ pid # 0
  /\ unread = {}
  /\ rows' = rows \cup RowsFrom(Measured)
  /\ unreadable' = unreadable \cup BlameFrom(Measured)
  /\ EndPid

AllRead ==
  /\ phase = "reads"
  /\ pid = 0
  /\ todo = {}
  /\ phase' = "done"
  /\ UNCHANGED <<host, asked, scope, named, known, targets, todo, pid, unread,
                 got, rows, unreadable, errors>>

SensorNext ==
  \/ CollectHost \/ CollectPids \/ CollectRoots \/ CollectFails
  \/ ReadConstants
  \/ \E p \in Pids : BeginPid(p)
  \/ \E f \in Files : ReadFile(f)
  \/ ReportPid \/ AllRead

Environment == phase # "done" /\ HostNext /\ UNCHANGED sensor

Next == SensorNext \/ Environment

Spec == Init /\ [][Next]_vars

-----------------------------------------------------------------------------
(* foldStartTimeReading of client.ts: a pid's start-qualified identity.    *)

StartRows(p)  == {r \in rows : r.pid = p /\ r.facet = "start_time"}
StartBlame(p) == {u \in unreadable : u.pid = p /\ u.facet = "start_time"}

\* Mutant of Identity: any unreadable row will do for an absent process.
IdentityAbsentIfBlamed(p) ==
  IF StartRows(p) # {} THEN [kind |-> "process", rows |-> StartRows(p)]
  ELSE IF StartBlame(p) # {} THEN [kind |-> "absent", rows |-> {}]
  ELSE [kind |-> "throws", rows |-> {}]

Identity(p) ==
  IF StartRows(p) # {} THEN [kind |-> "process", rows |-> StartRows(p)]
  ELSE IF \E u \in StartBlame(p) : u.errno = Gone
         THEN [kind |-> "absent", rows |-> {}]
  ELSE [kind |-> "throws", rows |-> {}]

-----------------------------------------------------------------------------
(* Properties                                                              *)

Done == phase = "done"

RowsOf(p, f)   == {r \in rows : r.pid = p /\ r.facet = f}
BlamesOf(p, f) == {u \in unreadable : u.pid = p /\ u.facet = f}
Lost(f)        == \E e \in errors : e.facet = f
Roots          == IF scope = "roots" THEN named ELSE {}
AtMostOne(S)   == \A a, b \in S : a = b

\* README "Honesty": blindness is output, not absence.  Every asked facet of
\* every pid is told once or blamed once, on the pid or on a source of the
\* host, and a facet that fails takes no other with it: a host constant that
\* fails (linux.rs:47-50) is an E row per facet, never a U row per process,
\* and no made-up fact.  Only a listed root is told and blamed at once: that
\* U row is its subtree's.
EveryAskAnswered ==
  Done => \A p \in targets \cup named, f \in asked :
    /\ AtMostOne(RowsOf(p, f)) /\ AtMostOne(BlamesOf(p, f))
    /\ Lost(f) => RowsOf(p, f) = {} /\ BlamesOf(p, f) = {}
    /\ \/ Lost(f)
       \/ RowsOf(p, f) # {} /\ (BlamesOf(p, f) = {} \/ (f = "proc" /\ p \in Roots))
       \/ RowsOf(p, f) = {} /\ BlamesOf(p, f) # {}
       \/ p \in Roots \ targets /\ BlamesOf(p, "proc") # {}

\* linux.rs:86-88: facets that share a proc file observe one copy of it.  What
\* stat tells of a pid is told of one process and read or lost as a whole.
SharedFileIsOneInstant ==
  \A p \in Pids : \A f, g \in Measured \cap (StatFacets \cup {"mem"}) :
    /\ asked \cap StatFacets # {}
    /\ RowsOf(p, f) # {}
    => /\ RowsOf(p, g) # {}
       /\ \A r \in RowsOf(p, f), t \in RowsOf(p, g) : r.of = t.of /\ r.born = t.born

\* A fact is of a process that bore its pid during the ask, whatever exits and
\* whichever pid is used again.
RowsAreTheirs ==
  \A r \in rows : r.of = r.pid /\ <<r.pid, r.born>> \in lived

\* client.ts:1053-1084: `undefined` is a dead or absent pid, nothing else, and
\* an identity is that of a process that was there.
IdentityIsTrue ==
  Done => \A p \in Pids :
    /\ Identity(p).kind = "absent" => p \in vacant
    /\ \A r \in Identity(p).rows : <<p, r.born>> \in lived

=============================================================================
