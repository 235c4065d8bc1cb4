--------------------------- MODULE SnapshotDarwin ---------------------------
(***************************************************************************)
(* `snapshot` of src/src/darwin.rs for the facets of processes: the mach   *)
(* timebase, one census of the host (kern.proc.all), the pids of the scope *)
(* taken from it, then for every pid what only the living process tells:   *)
(* its path, task, cwd and arguments, each read while processes exit and   *)
(* pids are used again.  Its retries on a growing table are modelled in    *)
(* SocketHoldersDarwin, which reads the same census; its --ports part in   *)
(* ListenersDarwin.                                                        *)
(***************************************************************************)
EXTENDS ProcessTable

CONSTANT
  Asks  \* the sets of facets a command line may name

Facets == {"proc", "mem", "start_time", "cpu_time", "uid", "cwd", "status",
           "argv"}

ASSUME AsksAssumption == Asks \subseteq (SUBSET Facets) \ {{}}

VARIABLES
  phase,       \* where the function is
  asked,       \* args.asked_facets()
  scope,       \* args.scope
  named,       \* the pids of --pids or --roots
  timebase,    \* read_mach_timebase() succeeded
  census,      \* process_table: the born of every listed pid, 0 if not listed
  parents,     \* the ppid of every listed pid
  targets,     \* wanted: pids whose facts are to be read
  todo,        \* targets not visited, then not begun yet
  pid,         \* the pid being read, 0 between two
  unread,      \* reads of it still to come
  got,         \* got[f]: what read f gave
  rows,        \* fact rows by part: pid, part and the process the fact is of
  unreadable,  \* U rows
  errors,      \* E rows
  moments      \* history: the process table at every instant so far

sensor == <<phase, asked, scope, named, timebase, census, parents, targets, todo,
            pid, unread, got, rows, unreadable, errors>>
vars   == <<host, sensor, moments>>

Gone    == 0   \* ESRCH
Refused == -1  \* EPERM, EINVAL, any other errno

Reads == {"path", "task", "cwd", "args_size", "args"}
Place == [path |-> 1, task |-> 2, cwd |-> 3, args_size |-> 4, args |-> 5]

\* A P row has a name of its own origin, and so has a STAT row its threads.
Parts  == Facets \cup {"name", "status_threads"}
Census == {"proc", "start_time", "uid", "status"}  \* parts the census tells

Readings == Nat \cup {Refused}
Nobody   == [p \in Pids |-> 0]

TypeOK ==
  /\ HostTypeOK
  /\ phase \in {"timebase", "census", "select", "reads", "done"}
  /\ asked \in Asks
  /\ scope \in {"host", "pids", "roots"}
  /\ named \subseteq Pids
  /\ timebase \in BOOLEAN
  /\ census \in [Pids -> Nat]
  /\ parents \in [Pids -> Pids \cup {0}]
  /\ targets \subseteq Pids
  /\ todo \subseteq targets
  /\ pid \in targets \cup {0}
  /\ unread \subseteq Reads
  /\ got \in [Reads -> Readings]
  /\ rows \subseteq [pid : targets, part : Parts, born : Nat \ {0}]
  /\ unreadable \subseteq
       [pid : Pids, facet : asked \cup {"proc", "status_threads"},
        errno : {Gone, Refused}]
  /\ errors \subseteq
       [source : {"mach_timebase_info", "kern_proc_all"}, facet : asked]
  /\ moments \subseteq [Pids -> Nat]

Init ==
  /\ HostInit
  /\ phase = "timebase"
  /\ asked \in Asks
  /\ scope \in {"host", "pids", "roots"}
  /\ named \in IF scope = "host" THEN {{}} ELSE (SUBSET Pids) \ {{}}
  /\ timebase = FALSE
  /\ census = Nobody
  /\ parents = Nobody
  /\ targets = {}
  /\ todo = {}
  /\ pid = 0
  /\ unread = {}
  /\ got = [f \in Reads |-> Gone]
  /\ rows = {}
  /\ unreadable = {}
  /\ errors = {}
  /\ moments = {born}

-----------------------------------------------------------------------------
(* The host-global constant and the census.                                *)

Blames(source, facets) == {[source |-> source, facet |-> f] : f \in facets}

\* Mutant of Timebase: its failure is told though nobody asked.
TimebaseAlways ==
  /\ phase = "timebase"
  /\ \E ok \in BOOLEAN :
       /\ timebase' = ok
       /\ errors' = IF ok THEN {} ELSE Blames("mach_timebase_info", {"cpu_time"})
  /\ phase' = "census"
  /\ UNCHANGED <<host, moments, asked, scope, named, census, parents, targets,
                 todo, pid, unread, got, rows, unreadable>>

\* Read if it is needed; its failure is one E row, never one U row per pid.
Timebase ==
  /\ phase = "timebase"
  /\ \E ok \in BOOLEAN :
       /\ timebase' = (ok /\ "cpu_time" \in asked)
       /\ errors' = IF ok THEN {}
                    ELSE Blames("mach_timebase_info", asked \cap {"cpu_time"})
  /\ phase' = "census"
  /\ UNCHANGED <<host, moments, asked, scope, named, census, parents, targets,
                 todo, pid, unread, got, rows, unreadable>>

\* Mutant of CensusFails: only the facets read from the table itself are lost.
CensusFailsSubset ==
  /\ phase = "census"
  /\ errors' = errors \cup Blames("kern_proc_all", asked \cap Census)
  /\ phase' = "done"
  /\ UNCHANGED <<host, moments, asked, scope, named, timebase, census, parents,
                 targets, todo, pid, unread, got, rows, unreadable>>

\* kern_proc_all fails or does not decode: the whole ask is lost.
CensusFails ==
  /\ phase = "census"
  /\ errors' = errors \cup Blames("kern_proc_all", asked)
  /\ phase' = "done"
  /\ UNCHANGED <<host, moments, asked, scope, named, timebase, census, parents,
                 targets, todo, pid, unread, got, rows, unreadable>>

Listed(table) == {p \in Pids : table[p] # 0}

\* A parent is older than its child, whatever their pids.
Ancestries == {f \in [Pids -> Pids \cup {0}] :
                 \E age \in [Pids -> 1..Cardinality(Pids)] :
                   \A p \in Pids : f[p] # 0 => age[f[p]] < age[p]}

\* read_process_table, and select_pids: every listed pid, the named ones
\* listed or not, or the listed roots, whose descendants Visit adds.
ReadCensus ==
  /\ phase = "census"
  /\ census' = born
  /\ parents' \in IF scope = "roots" THEN Ancestries ELSE {Nobody}
  /\ targets' = CASE scope = "host"  -> Living
                  [] scope = "pids"  -> named
                  [] scope = "roots" -> named \cap Living
  /\ todo' = targets'
  /\ unreadable' = IF scope = "roots"
                     THEN {[pid |-> p, facet |-> "proc", errno |-> Gone] :
                             p \in named \ Living}
                     ELSE {}
  /\ phase' = IF scope = "roots" THEN "select" ELSE "reads"
  /\ UNCHANGED <<host, moments, asked, scope, named, timebase, pid, unread, got,
                 rows, errors>>

\* subtree: one queued pid, whose children not seen yet are queued.
Visit(p) ==
  /\ phase = "select"
  /\ p \in todo
  /\ LET kids == {c \in Listed(census) : parents[c] = p} \ targets
     IN  /\ targets' = targets \cup kids
         /\ todo' = (todo \ {p}) \cup kids
  /\ UNCHANGED <<host, moments, phase, asked, scope, named, timebase, census,
                 parents, pid, unread, got, rows, unreadable, errors>>

AllVisited ==
  /\ phase = "select"
  /\ todo = {}
  /\ todo' = targets
  /\ phase' = "reads"
  /\ UNCHANGED <<host, moments, asked, scope, named, timebase, census, parents,
                 targets, pid, unread, got, rows, unreadable, errors>>

-----------------------------------------------------------------------------
(* The loop over the pids.                                                 *)

ReadsNeeded(p) ==
  {f \in Reads : \/ f = "path" /\ "proc" \in asked /\ p \in Listed(census)
                 \/ f = "task" /\ asked \cap {"mem", "cpu_time", "status"} # {}
                 \/ f = "cwd" /\ "cwd" \in asked
                 \/ f \in {"args_size", "args"} /\ "argv" \in asked}

BeginPid(p) ==
  /\ phase = "reads"
  /\ pid = 0
  /\ p \in todo
  /\ pid' = p
  /\ todo' = todo \ {p}
  /\ unread' = ReadsNeeded(p)
  /\ UNCHANGED <<host, moments, phase, asked, scope, named, timebase, census,
                 parents, targets, got, rows, unreadable, errors>>

\* proc_pidpath, read_task, read_cwd, and read_argv's two sysctls: of whoever
\* bears the pid now, or an errno, which a process that is not quite dead (a
\* zombie has no task) gives as well.  Without a size there is no second read.
Read(f) ==
  /\ pid # 0
  /\ f \in unread
  /\ \A g \in unread : Place[f] <= Place[g]
  /\ \E b \in {born[pid], Gone} \cup IF pid \in Living THEN {Refused} ELSE {} :
       LET fails == f = "args_size" /\ b \in {Gone, Refused}
       IN  /\ got' = IF fails THEN [got EXCEPT !["args"] = b]
                              ELSE [got EXCEPT ![f] = b]
           /\ unread' = unread \ (IF fails THEN {f, "args"} ELSE {f})
  /\ UNCHANGED <<host, moments, phase, asked, scope, named, timebase, census,
                 parents, targets, todo, pid, rows, unreadable, errors>>

\* Mutant of Told: the table is looked at again.
ToldAfresh(part) ==
  CASE part \in Census -> born[pid]
    [] part = "name" -> IF got["path"] \in {Gone, Refused} THEN born[pid]
                        ELSE got["path"]
    [] part \in {"mem", "cpu_time", "status_threads"} -> got["task"]
    [] part = "cwd" -> got["cwd"]
    [] part = "argv" -> got["args"]

\* What each part is told of: the one census, or the reads of this pid.  A
\* name falls back on the census' comm.
Told(part) ==
  CASE part \in Census -> census[pid]
    [] part = "name" -> IF got["path"] \in {Gone, Refused} THEN census[pid]
                        ELSE got["path"]
    [] part \in {"mem", "cpu_time", "status_threads"} -> got["task"]
    [] part = "cwd" -> got["cwd"]
    [] part = "argv" -> got["args"]

Readable(part) == Told(part) \notin {Gone, Refused}

Measured == IF timebase THEN asked ELSE asked \ {"cpu_time"}

\* Facets with a fact row; odd: a state byte the program does not know.
Facts(odd) == {f \in Measured \ odd : Readable(f)}

\* The parts of a row that are told apart from it, if the row is there.
RowOf       == [name |-> "proc", status_threads |-> "status"]
Extras(odd) == {x \in DOMAIN RowOf : RowOf[x] \in Facts(odd)}

Gains(odd)  == Facts(odd) \cup {x \in Extras(odd) : Readable(x)}
Losses(odd) == (Measured \cup Extras(odd)) \ Gains(odd)

\* One fact row or one U row per measured facet.  A task that could not be read
\* costs a STAT row only its threads, by a U row of their own.
Report(odd) ==
  /\ pid # 0
  /\ unread = {}
  /\ rows' = rows \cup {[pid |-> pid, part |-> x, born |-> Told(x)] : x \in Gains(odd)}
  /\ unreadable' = unreadable \cup
       {[pid |-> pid, facet |-> x,
         errno |-> IF Readable(x) THEN Refused ELSE Told(x)] : x \in Losses(odd)}
  /\ pid' = 0
  /\ got' = [f \in Reads |-> Gone]
  /\ UNCHANGED <<host, moments, phase, asked, scope, named, timebase, census,
                 parents, targets, todo, unread, errors>>

ReportPid == \E odd \in SUBSET (asked \cap {"status"}) : Report(odd)

AllRead ==
  /\ phase = "reads"
  /\ pid = 0
  /\ todo = {}
  /\ phase' = "done"
  /\ UNCHANGED <<host, moments, asked, scope, named, timebase, census, parents,
                 targets, todo, pid, unread, got, rows, unreadable, errors>>

SensorNext ==
  \/ Timebase \/ ReadCensus \/ CensusFails
  \/ \E p \in Pids : Visit(p) \/ BeginPid(p)
  \/ AllVisited
  \/ \E f \in Reads : Read(f)
  \/ ReportPid \/ AllRead

\* The census is the first look at the processes, so whatever the host did
\* before it is a choice of the initial state; select_pids looks at none.
Environment ==
  /\ phase = "reads"
  /\ HostNext
  /\ moments' = moments \cup {born'}
  /\ UNCHANGED sensor

Next == SensorNext \/ Environment

Spec == Init /\ [][Next]_vars

-----------------------------------------------------------------------------
(* Properties                                                              *)

Done == phase = "done"

RowsOf(p, x)   == {r \in rows : r.pid = p /\ r.part = x}
BlamesOf(p, x) == {u \in unreadable : u.pid = p /\ u.facet = x}
Lost(f)        == \E e \in errors : e.facet = f
AtMostOne(S)   == \A a, b \in S : a = b

\* A part told once, or blamed once, and not both.
Answered(p, x) ==
  /\ AtMostOne(RowsOf(p, x)) /\ AtMostOne(BlamesOf(p, x))
  /\ RowsOf(p, x) = {} <=> BlamesOf(p, x) # {}

\* The least set with the listed roots that is closed under the census'
\* children.
InSubtrees(p) ==
  p \in Listed(census) /\ \A S \in SUBSET Pids :
    (/\ named \cap Listed(census) \subseteq S
     /\ \A c \in Listed(census) : parents[c] \in S => c \in S) => p \in S

InScope(p) == CASE scope = "host"  -> p \in Listed(census)
                [] scope = "pids"  -> p \in named
                [] scope = "roots" -> InSubtrees(p)

\* README "Honesty", darwin.rs:226-236 and 294-305: no ask collapses to an
\* empty answer.  A lost source is an E row for each facet it costs and no row
\* of any process; every other facet of every pid in scope is told or blamed,
\* once, and so are the threads of a status that is told.  A missing root is
\* blamed, and nothing out of scope is mentioned.
EveryAskAnswered ==
  Done => \A p \in Pids :
    /\ \A f \in asked :
         IF Lost(f) THEN RowsOf(p, f) = {} /\ (f # "proc" => BlamesOf(p, f) = {})
         ELSE InScope(p) => Answered(p, f)
    /\ RowsOf(p, "status") # {} => Answered(p, "status_threads")
    /\ p \in named => p \in targets \/ Lost("proc") \/ BlamesOf(p, "proc") # {}
                        \/ \A f \in asked : Lost(f)
    /\ (\E x \in Parts : RowsOf(p, x) # {}) => InScope(p)

\* What the census tells, of all pids, is true of one instant of the ask: the
\* processes it names lived together then, and the pids it says are free were.
\* What it does not tell was read of a process that bore the pid during the
\* ask, if not of the same one.
FactsAreTheirs ==
  /\ \E m \in moments :
       /\ \A r \in rows : r.part \in Census => m[r.pid] = r.born
       /\ \A u \in unreadable :
            u.facet \in Census /\ u.errno = Gone => m[u.pid] = 0
  /\ \A r \in rows : <<r.pid, r.born>> \in lived

=============================================================================
