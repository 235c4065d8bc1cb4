---------------------------- MODULE SubtreeWalk ----------------------------
(***************************************************************************)
(* `collect_pids` of src/src/linux.rs for `--roots`: which pids one        *)
(* snapshot is about.  Every read of /proc is a step of its own and the    *)
(* tree moves between any two of them.                                     *)
(***************************************************************************)
EXTENDS ProcessTree, Sequences

CONSTANT
  MaxRoots  \* bound on the length of the asked root list

ASSUME RootsAssumption == MaxRoots \in Nat

VARIABLES
  phase,      \* where the function is
  asked,      \* the roots, in the order of the flag
  next,       \* index of the next root
  seen,       \* pids met so far
  listed,     \* listed[p]: how often p is in `out`
  q,          \* descend: pids whose children are still to be read
  pid,        \* descend: the pid being read
  tasks,      \* children_of: threads listed and not read yet
  kids,       \* children_of: children read so far
  unreadable, \* pids of the U proc rows
  refused     \* history: a task directory or children file of a process
              \* that lived did not open (EMFILE, EACCES under hidepid, a
              \* kernel without children files)

walker == <<phase, asked, next, seen, listed, q, pid, tasks, kids, unreadable,
            refused>>
vars   == <<tree, walker>>

TypeOK ==
  /\ TreeTypeOK
  /\ phase \in {"roots", "walk", "tasks", "done"}
  /\ asked \in Seq(Pids)
  /\ next \in 1..Len(asked) + 1
  /\ seen \subseteq Pids
  /\ listed \in [Pids -> Nat]
  /\ q \subseteq Pids
  /\ pid \in Pids \cup {0}
  /\ tasks \subseteq Tids
  /\ kids \subseteq Pids
  /\ unreadable \subseteq Pids
  /\ refused \in BOOLEAN

Init ==
  /\ TreeInit
  /\ phase = "roots"
  /\ asked \in UNION {[1..n -> Pids] : n \in 1..MaxRoots}
  /\ next = 1
  /\ seen = {}
  /\ listed = [p \in Pids |-> 0]
  /\ q = {}
  /\ pid = 0
  /\ tasks = {}
  /\ kids = {}
  /\ unreadable = {}
  /\ refused = FALSE

-----------------------------------------------------------------------------
(* collect_pids: the roots, one after the other.                           *)

Root == asked[next]

AtRoot == phase = "roots" /\ next <= Len(asked)

SkipRoot ==
  /\ AtRoot
  /\ Root \in seen
  /\ next' = next + 1
  /\ UNCHANGED <<tree, phase, asked, seen, listed, q, pid, tasks, kids,
                 unreadable, refused>>

\* Mutant of MissingRoot: blames the pid the walk read last.
MissingRootBlamesPid ==
  /\ AtRoot
  /\ Root \notin seen \cup Alive
  /\ seen' = seen \cup {Root}
  /\ unreadable' = unreadable \cup {pid}
  /\ next' = next + 1
  /\ UNCHANGED <<tree, phase, asked, listed, q, pid, tasks, kids, refused>>

MissingRoot ==
  /\ AtRoot
  /\ Root \notin seen \cup Alive
  /\ seen' = seen \cup {Root}
  /\ unreadable' = unreadable \cup {Root}
  /\ next' = next + 1
  /\ UNCHANGED <<tree, phase, asked, listed, q, pid, tasks, kids, refused>>

EnterRoot ==
  /\ AtRoot
  /\ Root \in Alive \ seen
  /\ seen' = seen \cup {Root}
  /\ listed' = [listed EXCEPT ![Root] = @ + 1]
  /\ q' = {Root}
  /\ phase' = "walk"
  /\ UNCHANGED <<tree, asked, next, pid, tasks, kids, unreadable, refused>>

AllRoots ==
  /\ phase = "roots"
  /\ next > Len(asked)
  /\ phase' = "done"
  /\ UNCHANGED <<tree, asked, next, seen, listed, q, pid, tasks, kids,
                 unreadable, refused>>

-----------------------------------------------------------------------------
(* descend: the order of q follows the children files, so it is any order. *)

OpenTasks(p) ==
  /\ phase = "walk"
  /\ p \in q \cap Alive
  /\ q' = q \ {p}
  /\ pid' = p
  /\ tasks' = threads[p]
  /\ kids' = {}
  /\ phase' = "tasks"
  /\ UNCHANGED <<tree, asked, next, seen, listed, unreadable, refused>>

\* children_of answers Ok(empty) when the task directory does not open,
\* because the pid is gone or for any other reason.
NoTasks(p) ==
  /\ phase = "walk"
  /\ p \in q
  /\ q' = q \ {p}
  /\ refused' = (refused \/ p \in Alive)
  /\ UNCHANGED <<tree, phase, asked, next, seen, listed, pid, tasks, kids,
                 unreadable>>

\* Mutant of ReadTask: the file of a thread of that name, whosever it is.
ReadTaskOfAnyone(t) ==
  /\ phase = "tasks"
  /\ t \in tasks
  /\ tasks' = tasks \ {t}
  /\ kids' = kids \cup {c \in Alive : parent[c][2] = t}
  /\ UNCHANGED <<tree, phase, asked, next, seen, listed, q, pid, unreadable,
                 refused>>

\* One children file; a thread that is gone adds nothing.
ReadTask(t) ==
  /\ phase = "tasks"
  /\ t \in tasks
  /\ tasks' = tasks \ {t}
  /\ kids' = kids \cup ChildrenOf(pid, t)
  /\ UNCHANGED <<tree, phase, asked, next, seen, listed, q, pid, unreadable,
                 refused>>

\* A children file that is there and does not open adds nothing either.
TaskRefused(t) ==
  /\ phase = "tasks"
  /\ t \in tasks \cap threads[pid]
  /\ tasks' = tasks \ {t}
  /\ refused' = TRUE
  /\ UNCHANGED <<tree, phase, asked, next, seen, listed, q, pid, kids,
                 unreadable>>

\* Mutant of ListingFails: the error is flattened away.
ListingFailsSilently ==
  /\ phase = "tasks"
  /\ next' = next + 1
  /\ q' = {}
  /\ phase' = "roots"
  /\ UNCHANGED <<tree, asked, seen, listed, pid, tasks, kids, unreadable, refused>>

\* An entry fails while listing: the rest of this root is given up.
ListingFails ==
  /\ phase = "tasks"
  /\ unreadable' = unreadable \cup {Root}
  /\ next' = next + 1
  /\ q' = {}
  /\ phase' = "roots"
  /\ UNCHANGED <<tree, asked, seen, listed, pid, tasks, kids, refused>>

\* Mutant of Absorb: does not ask whether the child was met before.
AbsorbAll ==
  /\ phase = "tasks"
  /\ tasks = {}
  /\ listed' = [p \in Pids |-> listed[p] + IF p \in kids THEN 1 ELSE 0]
  /\ q' = q \cup (kids \ seen)
  /\ seen' = seen \cup kids
  /\ phase' = "walk"
  /\ UNCHANGED <<tree, asked, next, pid, tasks, kids, unreadable, refused>>

\* Mutant of Absorb: every child is queued, met before or not.
AbsorbAgain ==
  /\ phase = "tasks"
  /\ tasks = {}
  /\ listed' = [p \in Pids |-> listed[p] + IF p \in kids \ seen THEN 1 ELSE 0]
  /\ q' = q \cup kids
  /\ seen' = seen \cup kids
  /\ phase' = "walk"
  /\ UNCHANGED <<tree, asked, next, pid, tasks, kids, unreadable, refused>>

\* The loop over children_of(pid): only the new ones are listed and queued.
Absorb ==
  /\ phase = "tasks"
  /\ tasks = {}
  /\ listed' = [p \in Pids |-> listed[p] + IF p \in kids \ seen THEN 1 ELSE 0]
  /\ q' = q \cup (kids \ seen)
  /\ seen' = seen \cup kids
  /\ phase' = "walk"
  /\ UNCHANGED <<tree, asked, next, pid, tasks, kids, unreadable, refused>>

RootWalked ==
  /\ phase = "walk"
  /\ q = {}
  /\ next' = next + 1
  /\ phase' = "roots"
  /\ UNCHANGED <<tree, asked, seen, listed, q, pid, tasks, kids, unreadable,
                 refused>>

WalkNext ==
  \/ SkipRoot \/ MissingRoot \/ EnterRoot \/ AllRoots
  \/ \E p \in Pids : OpenTasks(p) \/ NoTasks(p)
  \/ \E t \in Tids : ReadTask(t) \/ TaskRefused(t)
  \/ ListingFails \/ Absorb \/ RootWalked

Environment == phase # "done" /\ TreeNext /\ UNCHANGED walker

Next == WalkNext \/ Environment

Spec == Init /\ [][Next]_vars

-----------------------------------------------------------------------------
(* Properties                                                              *)

Done   == phase = "done"
Roots  == {asked[n] : n \in 1..Len(asked)}
InOut  == {p \in Pids : listed[p] > 0}

\* However the roots overlap and the tree moves, no pid is walked or reported
\* twice: `seen` is the only guard, the row blocks are not deduplicated.
NoPidTwice == \A p \in Pids : listed[p] <= 1

\* A root is either walked or blamed.
EveryRootAnswered == Done => Roots \subseteq InOut \cup unreadable

\* However the roots overlap, each is answered and nothing is answered twice.
RootsAnsweredOnce == NoPidTwice /\ EveryRootAnswered

\* Every listed pid that is no root was, during the walk, the child of
\* another listed pid.
ListedWasBegotten ==
  \A c \in InOut \ Roots : \E p \in InOut : <<p, c>> \in begot

\* The document has every process that was tied to a root, parent by parent,
\* for the whole of the walk.
SubtreeWhole == \A d \in Descent(kept) : d[1] \in Roots => d[2] \in InOut

\* Only a U row, or a refusal, may mean that something is missing: threads
\* that come and go, reparented neighbours and reused pids lose nothing.
WholeUnlessRefused == Done /\ unreadable = {} /\ ~refused => SubtreeWhole

\* linux.rs:428-430 promises more: what hides descendants that still exist
\* travels up as the root's U row "rather than shrinking the subtree silently".
NothingLostSilently == Done /\ unreadable = {} => SubtreeWhole

Shrinks(new, old) == new \subseteq old /\ new # old

\* One step less to go, most weighty first: roots to look at, pids not met,
\* pids to descend into, the directory that is open, its files.
Closer ==
  \/ ~Done /\ Done'
  \/ next < next'
  \/ next' = next /\ Shrinks(Pids \ seen', Pids \ seen)
  \/ UNCHANGED <<next, seen>> /\ Shrinks(q', q)
  \/ UNCHANGED <<next, seen, q>> /\ phase = "tasks" /\ phase' = "walk"
  \/ UNCHANGED <<next, seen, q, phase>> /\ Shrinks(tasks', tasks)

\* The walk does not depend on the host for its end: every step of it leaves
\* less to do, and no step of the host gives any of it back.  A host that goes
\* on reusing pids below each other could lead a walk that descends into what
\* it has met before round for ever.
WorkRunsOut == [][IF UNCHANGED tree THEN Closer ELSE UNCHANGED walker]_vars

=============================================================================
