# osfacts in TLA+

`osfacts` answers three questions about a Unix host: what a set of processes looks like (`snapshot`), who
holds one unix socket path (`socket-holders`), and how the machine is doing (`host`).  A Rust binary
(`src/src/`) reads `/proc` or the darwin sysctls and writes one versioned document; a TypeScript client
(`src/client-ts/src/`) spawns it, classifies how it ended, parses the document and folds it into an answer.
What is hard about it is honesty: the host moves between any two reads, any read may be refused, and none of
that may come out as an affirmative answer.  A supervisor that is told `none` binds the path; one that is told
"absent" reuses what a process guarded.

This directory holds the specifications of that honesty, the TLC configurations that check them on small
hosts, and TLAPS proofs for every host.  `PROJECT.json` maps every definition to the source lines it models.

## Reading guide

| module | models | proved in |
| --- | --- | --- |
| `UnixSockets` | host: processes, descriptors, sockets of one path (external) | `UnixSocketsProofs` (lemmas) |
| `Occupancy` | abstract: what one `socket-holders` document promises | - |
| `HoldersDocument` | `schema.rs`: the `socket-holders` document, its facts, its exit code | - |
| `SocketHoldersLinux` | `linux.rs`: `socket_holders`, the fd walk and its threads | `SocketHoldersLinuxProofs` |
| `SocketHoldersDarwin` | `darwin.rs`: `socket_holders`, `kern_proc_all`, `socket_fds` | `SocketHoldersDarwinProofs` |
| `OccupancyAsk` | `client.ts`, `childFailure.ts`, `main.rs`: one whole ask of a supervisor | `AskProofs` |
| `ProcessTree` | host: processes, threads, children (external) | - |
| `SubtreeWalk` | `linux.rs`: `collect_pids`, `descend`, `children_of` for `--roots` | `SubtreeWalkProofs` |
| `ProcessTable` | host: which process a pid names (external) | - |
| `SnapshotLinux` | `linux.rs`: `snapshot` and its process facets; `foldStartTimeReading` of `client.ts` | `SnapshotLinuxProofs` |
| `ListenersLinux` | `linux.rs`: `--ports`, tables, walk, attribution | `ListenersProofs` |
| `SnapshotDarwin` | `darwin.rs`: `snapshot`, its census, `select_pids`, `subtree`, the reads of a pid | `SnapshotDarwinProofs` |
| `PcbList` | `pcblist.rs`, `decode.rs`: the record loop, the union with the claims, address slots | `ListenersProofs` |
| `ListenersDarwin` | `darwin.rs`: `--ports`, the fd walk, the host's table, `attribute_host_listeners` | `ListenersProofs` |
| `CommandLine` | `cli.rs`: `parse` and its three verbs | `AskProofs` |
| `HostVerb` | `linux.rs`, `darwin.rs`: `host`, reading by reading | `AskProofs` |
| `Osfacts` | `main.rs`, `schema.rs`: dispatch, take, emit, exit, over `CommandLine` and `HostVerb` | `AskProofs` |
| `MC...` | constants for TLC | - |

Conventions.  A read of the operating system is one step; what the program does between two reads without
looking at the host is part of the step before or after it.  `Next` is the program's own next-state relation
(`SensorNext`, `WalkNext`, ...) or a step of the host (`Environment`), which stops when the document is
finished.  A definition commented "Mutant of X" is a plausible bug in X; it belongs to no specification, and
shows that the property it is listed with in `PROJECT.json` can tell the bug from the code.

## Inventory

| component | state it keeps | operations | hard behaviours | correct when |
| --- | --- | --- | --- | --- |
| linux socket-holders sensor (`linux.rs`, `unix_socket.rs`) | inodes of the path, pid list, per-thread scans, the document | read table, list pids, walk fds in a pool, name holders | the halves of the answer are of different instants; refused reads; threads | nobody / unclaimed / blind / holders never mistaken for each other |
| darwin socket-holders sensor (`darwin.rs`) | process table, attempts, per-pid listing | probe and read table with retries, list fds, look at each | table outgrows its room, lists cut short, descriptors reused | claims true; nothing found is blindness |
| documents (`schema.rs`) | rows | push, normalize, exit code, write | deduplicated blocks, unreadable rows that cannot be switched off | blind with no fact exits 1, with facts 0 |
| entry (`main.rs`) | none | dispatch, take, emit, exit | a stdout that breaks in the middle | what says that nobody is known to hold a path is whole, or is not believed |
| client ask (`client.ts`, `childFailure.ts`) | the child, its deadline, the caller's fiber | spawn, time out, interrupt, classify, parse, fold | wedged child, truncation, another binary's format, answer on the heels of the deadline | settles in time, never free or nameless on part of a document, no orphan |
| linux subtree (`collect_pids`, `descend`, `children_of`) | `seen`, worklist, listed pids, U rows | next root, open task dir, read children file, absorb | forks, dying threads, reparenting, reused pids, overlapping roots, listing errors | nobody twice, every root answered, nothing lost without being said |
| linux process facets (`snapshot`, `read_*`) | facets lost, file copies of the pid in hand, rows | collect, read constants, read files, report | a pid exits or changes process between two files; one facet fails | each asked facet told or blamed once, by the right process |
| linux listeners (`load_listeners`, `socket_claims`) | listeners, claims, rows | read `tcp` and `tcp6`, walk fds, attribute | listeners handed over during the walk, repeated table rows, results of threads in any order | one row each, attribution true and deterministic |
| identity (`foldStartTimeReading`) | none | fold a reading of one pid | a refused read looks like an absent process | `undefined` only for a dead pid |
| darwin process facets (`darwin.rs` 212-413, 585-868) | timebase, one process table, rows | read timebase and census, select pids, subtree over the table, path/task/cwd/argv per pid | table and per-pid calls are of different instants; a lost source costs every pid | told once, blamed once, or lost by an E row that says so; the census' facts of one instant |
| darwin listeners (`darwin.rs`, `pcblist.rs`, `decode.rs`) | claims by port and address, the pending record, rows | walk fds, read and decode the table, union | two sources key a socket differently; records in disorder; a table withheld | no listener lost without an E row, claims true of their key |
| host verb (`linux.rs` 314-366 and 688-878, `darwin.rs` 497-565 and 972-1176) | the kernel's buffer | read uptime, load, memory, cpus, networks, disk | each source may fail alone; cores matched over two files; a buffer to give back | each asked facet whole or lost once; cpus of one instant |
| command line (`cli.rs`) | flags | parse | scopes exclude each other, lists replace each other, empty facet set | the ask is what was written |
| client parsers and sync twins, not modelled (`client.ts` 363-900, 954-1042, 1143-1225) | none | parse rows, name facets, run synchronously | unknown rows and versions, twins that drift apart | no unknown row is dropped silently |

How they meet: `main.rs` parses the command line, calls one function of the platform module, normalizes its
document and writes it; there is no shared state but the file table of the process and the scoped threads of the
fd walk (`linux.rs:662-685`), which share the list of pids and nothing else.  The client and the binary share
a pipe, an exit status and a signal.  Everything shares the host, which nobody locks.

## The host (external modules)

None of `UnixSockets`, `ProcessTree`, `ProcessTable` is osfacts code: they are what the code reads, as far as
the way it reads shows.  Each keeps a *history* of the ask, since an answer made of several instants can only be
judged against all of them: `ever` and `sighted` (held or bound at some instant), `steady` and `lasting` (held by
an inspectable process, or bound, at every instant), `gap` (the path was free at some instant), `begot` and `kept` (parent edges at some and
at every instant), `lived` and `vacant` (which process a pid named, and when it named none); `SnapshotDarwin` keeps
`moments`, every process table there was, `ListenersDarwin` keeps `kept`, who held what throughout, and `HostVerb` the
cores on line at every instant; `SocketHoldersLinux` keeps `present`, the processes that were there at every instant.

`UnixSockets` binds, forks, closes, passes descriptors (`Send`, `Receive`: a socket may be in flight, held by
nobody), exits, and changes credentials (a process whose `/proc` is denied).  Pids may be reused.  `MaxEvents`
bounds the number of host steps in a behaviour; the proofs leave it, like every other constant, arbitrary.

## The models

**`SocketHoldersLinux`.** Phases `table`, `pids`, `walk`, `names`, `done` follow `socket_holders`
(`linux.rs:234-311`).  `ReadBucket` reads the part of `/proc/net/unix` the kernel keeps consistent: a
`seq_file` is one instant within a hash bucket only, and the code reads it by many `read(2)` calls.
`ParseTable` is the decision the whole verb rests on (`linux.rs:251-268`): no match is an empty document, which is sound of
one socket and not of the path (`AbsenceWasReal`, a finding).
`ListNextPid`/`ListEnds` read `/proc` in ascending order; `ListFds`, `ReadLink`, `ScanEnds` are the walk of one
pid by a worker of the pool, each chunk in order and chunks side by side; `Rows` joins and builds the H rows;
`ReadName` is `--procs`.  Failing reads are `TableFails`, `ListFails`, `ListFdsFails`; a failed walk of one pid
(`linux.rs:281-287`) is skipped, as the code does.

**`SocketHoldersDarwin`.** `ProbeTable`, `ReadTable`, `TableGrew`, `TableFails` are `kern_proc_all` with its
three attempts; `ProbeFds`, `ListFds`, `LookAtFd`, `NoMatch` the walk, where a list that outgrew its slack is
cut without an error (`cut`); `Rows` the decision of `darwin.rs:452-494`.

**`Occupancy`** is the promise of both: one `Answer` is given, once, at any moment, and `TrueOfAsk`.  Two
constants say what the platform can see.  Linux implements it with both, darwin with neither: darwin must never
say `none` or `unclaimed`.

**`OccupancyAsk`** extends `Occupancy` with everything between the sensor and the supervisor.  The build the path
names is part of the initial state: `current`, `older` (knows no such verb: exit 2), `foreign` (another format),
`missing`.  `Spawn`, `Sense`, `Spill`, `Flush`, `Finish`, `WriteFails`, `Die` are the child.  It writes through one buffer
of 8 KiB that is flushed once (`main.rs:88-106`): only a document longer than that is on the pipe in parts (`Spill`), and
only holders make it so long; `wire` is what the client can read.  `WriteFails` exits 1 with what was out by then, or with
more, since dropping the buffer tries once more.  `Deadline`, `Interrupt`, `Deliver` are node and Effect.  `Deliver` is `failureDocument`, the
version check and `foldSocketOccupancy` at once, for node hands over stdout, status and `killed` in one callback.

**`SubtreeWalk`.** `EnterRoot`, `SkipRoot`, `MissingRoot`, `AllRoots` are the loop of `collect_pids`;
`OpenTasks`, `NoTasks`, `ReadTask`, `TaskRefused`, `ListingFails` are `children_of`; `Absorb` and `RootWalked`
are `descend`.  The tree forks, starts and ends threads and lets orphans be adopted between any two of them.

**`SnapshotLinux`.** `CollectHost`, `CollectPids`, `CollectRoots`, `CollectFails` set the pids of the three
scopes (for `--roots`, any result `SubtreeWalk` can give is allowed); `ReadConstants` reads boot time, clock tick and page
size, and drops the facets a lost one costs; per pid `BeginPid`, `ReadFile` for each file the asked facets need, and
`ReportPid`, which turns the copies into rows and U rows.  `Identity` is `foldStartTimeReading`.

**`ListenersLinux`.** `ReadTcp`, `ReadTcp6`, `TableFails` are `load_listeners` (either table lost is all
lost); `Starts` to `ScanEnds` the walk; `WalkEnds`, `Claim`, `Rows` the attribution in the order of the pid list
(`linux.rs:187-214`).  The sockets of `UnixSockets` stand for listening sockets: they are passed on the same way.

**`SnapshotDarwin`.** `Timebase`, `ReadCensus` and `CensusFails` are the two sources all pids share, whose loss is an E row
for each facet it costs (`darwin.rs:226-305`).  `ReadCensus` selects the pids too: `select_pids` looks at the table it was
given and never at the host again, so the census and everything drawn from it are of one instant.  `Visit` and
`AllVisited` are `subtree`, over any ancestry in which a parent is older than its child.  Per pid, `BeginPid`, `Read`
(`proc_pidpath`, `read_task`, `read_cwd`, the two sysctls of `read_argv`) and `ReportPid`, in which a name falls back on the
census and a `STAT` row is kept without its threads.

**`PcbList`, `ListenersDarwin`.** A record of `net.inet.tcp.pcblist_n` is its kind, port and IP version flags; `Decode` is one
turn of the loop and `Decoded` folds it over a buffer, as a recursive function.  `Slot` is the descriptor walk's rule for the
bind address (family first, then flags) and `TableSlot` the table's (flags alone).  `ProbeFds`, `ReadFds`, `LookAtFd`,
`PidEnds` are the walk; `ReadTable` enumerates what the kernel may hand over (any order, any sockets withheld, a length
that does not fit, no closing record), `HostTableFails` is the sysctl's errno, and both end in `Attributed`, the union.

**`CommandLine`, `HostVerb`, `Osfacts`.** `Parse` folds the arguments of a verb as `cli.rs` loops over them.  `ReadFacet` is one
reading of `host` with every source it may lose; the cpus are several steps: `ReadMetadata` and `ReadStat` on linux, with
cores going on and off line in between (`Plug`), `ReadModel`, `TakeBuffer` and `UseBuffer` on darwin.  `Osfacts` is `main`:
`ParseArgs`, the host sensor in full, `TakeOther` for the other verbs (what any of their documents may hold), `Emit` with
a stdout that may break after any block, `Version` for what is refused or asked for help.

## What is checked

Every action and disjunct is fired by some passing run.  `CHECK_DEADLOCK FALSE` is given where the system really
stops: a verb that has written its document, an ask that has settled.

| run | instance | shows |
| --- | --- | --- |
| `linux_path` | 2 pids, 2 sockets in 2 buckets, 2 host events, one pid per worker | `UnclaimedWasSearched`, `EveryHolderNamedOnce`; it refines `Occupancy` (which has absence and claims) and `Terminates` |
| `linux_pool` | 4 pids on at most 2 threads, 1 bucket, 1 event | `SteadyHolderClaimed` |
| `linux_absence` | as `linux_path` | finding: `AbsenceWasReal` fails |
| `darwin_path` | 2 pids, 2 sockets, 2 events, no slack, 2 attempts | `SteadyHolderClaimed`, refinement of `Occupancy`, `Terminates` |
| `ask_linux` | 2 pids, 1 socket, 2 events, all builds, a stdout that may break | `FreeIsProof`, `HeldIsTrue`, `OnlyWholeDocuments`, `WholeDocumentIsHeard`, `AskSettles`, `NoOrphan` |
| `subtree_path` | 3 pids, 2 threads each, any list of at most 2 roots, 2 events, any open refused | `RootsAnsweredOnce`, `ListedWasBegotten`, `WholeUnlessRefused`, `WorkRunsOut` |
| `subtree_refused` | 3 pids, 1 thread, no event | finding: `NothingLostSilently` fails |
| `snapshot_path` | 2 pids, 2 exits or reuses, every scope, 5 facet sets | `EveryAskAnswered`, `SharedFileIsOneInstant`, `RowsAreTheirs`, `IdentityIsTrue` |
| `listeners` | 2 pids, 2 listeners of different families, 2 events, rows listed up to twice | `EveryListenerOnce`, `AttributionIsTrue` |
| `snapshot_darwin` | 3 pids of any ancestry, 2 exits or reuses, every scope, 4 facet sets | `EveryAskAnswered`, `FactsAreTheirs` |
| `listeners_darwin` | 2 pids; on one port a dual-stack listener, an IPv4 one and a connection of it; 1 event, no slack | `NoListenerLostSilently`, `ClaimsAreTrue` |
| `commands` | every command line of a verb with up to 3 of the arguments of `MCOsfacts`, 2 cores plugged up to twice | `AskIsAsWritten`, `HostAnswered`, `BufferReturned`, `OutcomeIsHonest` |

Every module with a type invariant has a run that checks it.

*Why these bounds are enough.*  Two pids are what one handover needs, and two host events are what a
bind behind and a close ahead of a read need; two sockets in two buckets make the table not one instant.
Three processes make a child between a root and a grandchild, and a second root above or below the first; two
threads make a thread that dies while another of the same process is read; two events let a pid exit and come back
below one of its own descendants.  Four pids on two threads make
chunks longer than one, an uneven last chunk and two chunks at once.  The slack of 0 makes
the first host step overflow, instead of the seventeenth.  The five facet sets need every file, share `stat`,
take `mem` from `stat`'s copy or from `statm`, or read no `stat` at all; the four of darwin need each per-pid read, the
timebase, and the census.  On darwin three pids make a subtree of two levels.  In `listeners_darwin` the two listeners are of
one port and different slots, though both are `AF_INET6`, so that a slot read wrongly merges or parts keys, and the
connection is the record that must not become a row; its one event is a descriptor passed on, closed or denied between
two looks.  Three arguments are two scopes and a facet, or a list, the list that replaces it, and a facet; two plugs are a core that
goes and another that comes between the two files, which a count of cores would not notice.  The safety invariants and the
refinements are proved for all values of the constants; for these the bounds matter no more.  What is only
model-checked is listed below.

*Fairness.*  `SocketHoldersLinux` and `SocketHoldersDarwin` assume weak fairness of the program's
own step and nothing of the host: the process is scheduled, its reads of `/proc` return.  Retry loops
are therefore shown to end by their own bounds, not by a host that calms down: `MaxEvents` bounds
the host, but in `darwin_path` the table grows at every attempt it allows.  For `SubtreeWalk` no such bound would do: a walk
without `seen` goes round for ever only below a host that reuses pids for ever, and any finite number of events lets it end.
`WorkRunsOut` states the end without fairness, as a variant: whatever the host does, each step of the walk
leaves less to do in a well-founded order (roots, pids not met, worklist, directory, files).  `OccupancyAsk` assumes weak
fairness of `Spawn`, `Deadline` and `Deliver`, which is node's event loop running and its timer firing, and of
`Die`, which is the kernel delivering a SIGKILL.  Nothing is assumed of the child, which may stop in any of
its steps for ever, and nothing of the caller.

## Findings

Each is a run that TLC must find violated; the property states what the repository says of itself.

1. `linux_absence`.  `linux.rs:222-225` takes a path's absence from `/proc/net/unix` for "proof that nobody holds it", and
   `linux.rs:267` returns it as such.  The table is consistent per hash bucket only: a successor that binds in a
   bucket already read, before its predecessor closes in one still to be read, is missed, and the path was held at every
   instant of the ask.  What is true for any number of buckets is weaker, and proved (`AbsenceProved`): no *one*
   socket was there for the whole ask.
2. `subtree_refused`.  `linux.rs:426-430` says that what hides living descendants becomes the root's U row.
   `children_of` treats every failed open of the task directory, and of a children file, as a vanished one.

Seen while reading, and stated by no run:

- A document longer than the 8 KiB of its buffer, which takes hundreds of holders, can be cut short by a stdout that breaks:
  the child exits 1, as a blind one does, and `failureDocument` has its prefix folded as a shorter list of holders.  Each of
  them is one (`HeldIsTrue`); `none` and `unattributed` cannot come about that way (`OnlyWholeDocuments`).
- A root met below another root, whose walk is then given up, is skipped as `seen`, and the descendants the first walk
  had not reached are blamed on the first root only.
- A buffer of `pcblist_n` that ends where a record ends is decoded as a whole one (`pcblist.rs`), closing record or not.
- `snapshotFacetNames` (`client.ts:399`) does not name `proc` for `--roots --mem`, though a missing root leaves a
  `U <pid> proc` row.
- A socket path that is spelled like the flag `--help` exits 0 with a version line and no row (`cli.rs:214`,
  `main.rs:76-80`), which folds to `none`.

## What is proved

All with TLAPS, for any finite set of pids, any sockets, buckets, threads, facets and number of host events, from
the `ASSUME`s of the modules only (finite sets, positive sizes).  Each theorem is an inductive invariant `IInv`
shown to hold initially, to be kept by every action, and to imply the property.

- **`UnixSocketsProofs`**: every host step keeps `HistoryOK` (what is held now was held at some instant; what is steady
  is held now; the steady holder's socket is lasting) and moves the histories one way only.  All modules over `UnixSockets` use it.  It also has `UpTo`, which the
  two inductions over data below are instances of: a set that has 0, and with every number below `N` the next one, has
  all up to `N`.  It is the least counterexample of `WellFoundedInduction` for a *set*, since the library's induction
  theorems take a predicate as a parameter and the provers cannot instantiate that.
- **`SocketHoldersLinuxProofs`**: `TypeCorrect`, `AbsenceProved`, `ClaimsProved`, `SteadyProved`, `UnclaimedProved`,
  `NamesProved`, `LinuxImplementsOccupancy`.  The properties speak of finished documents and are not inductive.  The
  invariant says what is known halfway: a lasting socket is in the inodes or in a bucket not read yet (`TableInv`), a
  process that was there all along is listed or ahead of the cursor (`ListInv`) and is not taken for one that is gone, a
  steady socket is read or on the list of its process (`ScanInv`), and what the document says rests on a table that was
  seen and a list that has everybody (`OutInv`).
- **`SocketHoldersDarwinProofs`**: `TypeCorrect`, `ClaimsProved`, `SteadyProved`, `DarwinImplementsOccupancy`.
  `SteadyInv` carries a steady holder through the table, the listing, the cut and the looks; `OneReader` says that
  only one pid is being read.
- **`AskProofs`**, the ask of a supervisor: `TypeCorrect`, `FreeProved`, `HeldProved`, `WholeProved`, `HeardProved`.
  `ChildInv` ties how far the child is to what it has written and will exit with; `ResultInv` says that a result is
  the outcome of what was received, which no later step changes; `WireInv` says that what is out is nothing, all, or
  holders of the document.  So a fold that names nobody had all of it, and no assumption on stdout is needed.
- **`SubtreeWalkProofs`**: `TypeCorrect`, `RootsOnceProved`, `BegottenProved`, `WholeProved`, `RunsOutProved`.  `Whole` is the loop
  invariant: while nothing was blamed or refused, a child tied to a listed pid is met, or its parent is still to
  be read, or it is below a thread not yet read.  `WholeProved` then follows by transitive closure,
  as the least set closed under the edges, so no recursion is needed.  `RunsOutProved` is the variant, for any number of
  host events; that a descent in this order of finite sets ends is ordinary and not proved here.
- **`SnapshotLinuxProofs`**: `TypeCorrect`, `TheirsProved`, `IdentityProved`, `AnsweredProved`, `InstantProved`.
  `Truth` says of which process each copy is; `Answers` says which pids are through and that each is told or blamed exactly once.
- **`SnapshotDarwinProofs`**: `TypeCorrect`, `FactsProved`, `AnsweredProved`.  `Truth` has the census in `moments` from the step
  that reads it to the last row, and every reading of the pid at hand in `lived`.  `Answers` says which pids are through
  and what a lost source costs; `Selected` is the invariant of `subtree`: a listed child of a target is a target unless
  its parent is still queued.  With an empty queue that is closure, which makes the targets the least closed set
  of `InSubtrees` without recursion, whatever the ancestry.
- **`ListenersProofs`**, linux: `TypeCorrect`, `OnceProved`, `AttributionProved`.  `Claimed` is the invariant of the
  attribution loop: results already looked at are of earlier pids, and left a U row or a claim at least as early.
- **`ListenersProofs`**, darwin: `DarwinTypeCorrect`, `NoListenerLost`, `DarwinClaimsProved`.  Half of it is about the decoder.
  A buffer is a sequence of triples of records, one triple to a socket, cut short or disturbed in one place.  `RunOK` says that
  the loop of `pcblist.rs` keeps the type of its state over any records, `GroupOK` what a whole triple does to it, and
  `GroupsCounted`, by induction over the triples, that an undisturbed buffer is decoded to as many rows of a slot as there are
  listeners of it (`SlotsAgree` makes the table's slot rule and the walk's the same one for the flags a socket can have).
  `TableDecoded` sums it up, and `TableToldStep` is the union with the claims.  The other half is `DarwinIInv`: the queue is in
  the order of the pid list (`InOrder`), a target that is through is blamed, cut, or has claimed at least as early all it kept
  (`Claiming`), and nothing is told before the table is (`Untold`).
- **`AskProofs`**, the program: `AskProved`, `HostProved`, `BufferProved`, `OutcomeProved`, for any command lines and any
  cores.  `ReadUpTo` says what a parse that is still open has taken from the first `n` arguments; `ReadOneMore` is one turn of the
  loops of `cli.rs` and `ParseOK` the induction.  `MainInv` ties `ask` to the arguments (`Parsed`), the cpu reading to what was
  copied and lent (`CpusRead`), every reading that is through to exactly one outcome and every other to none, and what was
  written to the document.

*Only model-checked.*  `Terminates`, `AskSettles`, `NoOrphan`: liveness, and the `ENABLED` in fairness, are out of the
prover's reach.  Every invariant, action property and refinement of a passing run has a theorem.
The findings are counterexamples, not theorems.

## Abstractions, and what is not modelled

- A table, a `stat` file or a children file is read whole or not at all, and parses; a broken one is the failing
  action.  Byte framing of `/proc/net/unix` (`unix_socket.rs`) is "is the table / is not".
- In `SocketHoldersLinux` a `readlink` fails of a closed descriptor or of a process that is denied, and for no other errno (the
  code swallows any, `linux.rs:648-657`); a descriptor number stands for its socket.  In the models of darwin any errno of a
  descriptor listing makes the pid one that could not be inspected.
- In `OccupancyAsk` rows reach the pipe whole.  A break inside a row, whose head the line buffer of `stdout` may have let out,
  is left out.
- In `Osfacts` a document breaks after any block, though only one longer than the buffer can; and what dropping the buffer
  writes after a failed write is left out there, and modelled in `OccupancyAsk`.
- In `SnapshotLinux` `ENOENT` comes of a pid that names no process; `hidepid=2`, which says so of living ones, would make
  `absent` untrue.  A P row is judged by the process its `stat` was of; the name in it may come of `cmdline`, read after.
- A list of `--roots` or `--pids` with a part that is no u32 has a -1 there: the digits and their width are not modelled.
- A buffer whose `vm_deallocate` fails counts as handed back: the kernel keeps it, and the program cannot ask again.
- The task directory is listed at one instant; what is read of each thread is not.
- In `ListenersLinux` ports, addresses and families beyond the table they come from are attributes of a listener and left
  out.  In `ListenersDarwin` an address is its slot only: every socket is bound to the wildcard of its slot.
- `pcblist` offsets, `read_u32` and `round_up_8` are "the length of the record fits / does not".
- The retries of darwin's process table are those of `SocketHoldersDarwin`; `SnapshotDarwin` reads it or loses it.
- A darwin task that reports 0 threads is `-` without a U row; `SnapshotDarwin` has a task read or lost.
- Facts of the host verb are told or lost; their arithmetic and their values are left out.
- `lexopt`'s splitting of `--option=value` and of bytes that are not UTF-8 is external: `CommandLine` starts from arguments.
- `--pids` with a pid named twice repeats fact rows in the program and is named once here.
- In `OccupancyAsk` the sensor is the promise, not a platform: either refines it.  Several asks at once share nothing.
- Host events stop when the document is complete: an answer is about its ask, and stale afterwards by nature.
- Not modelled: the order of rows in `normalize` and the encoding of strings in `schema.rs` (no property tells orders
  apart once a reader parses by tag); the constant documents of unsupported platforms (that of `socket-holders` is
  `BlindDocument`); the rewriting of hexadecimal addresses in `proc_addr.rs`; the client's parsers of the snapshot and host
  documents, pure functions of a document, and its synchronous twins, which share them and have no concurrency.
- Outside: `osfacts-listener` (a test fixture), the tests, build files.

## Plan

1. Abstract `FacetAnswers`, the common part of `SnapshotLinux` and `SnapshotDarwin`, as a specification both refine.
2. `Documents`: `normalize` and the order of blocks for all three verbs, with the client's parsers as their inverse on row
   level.
3. `AskTwins`: the synchronous path (`runOsfactsSync`, `snapshotPidsSync`) and `runOsfacts` give the same classification.
4. Proofs: a variant of both `socket-holders` sensors, as `WorkRunsOut` is one of `SubtreeWalk`: the part of `Terminates` that
   needs no `ENABLED`.  And that the decoder of `PcbList` puts out nothing a buffer does not hold, for buffers that are not made of triples.

## Running

    tlc -config LinuxPath.cfg MCSocketHoldersLinux.tla
    tlapm SocketHoldersLinuxProofs.tla

Runs, their modules and configurations are listed in `PROJECT.json`.  The largest, `listeners`,
`snapshot_darwin`, `listeners_darwin`, `linux_pool` and `subtree_path`, have 2 to 5 million states and take one or two
minutes each.
