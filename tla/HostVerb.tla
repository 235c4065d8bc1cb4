------------------------------ MODULE HostVerb ------------------------------
(***************************************************************************)
(* `host` of src/src/linux.rs and src/src/darwin.rs: the readings of the   *)
(* machine as a whole, one after the other, and the two of them that take  *)
(* several reads: the cpus.  On linux the cores of two files are matched,  *)
(* while cores go on and off line; on darwin the kernel hands over a       *)
(* buffer that is to be given back.                                        *)
(***************************************************************************)
EXTENDS Integers, FiniteSets

CONSTANTS
  Cores,    \* cores that may be on line
  MaxPlugs  \* bound on how often one goes on or off

ASSUME HostAssumption == IsFiniteSet(Cores) /\ Cores # {} /\ MaxPlugs \in Nat

VARIABLES
  platform,  \* "linux" or "darwin"
  asked,     \* the facets of args
  todo,      \* facets not told or lost yet, uptime included
  told,      \* told facts
  lost,      \* E rows
  step,      \* how far read_cpus has come
  metadata,  \* cores that /proc/cpuinfo described
  cpus,      \* cores of the C rows
  buffers,   \* buffers of host_processor_info taken, and handed back
  online,    \* cores on line now
  plugs,     \* times one went on or off line
  moments    \* history: the cores on line at every instant so far

reading  == <<asked, todo, told, lost, step, metadata, cpus, buffers>>
machine  == <<online, plugs, moments>>
hostVars == <<platform, reading, machine>>

Order == [uptime |-> 1, load |-> 2, mem |-> 3, cpu |-> 4, net |-> 5, disk |-> 6]
Facts == [uptime |-> {"uptime"}, load |-> {"load"}, mem |-> {"memory", "swap"},
          cpu |-> {"cpus"}, net |-> {"networks"}, disk |-> {"disk"}]

\* What each reader may come back with: "told", or the source that failed it.
LinuxUptime  == {"told", "proc_uptime"}
DarwinUptime == {"told", "kern_boottime"}
LinuxLoad    == {"told", "proc_loadavg"}
DarwinLoad   == {"told", "getloadavg"}
LinuxDisk    == {"told", "statvfs_root"}
DarwinDisk   == {"told", "statvfs_root"}

\* One file, and every one of four lines of it, or nothing.
MemLines    == {"MemTotal", "MemAvailable", "SwapTotal", "SwapFree"}
LinuxMemory == {IF lines = MemLines THEN "told" ELSE "proc_meminfo" :
                  lines \in SUBSET MemLines}

\* Four sources: what was read of the first is dropped if a later one fails.
DarwinMemory == {"told", "hw_memsize", "sysconf_pagesize", "host_vm_info64",
                 "vm_swapusage"}

\* A file that cannot be read, and one of which no line can be, are the same;
\* the darwin library keeps its failure to itself and comes back with nothing.
LinuxNetworks  == {IF lines = {} THEN "proc_net_dev" ELSE "told" :
                     lines \in SUBSET {"lo", "other"}}
DarwinNetworks == {IF interfaces = {} THEN "sysinfo_networks" ELSE "told" :
                     interfaces \in SUBSET {"lo0", "other"}}

LinuxHost  == [uptime |-> LinuxUptime, load |-> LinuxLoad, mem |-> LinuxMemory,
               net |-> LinuxNetworks, disk |-> LinuxDisk]
DarwinHost == [uptime |-> DarwinUptime, load |-> DarwinLoad, mem |-> DarwinMemory,
               net |-> DarwinNetworks, disk |-> DarwinDisk]

MachineInit ==
  /\ platform \in {"linux", "darwin"}
  /\ asked = {}
  /\ todo = {}
  /\ told = {}
  /\ lost = {}
  /\ step = "none"
  /\ metadata = {}
  /\ cpus = {}
  /\ buffers = [taken |-> 0, returned |-> 0]
  /\ online \in (SUBSET Cores) \ {{}}
  /\ plugs = 0
  /\ moments = {online}

\* The uptime is read whatever is asked.
BeginHost(facets) ==
  /\ asked' = facets
  /\ todo' = facets \cup {"uptime"}
  /\ UNCHANGED <<platform, machine, told, lost, step, metadata, cpus, buffers>>

Turn(f) == f \in todo /\ \A g \in todo : Order[f] <= Order[g]

Tell(f) ==
  /\ told' = told \cup Facts[f]
  /\ todo' = todo \ {f}
  /\ UNCHANGED lost

Lose(f, source) ==
  /\ lost' = lost \cup {[source |-> source, facet |-> f]}
  /\ todo' = todo \ {f}
  /\ UNCHANGED told

Outcomes(f) == IF platform = "linux" THEN LinuxHost[f] ELSE DarwinHost[f]

\* One fact, or one E row.
ReadFacet(f) ==
  /\ Turn(f)
  /\ f # "cpu"
  /\ \E outcome \in Outcomes(f) :
       IF outcome = "told" THEN Tell(f) ELSE Lose(f, outcome)
  /\ UNCHANGED <<platform, machine, asked, step, metadata, cpus, buffers>>

-----------------------------------------------------------------------------
(* read_cpus                                                               *)

Reading(s, on) == Turn("cpu") /\ step = s /\ platform = on

Proceed(s) == step' = s /\ UNCHANGED <<todo, told, lost>>
Fail(source) == Lose("cpu", source) /\ step' = "none"

\* /proc/cpuinfo, as it is now.
ReadMetadata ==
  /\ Reading("none", "linux")
  /\ \/ metadata' = online /\ Proceed("metadata")
     \/ UNCHANGED metadata /\ Fail("proc_cpuinfo")
  /\ UNCHANGED <<platform, machine, asked, cpus, buffers>>

\* Mutant of ReadStat: a core without a description is passed over.
ReadStatKnown ==
  /\ Reading("metadata", "linux")
  /\ \/ \E source \in {"proc_stat_cpu", "sysconf_clk_tck"} :
          Fail(source) /\ UNCHANGED cpus
     \/ cpus' = online \cap metadata /\ Tell("cpu") /\ step' = "none"
  /\ UNCHANGED <<platform, machine, asked, metadata, buffers>>

\* /proc/stat: a core that the first file did not describe fails the reading.
ReadStat ==
  /\ Reading("metadata", "linux")
  /\ \/ \E source \in {"proc_stat_cpu", "sysconf_clk_tck"} :
          Fail(source) /\ UNCHANGED cpus
     \/ IF online \subseteq metadata
          THEN cpus' = online /\ Tell("cpu") /\ step' = "none"
          ELSE Fail("proc_cpuinfo") /\ UNCHANGED cpus
  /\ UNCHANGED <<platform, machine, asked, metadata, buffers>>

\* machdep.cpu.brand_string and hw.cpufrequency; the latter may be missing.
ReadModel ==
  /\ Reading("none", "darwin")
  /\ \/ Proceed("metadata")
     \/ \E source \in {"machdep_cpu_brand_string", "hw_cpufrequency"} : Fail(source)
  /\ UNCHANGED <<platform, machine, asked, metadata, cpus, buffers>>

\* host_processor_info: an error, or a success with no buffer, or a buffer.
TakeBuffer ==
  /\ Reading("metadata", "darwin")
  /\ \/ buffers' = [buffers EXCEPT !.taken = @ + 1] /\ Proceed("buffer")
     \/ UNCHANGED buffers /\ Fail("host_processor_info")
  /\ UNCHANGED <<platform, machine, asked, metadata, cpus>>

\* Mutant of UseBuffer: the early returns forget the buffer.
UseBufferReturning ==
  /\ Reading("buffer", "darwin")
  /\ \/ \E source \in {"host_processor_info", "sysconf_clk_tck"} :
          Fail(source) /\ UNCHANGED <<cpus, buffers>>
     \/ /\ buffers' = [buffers EXCEPT !.returned = @ + 1]
        /\ \/ Fail("vm_deallocate") /\ UNCHANGED cpus
           \/ cpus' = online /\ Tell("cpu") /\ step' = "none"
  /\ UNCHANGED <<platform, machine, asked, metadata>>

\* Too short for the cores, or the tick rate is missing: handed to
\* vm_deallocate, and the first failure is told whatever came of that.
\* Otherwise rows, unless vm_deallocate fails: the kernel keeps the buffer
\* then, and is not asked twice.
UseBuffer ==
  /\ Reading("buffer", "darwin")
  /\ buffers' = [buffers EXCEPT !.returned = @ + 1]
  /\ \/ \E source \in {"host_processor_info", "sysconf_clk_tck", "vm_deallocate"} :
          Fail(source) /\ UNCHANGED cpus
     \/ cpus' = online /\ Tell("cpu") /\ step' = "none"
  /\ UNCHANGED <<platform, machine, asked, metadata>>

ReadHost ==
  \/ \E f \in todo : ReadFacet(f)
  \/ ReadMetadata \/ ReadStat
  \/ ReadModel \/ TakeBuffer \/ UseBuffer

\* A core goes on or off line.
Plug ==
  /\ plugs < MaxPlugs
  /\ plugs' = plugs + 1
  /\ \E c \in Cores : online' = (online \ {c}) \cup ({c} \ online)
  /\ online' # {}
  /\ moments' = moments \cup {online'}
  /\ UNCHANGED <<platform, reading>>

=============================================================================
