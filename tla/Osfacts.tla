------------------------------ MODULE Osfacts ------------------------------
(***************************************************************************)
(* The program: src/src/main.rs over the command line, the sensors and the *)
(* documents of src/src/schema.rs.  `host` is modelled here in full; of    *)
(* the documents of the other two verbs, which have modules of their own,  *)
(* only what the exit is decided on.                                       *)
(*                                                                         *)
(* No name here is one of OccupancyAsk: AskProofs extends both.            *)
(***************************************************************************)
EXTENDS CommandLine, HostVerb

CONSTANT ArgLists  \* the command lines looked at

ASSUME ArgListsAssumption == ArgLists \subseteq Seq(Arguments)

VARIABLES
  args,    \* std::env::args_os().skip(1)
  phase,   \* where main is
  ask,     \* the parsed command line
  report,  \* the document taken from the sensor
  stdout,  \* blocks of lines written
  code     \* the exit code, -1 while running

mainVars == <<args, phase, ask, report, stdout, code, hostVars>>

\* A document: which of its blocks of facts have a row, and whether it has U
\* rows and E rows.
Blank == [facts |-> {}, unreadable |-> FALSE, errors |-> FALSE]

MainInit ==
  /\ MachineInit
  /\ args \in ArgLists
  /\ phase = "parse"
  /\ ask = Start("")
  /\ report = Blank
  /\ stdout = <<>>
  /\ code = -1

\* cli::parse: an accepted ask goes to its sensor.
ParseArgs ==
  /\ phase = "parse"
  /\ ask' = Parse(args)
  /\ IF ask'.status # "accepted"
       THEN phase' = "version" /\ UNCHANGED hostVars
       ELSE /\ phase' = "sensor"
            /\ IF ask'.verb = "host" THEN BeginHost(ask'.facets)
                                     ELSE UNCHANGED hostVars
  /\ UNCHANGED <<args, report, stdout, code>>

HostStep ==
  /\ phase = "sensor"
  /\ ReadHost
  /\ UNCHANGED <<args, phase, ask, report, stdout, code>>

\* The host document; it has no U rows, and no order of its own.
TakeHost ==
  /\ phase = "sensor"
  /\ ask.verb = "host"
  /\ todo = {}
  /\ report' = [facts |-> told, unreadable |-> FALSE, errors |-> lost # {}]
  /\ phase' = "emit"
  /\ UNCHANGED <<args, ask, stdout, code, hostVars>>

\* The rows of one block.
Rows(block) == IF block \in report.facts THEN <<block>> ELSE <<>>

SnapshotBlocks ==
  Rows("procs") \o Rows("mem") \o Rows("start-time") \o Rows("cpu-time") \o Rows("uid")
    \o Rows("cwd") \o Rows("status") \o Rows("argv") \o Rows("ports")
HoldersBlocks == Rows("holders") \o Rows("procs")
HostBlocks    ==
  Rows("load") \o Rows("memory") \o Rows("swap") \o Rows("uptime") \o Rows("cpus")
    \o Rows("networks") \o Rows("disk")

\* What the other sensors may come back with: rows of what was asked, or none.
TakeOther ==
  /\ phase = "sensor"
  /\ ask.verb # "host"
  /\ \E facts \in SUBSET (ask.facets \cup (IF ask.verb = "snapshot" THEN {}
                                            ELSE {"holders"})),
        unreadable, errors \in BOOLEAN :
       report' = [facts |-> facts, unreadable |-> unreadable, errors |-> errors]
  /\ phase' = "emit"
  /\ UNCHANGED <<args, ask, stdout, code, hostVars>>

\* Mutant of HasFacts: a row that blames a pid is no fact.
DocHasFactsOnly == report.facts # {}

\* has_facts: a U row is one, an E row is not.
DocHasFacts == report.facts # {} \/ report.unreadable

Blocks == CASE ask.verb = "snapshot"       -> SnapshotBlocks
            [] ask.verb = "socket-holders" -> HoldersBlocks
            [] ask.verb = "host"           -> HostBlocks

\* write_tsv, block by block, or the one object of write_json.
Lines ==
  IF ask.json THEN <<"json">>
  ELSE <<"V">> \o Blocks
               \o (IF report.unreadable THEN <<"U">> ELSE <<>>)
               \o (IF report.errors THEN <<"E">> ELSE <<>>)

ExitWith(c) == code' = c /\ phase' = "exited"

\* emit and exit_code.  Whoever reads stdout may have gone at any block, which
\* only a document longer than the 8 KiB buffer can show; what dropping the
\* buffer retries after a failed write is left out (OccupancyAsk has it).
Emit ==
  /\ phase = "emit"
  /\ \E n \in 0..Len(Lines) :
       /\ stdout' = SubSeq(Lines, 1, n)
       /\ ExitWith(IF n < Len(Lines) THEN 1 ELSE IF report.errors /\ ~DocHasFacts THEN 1 ELSE 0)
  /\ UNCHANGED <<args, ask, report, hostVars>>

\* write_version_only, whose failure is not reported: the exit code carries
\* the outcome.
Version ==
  /\ phase = "version"
  /\ stdout' \in {<<>>, <<"V">>}
  /\ ExitWith(IF ask.status = "help" THEN 0 ELSE 2)
  /\ UNCHANGED <<args, ask, report, hostVars>>

\* Cores matter between the two reads of them only.
MainEnvironment ==
  /\ step = "metadata"
  /\ Plug
  /\ UNCHANGED <<args, phase, ask, report, stdout, code>>

MainNext ==
  \/ ParseArgs \/ HostStep \/ TakeHost \/ TakeOther \/ Emit \/ Version
  \/ MainEnvironment

MainSpec == MainInit /\ [][MainNext]_mainVars

-----------------------------------------------------------------------------
(* Properties                                                              *)

Exited == phase = "exited"

OptionsOf(s) == {s[n].text : n \in {m \in DOMAIN s : s[m].kind = "option"}}

\* The last list given with an option, <<>> if there is none.
LastList(s, text) ==
  LET given == {n \in DOMAIN s : s[n].kind = "option" /\ s[n].text = text}
  IN  IF given = {} THEN <<>> ELSE s[CHOOSE n \in given : \A m \in given : m <= n].list

\* cli.rs:137-264: an ask is what was written, wherever on the line it was.
\* --roots and --pids together are refused in either order, and so is a list
\* with anything in it that is no pid; a later list replaces an earlier one; the
\* facets are those named, and there is one at least.
AskIsAsWritten ==
  ask.status = "accepted" =>
    LET rest == Tail(args)
    IN  /\ args[1] = Word(ask.verb)
        /\ ask.json <=> "json" \in OptionsOf(rest)
        /\ ask.facets = OptionsOf(rest) \ {"json", "roots", "pids"}
        /\ ask.facets # {} \/ ask.verb = "socket-holders"
        /\ ask.roots = LastList(rest, "roots")
        /\ ask.pids = LastList(rest, "pids")
        /\ ~({"roots", "pids"} \subseteq OptionsOf(rest))
        /\ \A n \in DOMAIN rest :
             rest[n].kind = "option" /\ rest[n].text \in {"roots", "pids"} =>
               rest[n].list # <<>> /\ \A m \in DOMAIN rest[n].list : rest[n].list[m] >= 1
        /\ {rest[n].text : n \in {m \in DOMAIN rest : rest[m].kind = "word"}} = ask.path
        /\ ask.path # {} <=> ask.verb = "socket-holders"
        /\ \A m, n \in DOMAIN rest : rest[m].kind = "word" /\ rest[n].kind = "word" => m = n

\* README "Honesty": the host document answers each asked facet, and the
\* uptime, once: with all of its facts or with the E row of one source, never
\* with half of a reading.  The cpus are those on line at one instant, though
\* they are pieced together from two.
HostAnswered ==
  /\ phase = "emit" /\ ask.verb = "host" => \A f \in DOMAIN Order :
       LET costs == {e \in lost : e.facet = f}
       IN  IF f \in asked \cup {"uptime"}
             THEN \/ Facts[f] \subseteq told /\ costs = {}
                  \/ Facts[f] \cap told = {} /\ Cardinality(costs) = 1
             ELSE Facts[f] \cap told = {} /\ costs = {}
  /\ "cpus" \in told => cpus \in moments

\* darwin.rs:1123-1142: whatever becomes of the reading, the kernel's buffer is
\* handed to vm_deallocate, once.
BufferReturned ==
  /\ buffers.returned <= buffers.taken
  /\ step # "buffer" => buffers.returned = buffers.taken

\* main.rs:66-114: a zero exit of an ask means that all of its document was
\* written and that there is something in it, or nothing to be blind about; one
\* that fails after it was accepted told nothing at all or was not heard.  What
\* is refused reads nothing, and the version line comes first in any case.
OutcomeIsHonest ==
  Exited =>
    /\ code = 0 /\ ask.status = "accepted" =>
         /\ stdout = Lines
         /\ report.errors => report.facts # {} \/ report.unreadable
    /\ code = 1 => \/ stdout # Lines
                   \/ report.errors /\ report.facts = {} /\ ~report.unreadable
    /\ code = 2 \/ ask.status = "help" => report = Blank /\ told \cup lost = {}
    /\ code = 2 <=> ask.status = "usage"
    /\ stdout # <<>> => stdout[1] \in {"V", "json"}

=============================================================================
