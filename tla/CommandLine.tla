---------------------------- MODULE CommandLine ----------------------------
(***************************************************************************)
(* src/src/cli.rs: from the arguments to the ask.  An argument is a word   *)
(* or an option; --roots and --pids come with their list, in which -1      *)
(* stands for whatever is no u32: a word, a sign, a number too large.      *)
(***************************************************************************)
EXTENDS Integers, Sequences

Verbs == {"snapshot", "socket-holders", "host"}

SnapshotFacets == {"procs", "ports", "mem", "start-time", "cpu-time", "uid",
                   "cwd", "status", "argv"}
HostFacets     == {"load", "mem", "cpu", "net", "disk"}

Word(text)       == [kind |-> "word", text |-> text, list |-> <<>>]
Flag(text)       == [kind |-> "option", text |-> text, list |-> <<>>]
Scoped(text, l)  == [kind |-> "option", text |-> text, list |-> l]

Help == Flag("help")

Arguments == [kind : {"word"}, text : STRING, list : {<<>>}]
               \cup [kind : {"option"}, text : STRING, list : Seq(Int)]

\* What a parse has come to: still "open", or ended by --help or by a refusal.
\* `roots` and `pids` are <<>> as long as the option has not been read.
Start(verb) == [verb |-> verb, status |-> "open", roots |-> <<>>, pids |-> <<>>,
                path |-> {}, facets |-> {}, json |-> FALSE]

Ended(verb, status) == [Start(verb) EXCEPT !.status = status]

\* parse_pid_list: neither empty, nor with a part that is no pid, nor pid 0.
PidList(list) == list # <<>> /\ \A n \in DOMAIN list : list[n] > 0

\* Mutant of ReadSnapshotArg: --pids after --roots is refused, not the reverse.
ReadSnapshotArgOneWay(a, arg) ==
  CASE arg = Help -> [a EXCEPT !.status = "help"]
    [] arg.kind = "option" /\ arg.text \in SnapshotFacets ->
         [a EXCEPT !.facets = @ \cup {arg.text}]
    [] arg = Flag("json") -> [a EXCEPT !.json = TRUE]
    [] arg.text = "roots" /\ PidList(arg.list) -> [a EXCEPT !.roots = arg.list]
    [] arg.text = "pids" /\ PidList(arg.list) /\ a.roots = <<>> ->
         [a EXCEPT !.pids = arg.list]
    [] OTHER -> [a EXCEPT !.status = "usage"]

\* parse_snapshot, one argument.
ReadSnapshotArg(a, arg) ==
  CASE arg = Help -> [a EXCEPT !.status = "help"]
    [] arg.kind = "option" /\ arg.text \in SnapshotFacets ->
         [a EXCEPT !.facets = @ \cup {arg.text}]
    [] arg = Flag("json") -> [a EXCEPT !.json = TRUE]
    [] arg.text = "roots" /\ PidList(arg.list) /\ a.pids = <<>> ->
         [a EXCEPT !.roots = arg.list]
    [] arg.text = "pids" /\ PidList(arg.list) /\ a.roots = <<>> ->
         [a EXCEPT !.pids = arg.list]
    [] OTHER -> [a EXCEPT !.status = "usage"]

\* parse_socket_holders, one argument: the first word is the path.
ReadHoldersArg(a, arg) ==
  CASE arg = Help -> [a EXCEPT !.status = "help"]
    [] arg.kind = "word" /\ a.path = {} -> [a EXCEPT !.path = {arg.text}]
    [] arg = Flag("procs") -> [a EXCEPT !.facets = {"procs"}]
    [] arg = Flag("json") -> [a EXCEPT !.json = TRUE]
    [] OTHER -> [a EXCEPT !.status = "usage"]

\* parse_host, one argument.
ReadHostArg(a, arg) ==
  CASE arg = Help -> [a EXCEPT !.status = "help"]
    [] arg.kind = "option" /\ arg.text \in HostFacets ->
         [a EXCEPT !.facets = @ \cup {arg.text}]
    [] arg = Flag("json") -> [a EXCEPT !.json = TRUE]
    [] OTHER -> [a EXCEPT !.status = "usage"]

\* A help or a refusal ends the reading.
ReadArg(verb, a, arg) ==
  IF a.status # "open" THEN a ELSE
  CASE verb = "snapshot"       -> ReadSnapshotArg(a, arg)
    [] verb = "socket-holders" -> ReadHoldersArg(a, arg)
    [] verb = "host"           -> ReadHostArg(a, arg)

\* The end of the arguments: an ask that names nothing is refused.
EndOfArgs(a) ==
  IF a.status # "open" THEN a
  ELSE [a EXCEPT !.status =
          IF (IF a.verb = "socket-holders" THEN a.path \subseteq {""} ELSE a.facets = {})
          THEN "usage" ELSE "accepted"]

\* parse.
Parse(args) ==
  IF args = <<>> \/ args[1] = Help \/ args[1] = Word("help") THEN Ended("", "help")
  ELSE IF args[1].kind # "word" \/ args[1].text \notin Verbs THEN Ended("", "usage")
  ELSE LET verb == args[1].text
           after[n \in 1..Len(args)] ==
             IF n = 1 THEN Start(verb) ELSE ReadArg(verb, after[n - 1], args[n])
       IN  EndOfArgs(after[Len(args)])

=============================================================================
