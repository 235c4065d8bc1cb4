----------------------------- MODULE MCOsfacts -----------------------------
(* Osfacts for TLC: every command line of a verb with up to MaxArgs of the   *)
(* arguments below, and those that name no verb.                             *)
EXTENDS Osfacts

CONSTANT MaxArgs

Upto(S) == UNION {[1..n -> S] : n \in 0..MaxArgs}

MCSnapshotArgs == {Flag("procs"), Flag("mem"), Scoped("roots", <<1, 2>>),
                   Scoped("roots", <<1, 0>>), Scoped("pids", <<2>>),
                   Scoped("pids", <<1>>), Scoped("pids", <<>>), Flag("json"),
                   Flag("load"), Help, Word("path")}
MCHoldersArgs  == {Word("path"), Word("roots"), Word(""), Flag("procs"), Flag("json"), Help,
                   Flag("mem")}
MCHostArgs     == {Flag(f) : f \in HostFacets} \cup {Flag("json"), Flag("procs"), Help}

MCArgLists ==
  {<<>>, <<Help>>, <<Word("help")>>, <<Word("path")>>, <<Flag("json")>>}
    \cup {<<Word("snapshot")>> \o s : s \in Upto(MCSnapshotArgs)}
    \cup {<<Word("socket-holders")>> \o s : s \in Upto(MCHoldersArgs)}
    \cup {<<Word("host")>> \o s : s \in Upto(MCHostArgs)}

=============================================================================
