---------------------------- MODULE OccupancyAsk ----------------------------
(***************************************************************************)
(* A supervisor's whole question: osfactsSocketHolders(bin)(path) of       *)
(* src/client-ts/src/client.ts, from the spawn to the folded occupancy.    *)
(* The child's sensor is the promise of module Occupancy; around it are    *)
(* main.rs writing the document, node delivering it or killing the child   *)
(* on the deadline, a caller that may stop waiting, and a binary that may  *)
(* not be the one this client was built with.                              *)
(***************************************************************************)
EXTENDS Occupancy

Sources == {"source"}

INSTANCE HoldersDocument

VARIABLES
  build,    \* which binary the path names
  child,    \* the child process
  doc,      \* the normalized document it is writing
  sent,     \* how much of its document has left its buffer
  wire,     \* the rows that reached the pipe, after the version line
  status,   \* its exit status, once it has one
  sigkill,  \* SIGKILL sent and not yet acted on
  timer,    \* CHILD_OPTIONS.timeout
  result    \* what the caller's Effect settled with

transport == <<build, child, doc, sent, wire, status, sigkill, timer, result>>
vars      == <<env, answer, transport>>

Builds == {"current",  \* the client's own revision
           "older",    \* same format, lacks the verb: refuses with exit 2
           "foreign",  \* another format version
           "missing"}  \* no executable there

Pending       == [kind |-> "pending", pids |-> {}]
Abandoned     == [kind |-> "interrupted", pids |-> {}]
Failure(why)  == [kind |-> why, pids |-> {}]
HeldBy(S)     == [kind |-> "held", pids |-> S]
Free          == [kind |-> "none", pids |-> {}]
Unattributed  == [kind |-> "unattributed", pids |-> {}]

Failures == {Failure(w) : w \in {"spawn", "version", "parse"}}
Results  == {Pending, Abandoned, Free, Unattributed} \cup Failures
              \cup {HeldBy(S) : S \in (SUBSET Pids) \ {{}}}

TypeOK ==
  /\ HostTypeOK
  /\ answer \in Answers
  /\ build \in Builds
  /\ child \in {"unborn", "running", "writing", "exited", "killed"}
  /\ doc \in Document
  /\ sent \in {"nothing", "part", "all"}
  /\ wire \in Document
  /\ status \in {-1, 0, 1, 2}
  /\ sigkill \in BOOLEAN
  /\ timer \in {"off", "armed", "fired"}
  /\ result \in Results

Init ==
  /\ OccupancyInit
  /\ build \in Builds
  /\ child = "unborn"
  /\ doc = EmptyDocument
  /\ sent = "nothing"
  /\ wire = EmptyDocument
  /\ status = -1
  /\ sigkill = FALSE
  /\ timer = "off"
  /\ result = Pending

Settle(r) == result = Pending /\ result' = r

-----------------------------------------------------------------------------
(* runOsfacts: execFile and its error callback.                            *)

Spawn ==
  /\ child = "unborn"
  /\ result = Pending
  /\ IF build = "missing"
       THEN Settle(Failure("spawn")) /\ UNCHANGED <<child, timer>>
       ELSE child' = "running" /\ timer' = "armed" /\ UNCHANGED result
  /\ UNCHANGED <<env, answer, build, doc, sent, wire, status, sigkill>>

-----------------------------------------------------------------------------
(* The child: main.rs.                                                     *)

\* The documents whose wire reading is answer a, for an ask with --procs.
DocumentsSaying(a) ==
  CASE a = Nobody    -> {EmptyDocument}
    [] a = Unclaimed -> {[EmptyDocument EXCEPT !.unclaimed = TRUE]}
    [] a = Blind     -> {BlindDocument("source")}
    [] OTHER -> {[EmptyDocument EXCEPT !.claimed = a.pids, !.procs = named,
                                       !.unreadable = a.pids \ named] :
                   named \in SUBSET a.pids}

\* platform::socket_holders, then take().
Sense ==
  /\ child = "running"
  /\ build = "current"
  /\ Answer
  /\ doc' \in DocumentsSaying(answer')
  /\ child' = "writing"
  /\ UNCHANGED <<build, sent, wire, status, sigkill, timer, result>>

\* A binary from another source: a refused ask and a foreign document both
\* begin with a version line and carry no row this client could read.
Mismatch ==
  /\ child = "running"
  /\ build \in {"older", "foreign"}
  /\ child' = "writing"
  /\ UNCHANGED <<env, answer, build, doc, sent, wire, status, sigkill, timer,
                 result>>

\* Rows are sorted: what a block lets out first are its smallest pids.
Leading(S, T) == S \subseteq T /\ \A x \in S, y \in T \ S : x < y

\* The holders d names, cut short between two rows (H, then P, then U).
CutShort(d) ==
  {w \in Document :
     /\ w.claimed # {} /\ ~w.unclaimed /\ w.errors = {}
     /\ Leading(w.claimed, d.claimed)
     /\ Leading(w.procs, d.procs) /\ Leading(w.unreadable, d.unreadable)
     /\ w.procs # {} => w.claimed = d.claimed
     /\ w.unreadable # {} => w.claimed = d.claimed /\ w.procs = d.procs}

\* emit writes into one buffer of 8 KiB.  Only a document longer than that
\* overflows it, and only holders make one: the empty, the unclaimed and the
\* blind document are a few lines.
Overflow ==
  /\ build = "current"
  /\ sent # "all"
  /\ wire' \in CutShort(doc)
  /\ wire \in {EmptyDocument} \cup CutShort(wire')
  /\ sent' = "part"

\* The one flush, after the last row.
Emptied ==
  /\ sent # "all"
  /\ wire' = doc
  /\ sent' = "all"

\* Mutant of Spill: no buffer, every line is on the pipe as it is written.
SpillEveryLine ==
  /\ child = "writing"
  /\ build = "current"
  /\ sent = "nothing"
  /\ wire' = EmptyDocument
  /\ sent' = "part"
  /\ UNCHANGED <<env, answer, build, child, doc, status, sigkill, timer,
                 result>>

\* The buffer is full before the document is.
Spill ==
  /\ child = "writing"
  /\ Overflow
  /\ UNCHANGED <<env, answer, build, child, doc, status, sigkill, timer,
                 result>>

Flush ==
  /\ child = "writing"
  /\ Emptied
  /\ UNCHANGED <<env, answer, build, child, doc, status, sigkill, timer,
                 result>>

Ends(code) ==
  /\ child' = "exited"
  /\ status' = code
  /\ UNCHANGED <<env, answer, build, doc, sigkill, timer, result>>

\* Everything flushed: exit_code(doc), or 2 for the refused ask.
Finish ==
  /\ child = "writing"
  /\ sent = "all"
  /\ Ends(IF build = "older" THEN 2 ELSE ExitCode(doc))
  /\ UNCHANGED <<sent, wire>>

\* A write fails.  Dropping the BufWriter tries what is in it once more, and
\* says nothing of how that went.
WriteFails ==
  /\ child = "writing"
  /\ build = "current"
  /\ sent # "all"
  /\ UNCHANGED <<sent, wire>> \/ Overflow \/ Emptied
  /\ Ends(1)

\* SIGKILL takes effect, unless the child exits on its own first.
Die ==
  /\ sigkill
  /\ child \in {"running", "writing"}
  /\ child' = "killed"
  /\ UNCHANGED <<env, answer, build, doc, sent, wire, status, sigkill, timer,
                 result>>

-----------------------------------------------------------------------------
(* Deadline, interruption, delivery.                                       *)

\* Mutant of Deadline: a signal the wedged child ignores.
DeadlineTerm ==
  /\ timer = "armed"
  /\ result = Pending
  /\ timer' = "fired"
  /\ UNCHANGED <<env, answer, build, child, doc, sent, wire, status, sigkill,
                 result>>

\* The deadline signals whatever the child is by then; an exited child has
\* no one left to receive it, and node only notes that it tried (`killed`).
Deadline ==
  /\ timer = "armed"
  /\ result = Pending
  /\ timer' = "fired"
  /\ sigkill' = (sigkill \/ child \in {"running", "writing"})
  /\ UNCHANGED <<env, answer, build, child, doc, sent, wire, status, result>>

\* Mutant of Interrupt: no finalizer.
InterruptOnly ==
  /\ child # "unborn"
  /\ Settle(Abandoned)
  /\ UNCHANGED <<env, answer, build, child, doc, sent, wire, status, sigkill,
                 timer>>

\* The fiber is interrupted: the finalizer kills, nobody reads the answer.
Interrupt ==
  /\ child # "unborn"
  /\ Settle(Abandoned)
  /\ sigkill' = (sigkill \/ child \in {"running", "writing"})
  /\ UNCHANGED <<env, answer, build, child, doc, sent, wire, status, timer>>

\* Mutant of FailureDocument: `killed` in place of `signal`.
FailureDocumentUnlessKilled ==
  /\ timer # "fired"
  /\ status = 1
  /\ sent # "nothing"

\* failureDocument: only exit 1, only unsignalled, only a version line.
FailureDocument ==
  /\ child # "killed"
  /\ status = 1
  /\ sent # "nothing"

\* Mutant of Fold: an E row is not looked at.
FoldIgnoringErrors(reading) ==
  IF reading.claimed # {} THEN HeldBy(reading.claimed)
  ELSE IF reading.unclaimed THEN Unattributed
  ELSE IF reading.procs # {} \/ reading.unreadable # {} THEN Failure("parse")
  ELSE Free

\* Mutant of Fold: the `-` of an unclaimed row is read as a pid.
FoldUnclaimedAsPid(reading) ==
  IF reading.claimed # {} THEN HeldBy(reading.claimed)
  ELSE IF reading.unclaimed THEN HeldBy({CHOOSE p \in Pids : TRUE})
  ELSE IF reading.errors # {} THEN Unattributed
  ELSE Free

\* Mutant of Fold: any H row says held, whoever it names.
FoldAnyHolderRow(reading) ==
  IF reading.claimed # {} \/ reading.unclaimed THEN HeldBy(reading.claimed)
  ELSE IF reading.errors # {} THEN Unattributed
  ELSE Free

\* foldSocketOccupancy.
Fold(reading) ==
  IF reading.claimed # {} THEN HeldBy(reading.claimed)
  ELSE IF reading.unclaimed \/ reading.errors # {} THEN Unattributed
  ELSE IF reading.procs # {} \/ reading.unreadable # {} THEN Failure("parse")
  ELSE Free

\* The execFile callback, then bodyRows' version gate, parse and fold.
Outcome ==
  IF ~(child = "exited" /\ status = 0) /\ ~FailureDocument THEN Failure("spawn")
  ELSE IF build = "foreign" \/ sent = "nothing" THEN Failure("version")
  ELSE Fold(wire)

Deliver ==
  /\ child \in {"exited", "killed"}
  /\ Settle(Outcome)
  /\ timer' = "off"
  /\ UNCHANGED <<env, answer, build, child, doc, sent, wire, status, sigkill>>

ChildNext  == Sense \/ Mismatch \/ Spill \/ Flush \/ Finish \/ WriteFails
ClientNext == Spawn \/ Deadline \/ Interrupt \/ Deliver

Environment == /\ result = Pending
               /\ HostNext
               /\ UNCHANGED <<answer, transport>>

Next == ChildNext \/ Die \/ ClientNext \/ Environment

Spec == Init /\ [][Next]_vars

\* Node's loop runs, the kernel delivers a SIGKILL.  Nothing is assumed of
\* the child: it may be wedged in any step of its own.
FairSpec == Spec /\ WF_vars(Spawn) /\ WF_vars(Deadline) /\ WF_vars(Deliver)
                 /\ WF_vars(Die)

-----------------------------------------------------------------------------
(* Properties                                                              *)

\* "none" lets a supervisor bind the path: it is said only of a path that no
\* socket kept for the whole of the ask, and only by a sensor that can tell,
\* deadlines, foreign binaries and a broken stdout notwithstanding.
FreeIsProof == result = Free => ProvesAbsence /\ lasting = {}

\* A pid the supervisor is told holds the path did hold it during the ask.
HeldIsTrue == result.kind = "held" => \A p \in result.pids : EverHeld(p)

\* childFailure.ts:105-111: a truncated document is not read as a complete
\* one.  An occupancy comes of a child of this build that ended by itself, and
\* what says that nobody is known to hold the path comes of all of its
\* document; a stdout that breaks can only shorten the list of holders.
OnlyWholeDocuments ==
  result.kind \in {"held", "none", "unattributed"}
    => /\ build = "current"
       /\ child = "exited"
       /\ result.kind = "held" \/ sent = "all"

\* A child that ended on its own with its whole document is believed even if
\* the deadline fired on its heels: exit 1 with E rows is blindness the
\* caller gets to hear of, not a spawn failure.
WholeDocumentIsHeard ==
  (child = "exited" /\ sent = "all" /\ build = "current"
    /\ result \notin {Pending, Abandoned})
     => result = CASE answer = Nobody -> Free
                   [] answer \in {Unclaimed, Blind} -> Unattributed
                   [] OTHER -> HeldBy(answer.pids)

\* A wedged child cannot keep the caller waiting.
AskSettles == result = Pending ~> result # Pending

\* An ask that is over, abandoned or not, leaves no child running.
NoOrphan == result # Pending ~> child \in {"unborn", "exited", "killed"}

=============================================================================
