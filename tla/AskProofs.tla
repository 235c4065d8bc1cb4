------------------------------ MODULE AskProofs ------------------------------
(***************************************************************************)
(* What a supervisor's ask may conclude, for any processes, sockets and    *)
(* number of host steps; and what the program makes of any command line,   *)
(* and its exit code and its `host` document say, for any cores.  The      *)
(* ask's half, OccupancyAsk, is first.                                     *)
(***************************************************************************)
EXTENDS OccupancyAsk, Osfacts, UnixSocketsProofs, FiniteSetTheorems, SequenceTheorems

-----------------------------------------------------------------------------
(* OccupancyAsk                                                            *)

\* The sensor's answer, once given, stays true of the ask.
AnswerInv == answer \in Answers /\ (answer # Asking => TrueOfAsk(answer))

\* How far the child is decides what it has: nothing before it answered, the
\* document of its answer after, and a whole one when it exits by itself.
ChildInv ==
  /\ child \in {"unborn", "running"} =>
       answer = Asking /\ doc = EmptyDocument /\ sent = "nothing" /\ status = -1
  /\ child \in {"writing", "killed"} => status = -1
  /\ build # "current" => answer = Asking /\ doc = EmptyDocument
  /\ build = "missing" => child = "unborn"
  /\ child \in {"writing", "exited"} /\ build = "current" =>
       answer # Asking /\ doc \in DocumentsSaying(answer)
  /\ child = "exited" =>
       \/ /\ sent = "all"
          /\ status = IF build = "older" THEN 2 ELSE ExitCode(doc)
       \/ build = "current" /\ status = 1

\* What the pipe has: nothing, all of it, or holders of it and no other fact.
WireInv ==
  /\ sent = "nothing" => wire = EmptyDocument
  /\ sent = "all" => wire = doc
  /\ sent = "part" => wire.claimed # {} /\ wire.claimed \subseteq doc.claimed

\* A result that was delivered is still the outcome of what was received.
ResultInv ==
  result \notin {Pending, Abandoned} =>
    \/ build = "missing" /\ result = Failure("spawn")
    \/ child \in {"exited", "killed"} /\ result = Outcome

IInv == TypeOK /\ HistoryOK /\ AnswerInv /\ ChildInv /\ WireInv /\ ResultInv

-----------------------------------------------------------------------------

\* What each answer's documents look like.
LEMMA DocumentsSay ==
  ASSUME NEW a \in Answers \ {Asking}, NEW d \in DocumentsSaying(a)
  PROVE  /\ d \in Document
         /\ a = Nobody => d = EmptyDocument
         /\ a = Unclaimed => d = [EmptyDocument EXCEPT !.unclaimed = TRUE]
         /\ a = Blind => d = BlindDocument("source")
         /\ a \notin {Nobody, Unclaimed, Blind} =>
              d.claimed = a.pids /\ a.pids # {} /\ d.errors = {}
<1>0. Nobody # Unclaimed /\ Nobody # Blind /\ Unclaimed # Blind
  BY DEF Nobody, Unclaimed, Blind
<1>1. a = Nobody => d = EmptyDocument
  BY <1>0 DEF DocumentsSaying
<1>2. a = Unclaimed => d = [EmptyDocument EXCEPT !.unclaimed = TRUE]
  BY <1>0 DEF DocumentsSaying
<1>3. a = Blind => d = BlindDocument("source")
  BY <1>0 DEF DocumentsSaying
<1>4. CASE a \notin {Nobody, Unclaimed, Blind}
  <2>1. PICK S \in (SUBSET Pids) \ {{}} : a = Claimed(S)
    BY <1>4 DEF Answers
  <2>2. PICK named \in SUBSET a.pids :
          d = [EmptyDocument EXCEPT !.claimed = a.pids, !.procs = named,
                                    !.unreadable = a.pids \ named]
    BY <1>4 DEF DocumentsSaying
  <2>3. a.pids = S
    BY <2>1 DEF Claimed
  <2>4. d = [claimed |-> S, unclaimed |-> FALSE, procs |-> named,
             unreadable |-> S \ named, errors |-> {}]
    BY <2>2, <2>3 DEF EmptyDocument
  <2>5. named \in SUBSET Pids /\ S \ named \in SUBSET Pids
    BY <2>1, <2>2, <2>3
  <2>6. d \in Document
    BY <2>4, <2>5 DEF Document
  <2>7. d.claimed = S /\ d.errors = {}
    BY <2>4
  <2> QED
    BY <1>4, <2>1, <2>3, <2>6, <2>7
<1>5. CASE a \in {Nobody, Unclaimed, Blind}
  <2>1. /\ EmptyDocument \in Document
        /\ [EmptyDocument EXCEPT !.unclaimed = TRUE] \in Document
        /\ BlindDocument("source") \in Document
    BY DEF Document, EmptyDocument, BlindDocument, Sources
  <2> QED
    BY <1>1, <1>2, <1>3, <1>5, <2>1
<1> QED
  BY <1>1, <1>2, <1>3, <1>4, <1>5

\* Whatever part of a document arrives folds to a result a caller knows.
LEMMA OutcomeTyped == TypeOK => Outcome \in Results \ {Pending, Abandoned}
<1> SUFFICES ASSUME TypeOK PROVE Outcome \in Results \ {Pending, Abandoned}
  OBVIOUS
<1>1. wire.claimed \subseteq Pids
  BY DEF TypeOK, Document
<1>2. Fold(wire) \in Results \ {Pending, Abandoned}
  BY <1>1 DEF Fold, Results, Failures, Free, Unattributed, HeldBy, Failure,
     Pending, Abandoned
<1> QED
  BY <1>2 DEF Outcome, Results, Failures, Failure, Pending, Abandoned

\* The inductive invariant holds initially.
LEMMA InitInv == Init => IInv
<1> SUFFICES ASSUME Init PROVE IInv
  OBVIOUS
<1>1. HostTypeOK /\ HistoryOK
  BY HostInitOK DEF Init, OccupancyInit
<1>2. EmptyDocument \in Document
  BY DEF EmptyDocument, Document
<1>3. TypeOK
  <2>1. answer \in Answers /\ result \in Results
    BY DEF Init, OccupancyInit, Answers, Results
  <2>2. sent \in {"nothing", "part", "all"} /\ status \in {-1, 0, 1, 2}
    BY DEF Init
  <2> QED
    BY <1>1, <1>2, <2>1, <2>2 DEF Init, TypeOK
<1>4. AnswerInv /\ ChildInv /\ WireInv /\ ResultInv
  BY DEF Init, OccupancyInit, AnswerInv, ChildInv, WireInv, ResultInv, Answers
<1> QED
  BY <1>1, <1>3, <1>4 DEF IInv

\* The child answers, and begins to write what it answered.
LEMMA SenseKeeps == IInv /\ Sense => IInv'
<1> SUFFICES ASSUME IInv, Sense PROVE IInv'
  OBVIOUS
<1>1. UNCHANGED env /\ answer' \in Answers /\ answer' # Asking /\ TrueOfAsk(answer')
  BY DEF Sense, Answer, TrueOfAsk, Asking, Nobody, Unclaimed, Blind, Claimed
<1>2. HostTypeOK' /\ HistoryOK'
  BY <1>1, HostStutterOK DEF IInv, TypeOK
<1>3. doc' \in DocumentsSaying(answer') /\ doc' \in Document
  BY <1>1, DocumentsSay DEF Sense
<1>4. TypeOK'
  BY <1>1, <1>2, <1>3 DEF Sense, IInv, TypeOK
<1>5. AnswerInv'
  BY <1>1 DEF AnswerInv, TrueOfAsk, EverHeld, env
<1>6. DocumentsSaying(answer') = DocumentsSaying(answer)'
  BY DEF DocumentsSaying
<1>7. ChildInv'
  BY <1>1, <1>3, <1>6 DEF Sense, IInv, ChildInv
<1>8. ResultInv' /\ WireInv'
  BY DEF Sense, IInv, ChildInv, WireInv, ResultInv
<1> QED
  BY <1>2, <1>4, <1>5, <1>7, <1>8 DEF IInv

\* What overflows is holders of the document.
LEMMA OverflowSends ==
  ASSUME IInv, Overflow
  PROVE  wire' \in Document /\ sent' = "part"
         /\ wire'.claimed # {} /\ wire'.claimed \subseteq doc.claimed
BY DEF Overflow, CutShort, Leading

\* Writing, ending, dying: the child without its sensor.
LEMMA ChildKeeps ==
  IInv /\ (Mismatch \/ Spill \/ Flush \/ Finish \/ WriteFails \/ Die) => IInv'
<1> SUFFICES ASSUME IInv, Mismatch \/ Spill \/ Flush \/ Finish \/ WriteFails \/ Die
             PROVE  IInv'
  OBVIOUS
<1> USE DEF IInv
<1>1. UNCHANGED <<env, answer, build, doc, timer, result>>
  BY DEF Mismatch, Spill, Flush, Finish, WriteFails, Die, Ends
<1>2. HostTypeOK' /\ HistoryOK'
  BY <1>1, HostStutterOK DEF TypeOK
<1>3. AnswerInv'
  BY <1>1 DEF AnswerInv, TrueOfAsk, EverHeld, env
<1>4. UNCHANGED <<sent, wire>> \/ Overflow \/ Emptied
  BY DEF Mismatch, Spill, Flush, Finish, WriteFails, Die
<1>5. wire' \in Document /\ sent' \in {"nothing", "part", "all"} /\ WireInv'
  BY <1>1, <1>4, OverflowSends DEF Emptied, TypeOK, WireInv
<1>6. TypeOK'
  BY <1>1, <1>2, <1>5 DEF TypeOK, Mismatch, Spill, Flush, Finish, WriteFails, Die,
     Ends, ExitCode
<1>7. ChildInv'
  BY <1>1 DEF ChildInv, TypeOK, Mismatch, Spill, Flush, Finish, WriteFails, Die,
     Ends, DocumentsSaying
<1>8. ResultInv'
  BY <1>1 DEF ResultInv, Mismatch, Spill, Flush, Finish, WriteFails, Die, Ends
<1> QED
  BY <1>2, <1>3, <1>5, <1>6, <1>7, <1>8

\* The client's side of the ask.
LEMMA ClientKeeps == IInv /\ ClientNext => IInv'
<1> SUFFICES ASSUME IInv, ClientNext PROVE IInv'
  OBVIOUS
<1> USE DEF IInv
<1>1. UNCHANGED <<env, answer, build, doc, sent, wire, status>>
  BY DEF ClientNext, Spawn, Deadline, Interrupt, Deliver
<1>2. HostTypeOK' /\ HistoryOK'
  BY <1>1, HostStutterOK DEF TypeOK
<1>3. AnswerInv'
  BY <1>1 DEF AnswerInv, TrueOfAsk, EverHeld, env
<1>4. TypeOK'
  BY <1>1, <1>2, OutcomeTyped DEF TypeOK, ClientNext, Spawn, Deadline, Interrupt,
     Deliver, Settle, Results, Failures
<1>5. ChildInv' /\ WireInv'
  BY <1>1 DEF ChildInv, WireInv, ClientNext, Spawn, Deadline, Interrupt, Deliver,
     DocumentsSaying
<1>6. ResultInv'
  <2>1. CASE Spawn
    BY <1>1, <2>1 DEF ResultInv, Spawn, Settle
  <2>2. CASE Deadline
    BY <1>1, <2>2 DEF ResultInv, Deadline
  <2>3. CASE Interrupt
    BY <1>1, <2>3 DEF ResultInv, Interrupt, Settle
  <2>4. CASE Deliver
    <3>1. child' = child /\ result' = Outcome
      BY <2>4 DEF Deliver, Settle
    <3>2. Outcome' = Outcome
      BY <1>1, <3>1 DEF Outcome, FailureDocument, Fold
    <3> QED
      BY <2>4, <3>1, <3>2 DEF ResultInv, Deliver
  <2> QED
    BY <2>1, <2>2, <2>3, <2>4 DEF ClientNext
<1> QED
  BY <1>2, <1>3, <1>4, <1>5, <1>6

\* The host moves under the ask: a true answer stays true.
LEMMA HostKeeps == IInv /\ Environment => IInv'
<1> SUFFICES ASSUME IInv, Environment PROVE IInv'
  OBVIOUS
<1>1. HostTypeOK' /\ HistoryOK' /\ HistoryMoves
  BY HostStepOK DEF Environment, IInv, TypeOK
<1>2. UNCHANGED <<answer, transport>>
  BY DEF Environment
<1>3. AnswerInv'
  BY <1>1, <1>2 DEF IInv, AnswerInv, TrueOfAsk, EverHeld, HistoryMoves
<1>4. TypeOK' /\ ChildInv' /\ WireInv'
  BY <1>1, <1>2 DEF transport, IInv, TypeOK, ChildInv, WireInv, DocumentsSaying
<1>5. ResultInv'
  BY <1>2 DEF transport, IInv, ResultInv, Outcome, FailureDocument, Fold
<1> QED
  BY <1>1, <1>3, <1>4, <1>5 DEF IInv

\* The invariant, for every instance.
THEOREM Invariance == Spec => []IInv
<1>1. IInv /\ [Next]_vars => IInv'
  <2> SUFFICES ASSUME IInv, [Next]_vars PROVE IInv'
    OBVIOUS
  <2>1. CASE UNCHANGED vars
    <3>1. HostTypeOK' /\ HistoryOK'
      BY <2>1, HostStutterOK DEF vars, IInv, TypeOK
    <3>2. TypeOK' /\ ChildInv' /\ WireInv'
      BY <2>1, <3>1 DEF vars, transport, IInv, TypeOK, ChildInv, WireInv,
         DocumentsSaying
    <3>3. AnswerInv'
      BY <2>1 DEF vars, env, IInv, AnswerInv, TrueOfAsk, EverHeld
    <3>4. ResultInv'
      BY <2>1 DEF vars, transport, IInv, ResultInv, Outcome, FailureDocument,
         Fold
    <3> QED
      BY <3>1, <3>2, <3>3, <3>4 DEF IInv
  <2> QED
    BY <2>1, SenseKeeps, ChildKeeps, ClientKeeps, HostKeeps DEF Next, ChildNext
<1> QED
  BY <1>1, InitInv, PTL DEF Spec

\* Every variable keeps its type.
THEOREM TypeCorrect == Spec => []TypeOK
BY Invariance, PTL DEF IInv

\* What an occupancy was folded from: what a child of this build that exited
\* had sent, and all it had to say unless it names holders.
LEMMA FoldedFrom ==
  ASSUME IInv, result.kind \in {"held", "none", "unattributed"}
  PROVE  /\ child = "exited" /\ build = "current" /\ result = Fold(wire)
         /\ sent = "all" \/ (sent = "part" /\ result.kind = "held")
<1>1. result \notin {Pending, Abandoned} /\ \A w : result # Failure(w)
                                              \/ w \notin {"spawn", "version", "parse"}
  BY DEF Pending, Abandoned, Failure
<1>2. child \in {"exited", "killed"} /\ result = Outcome
  BY <1>1 DEF IInv, ResultInv
<1>3. /\ (child = "exited" /\ status = 0) \/ FailureDocument
      /\ build # "foreign"
      /\ sent # "nothing"
      /\ result = Fold(wire)
  BY <1>1, <1>2 DEF Outcome
<1>4. child = "exited" /\ status \in {0, 1}
  BY <1>2, <1>3 DEF FailureDocument
<1>5. build = "current"
  BY <1>3, <1>4 DEF IInv, TypeOK, Builds, ChildInv
<1>6. sent = "part" => result.kind = "held"
  BY <1>3 DEF IInv, WireInv, Fold, HeldBy
<1> QED
  BY <1>3, <1>4, <1>5, <1>6 DEF IInv, TypeOK

\* What a whole document of an answer folds to.
LEMMA WholeFold ==
  ASSUME IInv, child = "exited", build = "current", sent = "all"
  PROVE  /\ answer = Nobody => Fold(wire) = Free
         /\ answer \in {Unclaimed, Blind} => Fold(wire) = Unattributed
         /\ answer \notin {Nobody, Unclaimed, Blind} =>
              Fold(wire) = HeldBy(answer.pids)
         /\ status = 0 \/ FailureDocument
<1>1. answer \in Answers \ {Asking} /\ doc \in DocumentsSaying(answer)
  BY DEF IInv, TypeOK, ChildInv
<1>2. wire = doc
  BY DEF IInv, WireInv
<1>3. answer = Nobody => Fold(wire) = Free
  BY <1>1, <1>2, DocumentsSay DEF Fold, EmptyDocument
<1>4. answer \in {Unclaimed, Blind} => Fold(wire) = Unattributed
  BY <1>1, <1>2, DocumentsSay DEF Fold, EmptyDocument, BlindDocument
<1>5. answer \notin {Nobody, Unclaimed, Blind} =>
        Fold(wire) = HeldBy(answer.pids)
  BY <1>1, <1>2, DocumentsSay DEF Fold
<1>6. status = 0 \/ status = 1
  BY DEF IInv, ChildInv, ExitCode
<1> QED
  BY <1>3, <1>4, <1>5, <1>6 DEF FailureDocument

\* Whatever breaks under the child, and whenever it is killed: no path is said
\* to be free, or its holder nameless, on part of a document, and no occupancy
\* comes of a signalled child or of another build
\* (childFailure.ts:105-146, main.rs:88-106).
THEOREM WholeProved == Spec => []OnlyWholeDocuments
<1>1. IInv => OnlyWholeDocuments
  BY FoldedFrom DEF OnlyWholeDocuments
<1> QED
  BY <1>1, Invariance, PTL

\* A child that exited with its whole document is believed, even on the heels
\* of a deadline and even if stdout may break (childFailure.ts:127-146).
THEOREM HeardProved == Spec => []WholeDocumentIsHeard
<1>1. IInv => WholeDocumentIsHeard
  <2> SUFFICES ASSUME IInv, child = "exited", sent = "all",
                      build = "current", result \notin {Pending, Abandoned}
               PROVE  WholeDocumentIsHeard
    BY DEF WholeDocumentIsHeard
  <2>1. result = Fold(wire)
    BY WholeFold DEF IInv, ResultInv, Outcome
  <2>2. Nobody \notin {Unclaimed, Blind}
    BY DEF Nobody, Unclaimed, Blind
  <2> QED
    BY <2>1, <2>2, WholeFold DEF WholeDocumentIsHeard
<1> QED
  BY <1>1, Invariance, PTL

\* `none` is proof: no ask of a sensor without a socket table ends in it, and
\* one with a table only if no socket kept the path (client.ts:1225-1272),
\* whatever became of the child.
THEOREM FreeProved == Spec => []FreeIsProof
<1>1. IInv => FreeIsProof
  <2> SUFFICES ASSUME IInv, result = Free
               PROVE  ProvesAbsence /\ lasting = {}
    BY DEF FreeIsProof
  <2>1. /\ child = "exited" /\ build = "current" /\ Fold(wire) = Free
        /\ sent = "all"
    BY FoldedFrom DEF Free
  <2>2. answer = Nobody
    BY <2>1, WholeFold DEF Free, Unattributed, HeldBy
  <2> QED
    BY <2>2 DEF IInv, AnswerInv, TrueOfAsk, Asking, Nobody, Unclaimed, Claimed,
       Blind
<1> QED
  BY <1>1, Invariance, PTL

\* Whoever the supervisor is told of held the path during the ask, whatever
\* part of the document arrived.
THEOREM HeldProved == Spec => []HeldIsTrue
<1>1. IInv => HeldIsTrue
  <2> SUFFICES ASSUME IInv, result.kind = "held", NEW p \in result.pids
               PROVE  EverHeld(p)
    BY DEF HeldIsTrue
  <2>1. /\ child = "exited" /\ build = "current" /\ result = Fold(wire)
        /\ sent \in {"part", "all"}
    BY FoldedFrom
  <2>2. p \in doc.claimed
    BY <2>1 DEF Fold, HeldBy, Unattributed, Failure, Free, IInv, WireInv
  <2>3. answer \in Answers \ {Asking} /\ doc \in DocumentsSaying(answer)
    BY <2>1 DEF IInv, TypeOK, ChildInv
  <2>4. answer \notin {Nobody, Unclaimed, Blind} /\ p \in answer.pids
    BY <2>2, <2>3, DocumentsSay DEF EmptyDocument, BlindDocument
  <2>5. TrueOfAsk(answer)
    BY <2>3 DEF IInv, AnswerInv
  <2>6. PICK S \in (SUBSET Pids) \ {{}} :
          answer = Claimed(S) /\ \A r \in S : EverHeld(r)
    BY <2>4, <2>5 DEF TrueOfAsk
  <2> QED
    BY <2>4, <2>6 DEF Claimed
<1> QED
  BY <1>1, Invariance, PTL

-----------------------------------------------------------------------------
(* CommandLine: parse, for any arguments.                                  *)

Statuses == {"open", "help", "usage", "accepted"}

Asks == [verb : STRING, status : Statuses, roots : Seq(Int), pids : Seq(Int),
         path : SUBSET STRING, facets : SUBSET STRING, json : BOOLEAN]

\* What the parse has come to after each argument.
IsParse(f, s) ==
  f = [n \in 1..Len(s) |-> IF n = 1 THEN Start(s[1].text)
                           ELSE ReadArg(s[1].text, f[n - 1], s[n])]

\* The recursion has a solution, and the ask is its last state.
LEMMA ParseExists ==
  ASSUME NEW s \in Seq(Arguments), s # <<>>
  PROVE  /\ \/ Parse(s).status \in {"help", "usage"}
            \/ /\ s[1] = Word(s[1].text) /\ s[1].text \in Verbs
               /\ \E f : IsParse(f, s) /\ Parse(s) = EndOfArgs(f[Len(s)])
<1> DEFINE N == Len(s)
           verb == s[1].text
           Until(f, n) == f = [m \in 1..n |-> IF m = 1 THEN Start(verb)
                                              ELSE ReadArg(verb, f[m - 1], s[m])]
           S == {n \in 0..(N - 1) : \E f : Until(f, n + 1)}
<1>0. N \in Nat \ {0} /\ s[1] \in Arguments
  BY EmptySeq, ElementOfSeq
<1>1. 0 \in S
  <2> DEFINE g == [m \in 1..1 |-> Start(verb)]
  <2>1. Until(g, 0 + 1)
    OBVIOUS
  <2> HIDE DEF g, Until
  <2> QED
    BY <1>0, <2>1
<1>2. ASSUME NEW n \in 0..((N - 1) - 1), n \in S PROVE n + 1 \in S
  <2>1. PICK f : Until(f, n + 1)
    BY <1>2
  <2> DEFINE g == [m \in 1..((n + 1) + 1) |->
                     IF m <= n + 1 THEN f[m] ELSE ReadArg(verb, f[n + 1], s[(n + 1) + 1])]
  <2>2. ASSUME NEW m \in 1..((n + 1) + 1)
        PROVE  g[m] = IF m = 1 THEN Start(verb) ELSE ReadArg(verb, g[m - 1], s[m])
    <3>1. CASE m = 1
      BY <2>1, <3>1
    <3>2. CASE m \in 2..(n + 1)
      <4>1. g[m] = f[m] /\ g[m - 1] = f[m - 1]
        BY <3>2
      <4> QED
        BY <2>1, <3>2, <4>1
    <3>3. CASE m = (n + 1) + 1
      <4>1. g[m] = ReadArg(verb, f[n + 1], s[m]) /\ g[m - 1] = f[n + 1]
        BY <3>3
      <4> QED
        BY <3>3, <4>1
    <3> QED
      BY <3>1, <3>2, <3>3
  <2>3. Until(g, (n + 1) + 1)
    BY <2>2
  <2> HIDE DEF g, Until
  <2> QED
    BY <1>0, <2>3
<1>3. N - 1 \in S
  <2> HIDE DEF S
  <2>1. N - 1 \in Nat
    BY <1>0
  <2>2. 0..(N - 1) \subseteq S
    BY <1>1, <1>2, <2>1, UpTo
  <2> QED
    BY <1>0, <2>2
<1>4. \E f : IsParse(f, s)
  <2>1. (N - 1) + 1 = N
    BY <1>0
  <2> QED
    BY <1>3, <2>1 DEF IsParse
<1>5. CASE s[1] = Help \/ s[1] = Word("help")
  <2>1. Parse(s) = Ended("", "help")
    BY <1>5 DEF Parse
  <2> QED
    BY <2>1 DEF Ended, Start
<1>6. CASE ~(s[1] = Help \/ s[1] = Word("help")) /\ (s[1].kind # "word" \/ s[1].text \notin Verbs)
  <2>1. Parse(s) = Ended("", "usage")
    BY <1>6 DEF Parse
  <2> QED
    BY <2>1 DEF Ended, Start
<1>7. CASE ~(s[1] = Help \/ s[1] = Word("help")) /\ s[1].kind = "word" /\ s[1].text \in Verbs
  <2> DEFINE F == CHOOSE f : IsParse(f, s)
  <2>1. IsParse(F, s)
    BY <1>4
  <2>2. Parse(s) = EndOfArgs(F[Len(s)])
    BY <1>7 DEF Parse, IsParse
  <2>3. s[1] = Word(s[1].text)
    BY <1>0, <1>7 DEF Arguments, Word
  <2> QED
    BY <1>7, <2>1, <2>2, <2>3
<1> QED
  BY <1>5, <1>6, <1>7

IsOption(arg, text) == arg.kind = "option" /\ arg.text = text

\* `list` is the last one given with an option up to n, <<>> if there is none.
LastUpTo(s, n, text, list) ==
  \/ list = <<>> /\ \A m \in 2..n : ~IsOption(s[m], text)
  \/ \E m \in 2..n : /\ IsOption(s[m], text) /\ list = s[m].list
                     /\ \A l \in (m + 1)..n : ~IsOption(s[l], text)

\* What an open parse has made of the arguments up to the n-th.
ReadUpTo(a, s, n) ==
  /\ a.verb = s[1].text
  /\ a.json <=> \E m \in 2..n : IsOption(s[m], "json")
  /\ a.facets = {s[m].text : m \in {l \in 2..n : s[l].kind = "option"}}
                  \ {"json", "roots", "pids"}
  /\ LastUpTo(s, n, "roots", a.roots)
  /\ LastUpTo(s, n, "pids", a.pids)
  /\ a.roots = <<>> \/ a.pids = <<>>
  /\ \A m \in 2..n : IsOption(s[m], "roots") \/ IsOption(s[m], "pids") => PidList(s[m].list)
  /\ a.path = {s[m].text : m \in {l \in 2..n : s[l].kind = "word"}}
  /\ \A l, m \in 2..n : s[l].kind = "word" /\ s[m].kind = "word" => l = m
  /\ a.path # {} => a.verb = "socket-holders"
  /\ a.verb = "socket-holders" => a.facets \subseteq {"procs"}
  /\ a.verb = "host" => a.facets \subseteq HostFacets

\* The effects an argument may have on an open parse that stays open.
Effect(a, arg, b) ==
  \/ /\ arg.kind = "option" /\ arg.text \notin {"json", "roots", "pids"}
     /\ a.verb = "socket-holders" => arg.text = "procs"
     /\ a.verb = "host" => arg.text \in HostFacets
     /\ b = [a EXCEPT !.facets = a.facets \cup {arg.text}]
  \/ /\ IsOption(arg, "json")
     /\ b = [a EXCEPT !.json = TRUE]
  \/ /\ IsOption(arg, "roots") /\ PidList(arg.list) /\ a.pids = <<>>
     /\ b = [a EXCEPT !.roots = arg.list]
  \/ /\ IsOption(arg, "pids") /\ PidList(arg.list) /\ a.roots = <<>>
     /\ b = [a EXCEPT !.pids = arg.list]
  \/ /\ arg.kind = "word" /\ a.path = {} /\ a.verb = "socket-holders"
     /\ b = [a EXCEPT !.path = {arg.text}]

LEMMA ReadArgOK ==
  ASSUME NEW a \in Asks, NEW arg \in Arguments, a.verb \in Verbs,
         a.verb = "socket-holders" => a.facets \subseteq {"procs"}
  PROVE  LET b == ReadArg(a.verb, a, arg)
         IN  /\ b \in Asks /\ b.verb = a.verb
             /\ a.status \in {"help", "usage"} => b.status = a.status
             /\ b.status \in {"open", "help", "usage", a.status}
             /\ b.status = "open" => a.status = "open" /\ Effect(a, arg, b)
<1> DEFINE b == ReadArg(a.verb, a, arg)
<1>0. /\ a = [verb |-> a.verb, status |-> a.status, roots |-> a.roots, pids |-> a.pids,
              path |-> a.path, facets |-> a.facets, json |-> a.json]
      /\ a.roots \in Seq(Int) /\ a.pids \in Seq(Int) /\ a.path \subseteq STRING
      /\ a.facets \subseteq STRING /\ a.json \in BOOLEAN /\ a.status \in Statuses
      /\ a.verb \in STRING
  BY DEF Asks
<1>1. /\ arg.kind \in {"word", "option"} /\ arg.text \in STRING /\ arg.list \in Seq(Int)
      /\ arg.kind = "word" => arg.list = <<>>
      /\ arg = [kind |-> arg.kind, text |-> arg.text, list |-> arg.list]
  BY EmptySeq DEF Arguments
<1>2. CASE a.status # "open"
  <2>1. b = a
    BY <1>2 DEF ReadArg
  <2> QED
    BY <1>2, <2>1
<1>3. CASE a.status = "open"
  <2> DEFINE Stops == \E fate \in {"help", "usage"} : b = [a EXCEPT !.status = fate]
  <2>1. Stops \/ Effect(a, arg, b)
    <3>1. CASE a.verb = "snapshot"
      <4>1. b = ReadSnapshotArg(a, arg)
        BY <1>3, <3>1 DEF ReadArg
      <4> QED
        BY <1>1, <3>1, <4>1 DEF ReadSnapshotArg, Effect, IsOption, Help, Flag, PidList,
                                SnapshotFacets
    <3>2. CASE a.verb = "socket-holders"
      <4>1. b = ReadHoldersArg(a, arg)
        BY <1>3, <3>2 DEF ReadArg
      <4>2. a.facets \cup {"procs"} = {"procs"}
        BY <3>2
      <4> QED
        BY <1>1, <3>2, <4>1, <4>2 DEF ReadHoldersArg, Effect, IsOption, Help, Flag
    <3>3. CASE a.verb = "host"
      <4>1. b = ReadHostArg(a, arg)
        BY <1>3, <3>3 DEF ReadArg
      <4> QED
        BY <1>1, <3>3, <4>1 DEF ReadHostArg, Effect, IsOption, Help, Flag, HostFacets
    <3> QED
      BY <3>1, <3>2, <3>3 DEF Verbs
  <2>2. CASE Stops
    BY <1>0, <1>3, <2>2 DEF Asks, Statuses
  <2>3. CASE Effect(a, arg, b)
    <3>1. b \in Asks
      <4>1. \A fate \in Statuses, roots, pids \in Seq(Int), path, facets \in SUBSET STRING,
               json \in BOOLEAN :
              [verb |-> a.verb, status |-> fate, roots |-> roots, pids |-> pids,
               path |-> path, facets |-> facets, json |-> json] \in Asks
        BY <1>0 DEF Asks
      <4>2. a.facets \cup {arg.text} \in SUBSET STRING /\ {arg.text} \in SUBSET STRING
        BY <1>0, <1>1
      <4>3. \E roots, pids \in Seq(Int), path, facets \in SUBSET STRING, json \in BOOLEAN :
              b = [verb |-> a.verb, status |-> a.status, roots |-> roots, pids |-> pids,
                   path |-> path, facets |-> facets, json |-> json]
        <5>1. CASE b = [a EXCEPT !.facets = a.facets \cup {arg.text}]
          BY <1>0, <4>2, <5>1
        <5>2. CASE b = [a EXCEPT !.json = TRUE]
          BY <1>0, <5>2
        <5>3. CASE b = [a EXCEPT !.roots = arg.list]
          BY <1>0, <1>1, <5>3
        <5>4. CASE b = [a EXCEPT !.pids = arg.list]
          BY <1>0, <1>1, <5>4
        <5>5. CASE b = [a EXCEPT !.path = {arg.text}]
          BY <1>0, <4>2, <5>5
        <5> QED
          BY <2>3, <5>1, <5>2, <5>3, <5>4, <5>5 DEF Effect
      <4>4. PICK roots, pids \in Seq(Int), path, facets \in SUBSET STRING, json \in BOOLEAN :
              b = [verb |-> a.verb, status |-> a.status, roots |-> roots, pids |-> pids,
                   path |-> path, facets |-> facets, json |-> json]
        BY <4>3
      <4>5. a.status \in Statuses
        BY <1>0
      <4> HIDE DEF b
      <4> QED
        BY <4>1, <4>4, <4>5, Zenon
    <3>2. b.verb = a.verb /\ b.status = a.status
      BY <1>0, <2>3 DEF Effect
    <3> QED
      BY <1>3, <2>3, <3>1, <3>2
  <2> QED
    BY <2>1, <2>2, <2>3
<1> QED
  BY <1>2, <1>3

\* What an open parse has read, it has read after one more argument.
LEMMA ReadOneMore ==
  ASSUME NEW s, NEW n \in Nat \ {0}, NEW a \in Asks, ReadUpTo(a, s, n),
         s[n + 1] \in Arguments, NEW b, Effect(a, s[n + 1], b)
  PROVE  ReadUpTo(b, s, n + 1)
<1> DEFINE arg == s[n + 1]
<1>0. /\ a = [verb |-> a.verb, status |-> a.status, roots |-> a.roots, pids |-> a.pids,
              path |-> a.path, facets |-> a.facets, json |-> a.json]
  BY DEF Asks
<1>1. 2..(n + 1) = (2..n) \cup {n + 1} /\ n + 1 \notin 2..n
  OBVIOUS
<1>2. ASSUME NEW text, NEW list
      PROVE  /\ ~IsOption(arg, text) /\ LastUpTo(s, n, text, list) =>
                  LastUpTo(s, n + 1, text, list)
             /\ IsOption(arg, text) => LastUpTo(s, n + 1, text, arg.list)
  <2>1. ASSUME ~IsOption(arg, text), list = <<>>, \A m \in 2..n : ~IsOption(s[m], text)
        PROVE  LastUpTo(s, n + 1, text, list)
    BY <1>1, <2>1 DEF LastUpTo
  <2>2. ASSUME ~IsOption(arg, text), NEW m \in 2..n, IsOption(s[m], text), list = s[m].list,
               \A l \in (m + 1)..n : ~IsOption(s[l], text)
        PROVE  LastUpTo(s, n + 1, text, list)
    <3>1. (m + 1)..(n + 1) = ((m + 1)..n) \cup {n + 1} /\ m \in 2..(n + 1)
      OBVIOUS
    <3> QED
      BY <2>2, <3>1 DEF LastUpTo
  <2>3. ASSUME IsOption(arg, text) PROVE LastUpTo(s, n + 1, text, arg.list)
    <3>1. n + 1 \in 2..(n + 1) /\ ((n + 1) + 1)..(n + 1) = {}
      OBVIOUS
    <3> QED
      BY <2>3, <3>1 DEF LastUpTo
  <2> QED
    BY <2>1, <2>2, <2>3 DEF LastUpTo
<1>3. /\ \A text : (\E m \in 2..(n + 1) : IsOption(s[m], text)) <=>
                     (\E m \in 2..n : IsOption(s[m], text)) \/ IsOption(arg, text)
      /\ {s[m].text : m \in {l \in 2..(n + 1) : s[l].kind = "option"}} =
           {s[m].text : m \in {l \in 2..n : s[l].kind = "option"}}
             \cup (IF arg.kind = "option" THEN {arg.text} ELSE {})
      /\ {s[m].text : m \in {l \in 2..(n + 1) : s[l].kind = "word"}} =
           {s[m].text : m \in {l \in 2..n : s[l].kind = "word"}}
             \cup (IF arg.kind = "word" THEN {arg.text} ELSE {})
  BY <1>1
<1>4. CASE /\ arg.kind = "option" /\ arg.text \notin {"json", "roots", "pids"}
           /\ a.verb = "socket-holders" => arg.text = "procs"
           /\ a.verb = "host" => arg.text \in HostFacets
           /\ b = [a EXCEPT !.facets = a.facets \cup {arg.text}]
  <2>1. /\ b.facets = a.facets \cup {arg.text} /\ b.verb = a.verb /\ b.json = a.json
        /\ b.roots = a.roots /\ b.pids = a.pids /\ b.path = a.path
    BY <1>0, <1>4
  <2>2. ~IsOption(arg, "json") /\ ~IsOption(arg, "roots") /\ ~IsOption(arg, "pids")
        /\ arg.kind # "word"
    BY <1>4 DEF IsOption
  <2> QED
    BY <1>1, <1>2, <1>3, <1>4, <2>1, <2>2 DEF ReadUpTo
<1>5. CASE IsOption(arg, "json") /\ b = [a EXCEPT !.json = TRUE]
  <2>1. /\ b.facets = a.facets /\ b.verb = a.verb /\ b.json = TRUE
        /\ b.roots = a.roots /\ b.pids = a.pids /\ b.path = a.path
    BY <1>0, <1>5
  <2>2. ~IsOption(arg, "roots") /\ ~IsOption(arg, "pids")
        /\ arg.kind # "word" /\ arg.kind = "option" /\ arg.text = "json"
    BY <1>5 DEF IsOption
  <2> QED
    BY <1>1, <1>2, <1>3, <1>5, <2>1, <2>2 DEF ReadUpTo
<1>6. CASE /\ IsOption(arg, "roots") /\ PidList(arg.list) /\ a.pids = <<>>
           /\ b = [a EXCEPT !.roots = arg.list]
  <2>1. /\ b.facets = a.facets /\ b.verb = a.verb /\ b.json = a.json
        /\ b.roots = arg.list /\ b.pids = a.pids /\ b.path = a.path
    BY <1>0, <1>6
  <2>2. ~IsOption(arg, "json") /\ ~IsOption(arg, "pids")
        /\ arg.kind # "word" /\ arg.kind = "option" /\ arg.text = "roots"
    BY <1>6 DEF IsOption
  <2> QED
    BY <1>1, <1>2, <1>3, <1>6, <2>1, <2>2 DEF ReadUpTo
<1>7. CASE /\ IsOption(arg, "pids") /\ PidList(arg.list) /\ a.roots = <<>>
           /\ b = [a EXCEPT !.pids = arg.list]
  <2>1. /\ b.facets = a.facets /\ b.verb = a.verb /\ b.json = a.json
        /\ b.roots = a.roots /\ b.pids = arg.list /\ b.path = a.path
    BY <1>0, <1>7
  <2>2. ~IsOption(arg, "json") /\ ~IsOption(arg, "roots")
        /\ arg.kind # "word" /\ arg.kind = "option" /\ arg.text = "pids"
    BY <1>7 DEF IsOption
  <2> QED
    BY <1>1, <1>2, <1>3, <1>7, <2>1, <2>2 DEF ReadUpTo
<1>8. CASE /\ arg.kind = "word" /\ a.path = {} /\ a.verb = "socket-holders"
           /\ b = [a EXCEPT !.path = {arg.text}]
  <2>1. /\ b.facets = a.facets /\ b.verb = a.verb /\ b.json = a.json
        /\ b.roots = a.roots /\ b.pids = a.pids /\ b.path = {arg.text}
    BY <1>0, <1>8
  <2>2. ~IsOption(arg, "json") /\ ~IsOption(arg, "roots") /\ ~IsOption(arg, "pids")
        /\ arg.kind # "option"
    BY <1>8 DEF IsOption
  <2>3. \A m \in 2..n : s[m].kind # "word"
    <3>1. {s[m].text : m \in {l \in 2..n : s[l].kind = "word"}} = {}
      BY <1>8 DEF ReadUpTo
    <3> QED
      BY <3>1
  <2> QED
    BY <1>1, <1>2, <1>3, <1>8, <2>1, <2>2, <2>3 DEF ReadUpTo
<1> QED
  BY <1>4, <1>5, <1>6, <1>7, <1>8 DEF Effect

\* Every parse ends, and an accepted one has read every argument.
LEMMA ParseOK ==
  ASSUME NEW s \in Seq(Arguments)
  PROVE  /\ Parse(s).status \in {"help", "usage", "accepted"}
         /\ Parse(s).status = "accepted" =>
              /\ Parse(s) \in Asks
              /\ s # <<>> /\ s[1] = Word(Parse(s).verb) /\ Parse(s).verb \in Verbs
              /\ ReadUpTo(Parse(s), s, Len(s))
              /\ IF Parse(s).verb = "socket-holders" THEN Parse(s).path # {}
                                                     ELSE Parse(s).facets # {}
<1> DEFINE N == Len(s)
<1>1. CASE s = <<>>
  <2>1. Parse(s) = Ended("", "help")
    BY <1>1 DEF Parse
  <2> QED
    BY <2>1 DEF Ended, Start
<1>2. CASE Parse(s).status \in {"help", "usage"}
  BY <1>2
<1>3. CASE /\ s # <<>> /\ s[1] = Word(s[1].text) /\ s[1].text \in Verbs
           /\ \E f : IsParse(f, s) /\ Parse(s) = EndOfArgs(f[Len(s)])
  <2>1. PICK f : IsParse(f, s) /\ Parse(s) = EndOfArgs(f[N])
    BY <1>3
  <2>2. N \in Nat \ {0} /\ \A n \in 1..N : s[n] \in Arguments
    BY <1>3, EmptySeq, ElementOfSeq
  <2>3. f[1] = Start(s[1].text) /\ \A n \in 2..N : f[n] = ReadArg(s[1].text, f[n - 1], s[n])
    <3>1. f = [n \in 1..N |-> IF n = 1 THEN Start(s[1].text)
                              ELSE ReadArg(s[1].text, f[n - 1], s[n])]
      BY <2>1 DEF IsParse
    <3> HIDE DEF N
    <3>2. f[1] = Start(s[1].text)
      BY <2>2, <3>1
    <3>3. \A n \in 2..N : f[n] = ReadArg(s[1].text, f[n - 1], s[n])
      BY <2>2, <3>1
    <3> QED
      BY <3>2, <3>3
  <2> DEFINE OK(n) == /\ f[n] \in Asks /\ f[n].verb = s[1].text
                      /\ f[n].status \in {"open", "help", "usage"}
                      /\ f[n].status = "open" => ReadUpTo(f[n], s, n)
             S == {n \in 0..(N - 1) : OK(n + 1)}
  <2>4. 0 \in S
    <3>1. s[1].text \in STRING
      BY <2>2 DEF Arguments
    <3>2. /\ f[1] = [verb |-> s[1].text, status |-> "open", roots |-> <<>>, pids |-> <<>>,
                     path |-> {}, facets |-> {}, json |-> FALSE]
          /\ <<>> \in Seq(Int)
      BY <2>3, EmptySeq DEF Start
    <3>3. f[1] \in Asks
      BY <3>1, <3>2 DEF Asks, Statuses
    <3>4. ReadUpTo(f[1], s, 1)
      <4>1. 2..1 = {}
        OBVIOUS
      <4> QED
        BY <3>2, <4>1 DEF ReadUpTo, LastUpTo
    <3>5. OK(0 + 1) /\ 0 \in 0..(N - 1)
      BY <2>2, <3>2, <3>3, <3>4
    <3> QED
      BY <3>5
  <2>5. ASSUME NEW n \in 0..((N - 1) - 1), n \in S PROVE n + 1 \in S
    <3> DEFINE a == f[n + 1]
               arg == s[(n + 1) + 1]
               b == f[(n + 1) + 1]
    <3>1. /\ (n + 1) + 1 \in 2..N /\ ((n + 1) + 1) - 1 = n + 1 /\ n + 1 \in Nat \ {0}
          /\ n + 1 \in 0..(N - 1) /\ (n + 1) + 1 \in 1..N
      BY <2>2
    <3>2. arg \in Arguments /\ b = ReadArg(s[1].text, a, arg)
      BY <2>2, <2>3, <3>1
    <3>3. /\ a \in Asks /\ a.verb = s[1].text /\ a.status \in {"open", "help", "usage"}
          /\ a.status = "open" => ReadUpTo(a, s, n + 1)
      BY <2>5
    <3> HIDE DEF a, b
    <3>4. CASE a.status = "open"
      <4>1. a.verb \in Verbs /\ (a.verb = "socket-holders" => a.facets \subseteq {"procs"})
        BY <1>3, <3>3, <3>4 DEF ReadUpTo
      <4>2. /\ b \in Asks /\ b.verb = a.verb
            /\ b.status \in {"open", "help", "usage"}
            /\ b.status = "open" => Effect(a, arg, b)
        BY <3>2, <3>3, <3>4, <4>1, ReadArgOK
      <4>3. b.status = "open" => ReadUpTo(b, s, (n + 1) + 1)
        BY <3>1, <3>2, <3>3, <3>4, <4>2, ReadOneMore
      <4>4. OK((n + 1) + 1)
        BY <3>3, <4>2, <4>3 DEF b
      <4> QED
        BY <3>1, <4>4
    <3>5. CASE a.status # "open"
      <4>1. b = a
        BY <3>2, <3>5 DEF ReadArg
      <4>2. OK((n + 1) + 1)
        BY <3>3, <3>5, <4>1 DEF b
      <4> QED
        BY <3>1, <4>2
    <3> QED
      BY <3>4, <3>5
  <2>6. OK(N)
    <3> HIDE DEF S
    <3>1. N - 1 \in Nat /\ (N - 1) + 1 = N /\ N - 1 \in 0..(N - 1)
      BY <2>2
    <3>2. 0..(N - 1) \subseteq S
      BY <2>4, <2>5, <3>1, UpTo
    <3>3. OK((N - 1) + 1)
      BY <3>1, <3>2 DEF S
    <3> QED
      BY <3>1, <3>3
  <2> DEFINE a == f[N]
             b == Parse(s)
  <2>7. /\ a \in Asks /\ a.verb = s[1].text /\ a.status \in {"open", "help", "usage"}
        /\ a.status = "open" => ReadUpTo(a, s, N)
    BY <2>6
  <2>8. b = EndOfArgs(a)
    BY <2>1
  <2> HIDE DEF a, b, N
  <2>9. /\ a = [verb |-> a.verb, status |-> a.status, roots |-> a.roots, pids |-> a.pids,
                path |-> a.path, facets |-> a.facets, json |-> a.json]
    BY <2>7 DEF Asks
  <2>10. CASE a.status # "open"
    <3>1. b = a
      BY <2>8, <2>10 DEF EndOfArgs
    <3>2. b.status \in {"help", "usage"}
      BY <2>7, <2>10, <3>1
    <3> QED
      BY <3>2 DEF b
  <2>11. CASE a.status = "open"
    <3>1. PICK fate \in {"usage", "accepted"} :
            /\ b = [a EXCEPT !.status = fate]
            /\ fate = "accepted" =>
                 IF a.verb = "socket-holders" THEN ~(a.path \subseteq {""}) ELSE a.facets # {}
      BY <2>8, <2>11 DEF EndOfArgs
    <3>2. /\ b = [verb |-> a.verb, status |-> fate, roots |-> a.roots, pids |-> a.pids,
                  path |-> a.path, facets |-> a.facets, json |-> a.json]
      BY <2>9, <3>1
    <3>3. b \in Asks
      BY <2>7, <3>2 DEF Asks, Statuses
    <3>4. ReadUpTo(b, s, N)
      BY <2>7, <2>11, <3>2 DEF ReadUpTo
    <3>5. b.status = "accepted" => IF b.verb = "socket-holders" THEN b.path # {} ELSE b.facets # {}
      BY <3>1, <3>2
    <3>6. b.verb = s[1].text /\ b.status \in {"usage", "accepted"}
      BY <2>7, <3>2
    <3> QED
      BY <1>3, <3>3, <3>4, <3>5, <3>6 DEF b, N
  <2> QED
    BY <2>10, <2>11
<1> QED
  BY <1>1, <1>2, <1>3, ParseExists

\* An accepted ask is what was written.
LEMMA AcceptedAsWritten ==
  ASSUME NEW s \in Seq(Arguments), NEW a \in Asks, s # <<>>, s[1] = Word(a.verb),
         ReadUpTo(a, s, Len(s)),
         IF a.verb = "socket-holders" THEN a.path # {} ELSE a.facets # {}
  PROVE  LET rest == Tail(s)
         IN  /\ s[1] = Word(a.verb)
             /\ a.json <=> "json" \in OptionsOf(rest)
             /\ a.facets = OptionsOf(rest) \ {"json", "roots", "pids"}
             /\ a.facets # {} \/ a.verb = "socket-holders"
             /\ a.roots = LastList(rest, "roots")
             /\ a.pids = LastList(rest, "pids")
             /\ ~({"roots", "pids"} \subseteq OptionsOf(rest))
             /\ \A n \in DOMAIN rest :
                  rest[n].kind = "option" /\ rest[n].text \in {"roots", "pids"} =>
                    rest[n].list # <<>> /\ \A m \in DOMAIN rest[n].list : rest[n].list[m] >= 1
             /\ {rest[n].text : n \in {m \in DOMAIN rest : rest[m].kind = "word"}} = a.path
             /\ a.path # {} <=> a.verb = "socket-holders"
             /\ \A m, n \in DOMAIN rest : rest[m].kind = "word" /\ rest[n].kind = "word" => m = n
<1> DEFINE N    == Len(s)
           rest == Tail(s)
<1>1. /\ N \in Nat \ {0} /\ DOMAIN rest = 1..(N - 1)
      /\ \A n \in 1..(N - 1) : rest[n] = s[n + 1]
      /\ \A n \in 2..N : n - 1 \in 1..(N - 1) /\ s[n] = rest[n - 1] /\ s[n] \in Arguments
  <2>1. N \in Nat \ {0}
    BY EmptySeq
  <2>2. rest \in Seq(Arguments) /\ Len(rest) = N - 1
        /\ \A n \in 1..Len(rest) : rest[n] = s[n + 1]
    BY HeadTailProperties
  <2>3. DOMAIN rest = 1..Len(rest)
    BY <2>2, LenProperties
  <2> HIDE DEF rest
  <2>4. \A n \in 2..N : n - 1 \in 1..(N - 1) /\ (n - 1) + 1 = n /\ n \in 1..N
    BY <2>1
  <2>5. \A n \in 2..N : s[n] \in Arguments
    BY <2>4, ElementOfSeq
  <2> QED
    BY <2>1, <2>2, <2>3, <2>4, <2>5
<1> HIDE DEF N, rest
<1>2. ReadUpTo(a, s, N)
  BY DEF N
<1>3. ASSUME NEW kind
      PROVE  {s[m].text : m \in {l \in 2..N : s[l].kind = kind}} =
               {rest[n].text : n \in {m \in DOMAIN rest : rest[m].kind = kind}}
  <2>1. ASSUME NEW m \in 2..N, s[m].kind = kind
        PROVE  \E n \in DOMAIN rest : rest[n].kind = kind /\ rest[n].text = s[m].text
    BY <1>1, <2>1
  <2>2. ASSUME NEW n \in DOMAIN rest, rest[n].kind = kind
        PROVE  \E m \in 2..N : s[m].kind = kind /\ rest[n].text = s[m].text
    <3>1. n + 1 \in 2..N /\ rest[n] = s[n + 1]
      BY <1>1
    <3> QED
      BY <2>2, <3>1
  <2>3. \A x : x \in {s[m].text : m \in {l \in 2..N : s[l].kind = kind}} <=>
                \E m \in 2..N : s[m].kind = kind /\ x = s[m].text
    OBVIOUS
  <2>4. \A x : x \in {rest[n].text : n \in {m \in DOMAIN rest : rest[m].kind = kind}} <=>
                \E n \in DOMAIN rest : rest[n].kind = kind /\ x = rest[n].text
    OBVIOUS
  <2> QED
    BY <2>1, <2>2, <2>3, <2>4
<1>4. \A text : text \in OptionsOf(rest) <=> \E m \in 2..N : IsOption(s[m], text)
  <2>1. OptionsOf(rest) = {s[m].text : m \in {l \in 2..N : s[l].kind = "option"}}
    BY <1>3 DEF OptionsOf
  <2> QED
    BY <2>1 DEF IsOption
<1>5. ASSUME NEW text, NEW list, LastUpTo(s, N, text, list)
      PROVE  list = LastList(rest, text)
  <2> DEFINE given == {n \in DOMAIN rest : rest[n].kind = "option" /\ rest[n].text = text}
             last  == CHOOSE n \in given : \A m \in given : m <= n
  <2>1. \A n \in 1..(N - 1) : n \in given <=> IsOption(s[n + 1], text)
    BY <1>1 DEF IsOption
  <2>2. LastList(rest, text) = IF given = {} THEN <<>> ELSE rest[last].list
    BY DEF LastList
  <2>3. CASE list = <<>> /\ \A m \in 2..N : ~IsOption(s[m], text)
    <3>1. \A n \in 1..(N - 1) : n + 1 \in 2..N
      BY <1>1
    <3>2. given = {}
      BY <1>1, <2>1, <2>3, <3>1
    <3> QED
      BY <2>2, <2>3, <3>2
  <2>4. CASE \E m \in 2..N : /\ IsOption(s[m], text) /\ list = s[m].list
                             /\ \A l \in (m + 1)..N : ~IsOption(s[l], text)
    <3>1. PICK m \in 2..N : /\ IsOption(s[m], text) /\ list = s[m].list
                            /\ \A l \in (m + 1)..N : ~IsOption(s[l], text)
      BY <2>4
    <3>2. m - 1 \in 1..(N - 1) /\ (m - 1) + 1 = m
      BY <1>1
    <3>3. m - 1 \in given
      BY <2>1, <3>1, <3>2
    <3>4. \A n \in given : n \in 1..(N - 1) /\ n <= m - 1
      <4> SUFFICES ASSUME NEW n \in given PROVE n \in 1..(N - 1) /\ n <= m - 1
        OBVIOUS
      <4>1. n \in 1..(N - 1)
        BY <1>1
      <4>2. IsOption(s[n + 1], text)
        BY <2>1, <4>1
      <4>3. n + 1 \notin (m + 1)..N
        BY <3>1, <4>2
      <4> QED
        BY <1>1, <3>2, <4>1, <4>3
    <3> HIDE DEF given
    <3>5. last \in given /\ \A n \in given : n <= last
      BY <3>3, <3>4
    <3> HIDE DEF last
    <3>6. last = m - 1
      BY <3>2, <3>3, <3>4, <3>5
    <3>7. rest[last] = s[m]
      BY <1>1, <3>2, <3>6
    <3> QED
      BY <2>2, <3>1, <3>3, <3>7
  <2> QED
    BY <1>5, <2>3, <2>4 DEF LastUpTo
<1>6. a.json <=> "json" \in OptionsOf(rest)
  BY <1>2, <1>4 DEF ReadUpTo
<1>7. a.facets = OptionsOf(rest) \ {"json", "roots", "pids"}
  <2>1. OptionsOf(rest) = {s[m].text : m \in {l \in 2..N : s[l].kind = "option"}}
    BY <1>3 DEF OptionsOf
  <2>2. a.facets = {s[m].text : m \in {l \in 2..N : s[l].kind = "option"}}
                     \ {"json", "roots", "pids"}
    BY <1>2 DEF ReadUpTo
  <2> QED
    BY <2>1, <2>2
<1>8. a.roots = LastList(rest, "roots") /\ a.pids = LastList(rest, "pids")
  BY <1>2, <1>5 DEF ReadUpTo
<1>9. \A m \in 2..N : IsOption(s[m], "roots") \/ IsOption(s[m], "pids") => PidList(s[m].list)
  BY <1>2 DEF ReadUpTo
<1>10. ~({"roots", "pids"} \subseteq OptionsOf(rest))
  <2>1. \A text \in {"roots", "pids"} : \A list :
          (\E m \in 2..N : IsOption(s[m], text)) /\ LastUpTo(s, N, text, list) => list # <<>>
    BY <1>9 DEF LastUpTo, PidList
  <2>2. LastUpTo(s, N, "roots", a.roots) /\ LastUpTo(s, N, "pids", a.pids)
        /\ (a.roots = <<>> \/ a.pids = <<>>)
    BY <1>2 DEF ReadUpTo
  <2> QED
    BY <1>4, <2>1, <2>2
<1>11. ASSUME NEW n \in DOMAIN rest, rest[n].kind = "option", rest[n].text \in {"roots", "pids"}
       PROVE  rest[n].list # <<>> /\ \A m \in DOMAIN rest[n].list : rest[n].list[m] >= 1
  <2>1. n + 1 \in 2..N /\ s[n + 1] = rest[n] /\ s[n + 1] \in Arguments
    BY <1>1
  <2> DEFINE list == rest[n].list
  <2>2. PidList(list)
    BY <1>9, <1>11, <2>1 DEF IsOption
  <2>3. list \in Seq(Int)
    BY <2>1, EmptySeq DEF Arguments
  <2> HIDE DEF list
  <2>4. DOMAIN list = 1..Len(list) /\ \A m \in 1..Len(list) : list[m] \in Int
    BY <2>3, LenProperties, ElementOfSeq
  <2>5. list # <<>> /\ \A m \in DOMAIN list : list[m] >= 1
    BY <2>2, <2>4 DEF PidList
  <2> QED
    BY <2>5 DEF list
<1>12. {rest[n].text : n \in {m \in DOMAIN rest : rest[m].kind = "word"}} = a.path
  BY <1>2, <1>3 DEF ReadUpTo
<1>13. a.path # {} <=> a.verb = "socket-holders"
  BY <1>2 DEF ReadUpTo
<1>14. ASSUME NEW m \in DOMAIN rest, NEW n \in DOMAIN rest, rest[m].kind = "word",
              rest[n].kind = "word"
       PROVE  m = n
  <2>1. m \in 1..(N - 1) /\ n \in 1..(N - 1) /\ m + 1 \in 2..N /\ n + 1 \in 2..N
    BY <1>1
  <2>2. s[m + 1].kind = "word" /\ s[n + 1].kind = "word"
    BY <1>1, <1>14, <2>1
  <2>3. m + 1 = n + 1
    BY <1>2, <2>1, <2>2 DEF ReadUpTo
  <2> QED
    BY <2>1, <2>3
<1>15. a.facets # {} \/ a.verb = "socket-holders"
  OBVIOUS
<1> QED
  BY <1>6, <1>7, <1>8, <1>10, <1>11, <1>12, <1>13, <1>14, <1>15 DEF rest

-----------------------------------------------------------------------------
(* Osfacts                                                                 *)

Readings == {"uptime", "load", "mem", "cpu", "net", "disk"}

\* What the host's document has to answer: nothing before the ask is parsed, or
\* if it is another's.
Needs == IF phase # "parse" /\ ask.status = "accepted" /\ ask.verb = "host"
         THEN ask.facets \cup {"uptime"} ELSE {}

CostsOf(f) == {e \in lost : e.facet = f}

Untouched(f) == Facts[f] \cap told = {} /\ CostsOf(f) = {}
Settled(f)   == \/ Facts[f] \subseteq told /\ CostsOf(f) = {}
                \/ Facts[f] \cap told = {} /\ \E c : CostsOf(f) = {c}

\* main reads the command line once, and goes by what it read.
Parsed ==
  /\ args \in ArgLists
  /\ phase \in {"parse", "version", "sensor", "emit", "exited"}
  /\ ask = IF phase = "parse" THEN Start("") ELSE Parse(args)
  /\ phase = "version" => ask.status \in {"help", "usage"}
  /\ phase \in {"sensor", "emit"} => ask.status = "accepted"

\* A facet is answered when it is not to do any more, and not before.
Reported ==
  /\ platform \in {"linux", "darwin"}
  /\ Needs \subseteq Readings
  /\ asked = Needs \ {"uptime"}
  /\ todo \subseteq Needs
  /\ \A f \in Readings : IF f \in Needs \ todo THEN Settled(f) ELSE Untouched(f)
  /\ Needs = {} => told = {} /\ lost = {}
  /\ phase = "emit" => todo = {}

\* The two of the cpus' readings that take several steps.
CpusRead ==
  /\ step \in {"none", "metadata", "buffer"}
  /\ step # "none" => "cpu" \in todo
  /\ online \in moments
  /\ "cpus" \in told => cpus \in moments
  /\ buffers \in [taken : Nat, returned : Nat]
  /\ buffers.taken = buffers.returned + (IF step = "buffer" THEN 1 ELSE 0)

MainInv ==
  /\ Parsed /\ Reported /\ CpusRead
  /\ phase \in {"parse", "version", "sensor"} => report = Blank
  /\ report.errors \in BOOLEAN /\ report.unreadable \in BOOLEAN
  /\ OutcomeIsHonest

-----------------------------------------------------------------------------
(* What main writes.                                                       *)

LineNames == {"json", "V", "procs", "mem", "start-time", "cpu-time", "uid", "cwd", "status",
              "argv", "ports", "holders", "load", "memory", "swap", "uptime", "cpus",
              "networks", "disk", "U", "E"}

\* The lines of a document are a sequence that begins with its version or is
\* the one object.
LEMMA LinesOK ==
  ask.verb \in Verbs => Lines \in Seq(LineNames) /\ Lines # <<>> /\ Lines[1] \in {"V", "json"}
<1> SUFFICES ASSUME ask.verb \in Verbs
             PROVE  Lines \in Seq(LineNames) /\ Lines # <<>> /\ Lines[1] \in {"V", "json"}
  OBVIOUS
<1>0. LineNames = {"json", "V", "procs", "mem", "start-time", "cpu-time", "uid", "cwd",
                   "status", "argv", "ports", "holders", "load", "memory", "swap", "uptime",
                   "cpus", "networks", "disk", "U", "E"}
  BY DEF LineNames
<1>1. \A x \in LineNames : <<x>> \in Seq(LineNames) /\ Len(<<x>>) = 1 /\ <<x>>[1] = x
  OBVIOUS
<1>2. <<>> \in Seq(LineNames)
  BY EmptySeq
<1>3. \A x \in LineNames : Rows(x) \in Seq(LineNames)
  BY <1>1, <1>2 DEF Rows
<1>4. \A s, t \in Seq(LineNames) : s \o t \in Seq(LineNames)
  BY ConcatProperties
<1>5. Blocks \in Seq(LineNames)
  <2>1. SnapshotBlocks \in Seq(LineNames)
    BY <1>0, <1>3, <1>4 DEF SnapshotBlocks
  <2>2. HoldersBlocks \in Seq(LineNames)
    BY <1>0, <1>3, <1>4 DEF HoldersBlocks
  <2>3. HostBlocks \in Seq(LineNames)
    BY <1>0, <1>3, <1>4 DEF HostBlocks
  <2> QED
    BY <2>1, <2>2, <2>3 DEF Blocks, Verbs
<1>6. CASE ask.json
  BY <1>0, <1>1, <1>6, EmptySeq DEF Lines
<1>7. CASE ~ask.json
  <2> DEFINE u == IF report.unreadable THEN <<"U">> ELSE <<>>
             e == IF report.errors THEN <<"E">> ELSE <<>>
  <2>1. u \in Seq(LineNames) /\ e \in Seq(LineNames) /\ <<"V">> \in Seq(LineNames)
        /\ Len(<<"V">>) = 1 /\ <<"V">>[1] = "V"
    BY <1>0, <1>1, <1>2
  <2>2. Lines = <<"V">> \o Blocks \o u \o e
    BY <1>7 DEF Lines
  <2> HIDE DEF u, e
  <2>3. \A s, t \in Seq(LineNames) :
          /\ s \o t \in Seq(LineNames)
          /\ Len(s) >= 1 => Len(s \o t) >= 1 /\ (s \o t)[1] = s[1]
    <3> SUFFICES ASSUME NEW s \in Seq(LineNames), NEW t \in Seq(LineNames)
                 PROVE  /\ s \o t \in Seq(LineNames)
                        /\ Len(s) >= 1 => Len(s \o t) >= 1 /\ (s \o t)[1] = s[1]
      OBVIOUS
    <3>1. Len(s) \in Nat /\ Len(t) \in Nat
      BY LenProperties
    <3>2. /\ s \o t \in Seq(LineNames) /\ Len(s \o t) = Len(s) + Len(t)
          /\ \A i \in 1..(Len(s) + Len(t)) :
               (s \o t)[i] = IF i <= Len(s) THEN s[i] ELSE t[i - Len(s)]
      BY ConcatProperties
    <3>3. Len(s) >= 1 => 1 \in 1..(Len(s) + Len(t))
      BY <3>1
    <3> QED
      BY <3>1, <3>2, <3>3
  <2>4. /\ <<"V">> \o Blocks \in Seq(LineNames) /\ Len(<<"V">> \o Blocks) >= 1
        /\ (<<"V">> \o Blocks)[1] = "V"
    BY <1>5, <2>1, <2>3
  <2> DEFINE vb == <<"V">> \o Blocks
  <2>5. vb \in Seq(LineNames) /\ Len(vb) >= 1 /\ vb[1] = "V" /\ Lines = (vb \o u) \o e
    BY <2>2, <2>4
  <2> HIDE DEF vb
  <2>6. vb \o u \in Seq(LineNames) /\ Len(vb \o u) >= 1 /\ (vb \o u)[1] = "V"
    BY <2>1, <2>3, <2>5
  <2>7. Lines \in Seq(LineNames) /\ Len(Lines) >= 1 /\ Lines[1] = "V"
    BY <2>1, <2>3, <2>5, <2>6
  <2> QED
    BY <2>7, EmptySeq
<1> QED
  BY <1>6, <1>7

\* What was written is all of it, or is not.
LEMMA WrittenOK ==
  ASSUME ask.verb \in Verbs, NEW n \in 0..Len(Lines)
  PROVE  /\ n = Len(Lines) <=> SubSeq(Lines, 1, n) = Lines
         /\ SubSeq(Lines, 1, n) # <<>> => SubSeq(Lines, 1, n)[1] \in {"V", "json"}
<1> DEFINE L == Lines
           w == SubSeq(L, 1, n)
<1>1. L \in Seq(LineNames) /\ L # <<>> /\ L[1] \in {"V", "json"}
  BY LinesOK
<1> HIDE DEF L
<1>2. Len(L) \in Nat /\ n \in 0..Len(L) /\ \A i \in 1..Len(L) : L[i] \in LineNames
  BY <1>1, LenProperties, ElementOfSeq DEF L
<1>3. /\ w \in Seq(LineNames) /\ Len(w) = (IF 1 <= n THEN n ELSE 0)
      /\ \A i \in 1..n : w[i] = L[i]
  <2>1. \A i \in 1..n : L[i] \in LineNames
    BY <1>2
  <2>2. /\ SubSeq(L, 1, n) \in Seq(LineNames)
        /\ Len(SubSeq(L, 1, n)) = IF 1 <= n THEN n - 1 + 1 ELSE 0
        /\ \A i \in 1..(n - 1 + 1) : SubSeq(L, 1, n)[i] = L[1 + i - 1]
    BY <1>2, <2>1, SubSeqProperties
  <2> QED
    BY <1>2, <2>2
<1>4. n = Len(L) => w = L
  BY <1>1, SubSeqFull
<1> HIDE DEF w
<1>5. w = L => n = Len(L)
  BY <1>2, <1>3
<1>6. w # <<>> => w[1] \in {"V", "json"}
  <2>1. w # <<>> => Len(w) \in Nat \ {0}
    BY <1>3, EmptySeq
  <2> QED
    BY <1>1, <1>2, <1>3, <2>1
<1> QED
  BY <1>4, <1>5, <1>6 DEF L, w

-----------------------------------------------------------------------------

LEMMA FactsOK ==
  /\ DOMAIN Order = Readings
  /\ \A f, g \in Readings : f # g => Facts[f] \cap Facts[g] = {}
  /\ \A f \in Readings : Facts[f] # {} /\ ("cpus" \in Facts[f] <=> f = "cpu")
  /\ HostFacets \cup {"uptime"} = Readings /\ "uptime" \notin HostFacets
<1>1. DOMAIN Order = Readings
  BY DEF Order, Readings
<1>2. /\ Facts["uptime"] = {"uptime"} /\ Facts["load"] = {"load"}
      /\ Facts["mem"] = {"memory", "swap"} /\ Facts["cpu"] = {"cpus"}
      /\ Facts["net"] = {"networks"} /\ Facts["disk"] = {"disk"}
  BY DEF Facts
<1>3. \A f, g \in Readings : f # g => Facts[f] \cap Facts[g] = {}
  BY <1>2 DEF Readings
<1>4. \A f \in Readings : Facts[f] # {} /\ ("cpus" \in Facts[f] <=> f = "cpu")
  BY <1>2 DEF Readings
<1>5. HostFacets \cup {"uptime"} = Readings /\ "uptime" \notin HostFacets
  BY DEF HostFacets, Readings
<1> QED
  BY <1>1, <1>3, <1>4, <1>5

\* A reading that came to its facts, and one that came to nothing.
LEMMA TellOK ==
  ASSUME Reported, NEW f \in todo, Tell(f), UNCHANGED <<platform, asked, phase, ask>>,
         phase = "sensor"
  PROVE  /\ Reported'
         /\ f # "cpu" => ("cpus" \in told' <=> "cpus" \in told)
<1>1. /\ told' = told \cup Facts[f] /\ todo' = todo \ {f} /\ lost' = lost
      /\ Needs' = Needs /\ f \in Needs /\ f \in Readings /\ Needs # {}
  BY DEF Tell, Reported, Needs
<1>2. \A g \in Readings : CostsOf(g)' = CostsOf(g)
  BY <1>1 DEF CostsOf
<1>3. ASSUME NEW g \in Readings
      PROVE  IF g \in Needs' \ todo' THEN Settled(g)' ELSE Untouched(g)'
  <2>1. CASE g = f
    BY <1>1, <1>2, <2>1 DEF Reported, Untouched, Settled
  <2>2. CASE g # f
    <3>1. Facts[g] \cap told' = Facts[g] \cap told
      BY <1>1, <2>2, FactsOK
    <3>2. Facts[g] \subseteq told => Facts[g] \subseteq told'
      BY <1>1
    <3> QED
      BY <1>1, <1>2, <2>2, <3>1, <3>2 DEF Reported, Untouched, Settled
  <2> QED
    BY <2>1, <2>2
<1>4. Reported'
  BY <1>1, <1>3 DEF Reported
<1> QED
  BY <1>1, <1>4, FactsOK

LEMMA LoseOK ==
  ASSUME Reported, NEW f \in todo, NEW source, Lose(f, source),
         UNCHANGED <<platform, asked, phase, ask>>, phase = "sensor"
  PROVE  Reported' /\ told' = told
<1>1. /\ lost' = lost \cup {[source |-> source, facet |-> f]} /\ todo' = todo \ {f}
      /\ told' = told /\ Needs' = Needs /\ f \in Needs /\ f \in Readings /\ Needs # {}
  BY DEF Lose, Reported, Needs
<1>2. \A g \in Readings : g # f => CostsOf(g)' = CostsOf(g)
  BY <1>1 DEF CostsOf
<1>3. CostsOf(f) = {} => CostsOf(f)' = {[source |-> source, facet |-> f]}
  BY <1>1 DEF CostsOf
<1>4. ASSUME NEW g \in Readings
      PROVE  IF g \in Needs' \ todo' THEN Settled(g)' ELSE Untouched(g)'
  <2>1. CASE g = f
    <3>1. Untouched(f)
      BY <1>1 DEF Reported
    <3> QED
      BY <1>1, <1>3, <2>1, <3>1 DEF Untouched, Settled
  <2>2. CASE g # f
    BY <1>1, <1>2, <2>2 DEF Reported, Untouched, Settled
  <2> QED
    BY <2>1, <2>2
<1> QED
  BY <1>1, <1>4 DEF Reported

-----------------------------------------------------------------------------

LEMMA MainInitOK == MainInit => MainInv
<1> SUFFICES ASSUME MainInit PROVE MainInv
  OBVIOUS
<1>1. Parsed
  BY DEF MainInit, Parsed
<1>2. Reported
  BY DEF MainInit, MachineInit, Reported, Needs, Untouched, CostsOf
<1>3. CpusRead
  <2>1. buffers = [taken |-> 0, returned |-> 0] /\ step = "none" /\ told = {} /\ moments = {online}
    BY DEF MainInit, MachineInit
  <2>2. buffers \in [taken : Nat, returned : Nat] /\ buffers.taken = 0 /\ buffers.returned = 0
    BY <2>1
  <2> QED
    BY <2>1, <2>2 DEF CpusRead
<1>4. report.errors \in BOOLEAN /\ report.unreadable \in BOOLEAN /\ report = Blank
  BY DEF MainInit, Blank
<1>5. OutcomeIsHonest
  BY DEF MainInit, OutcomeIsHonest, Exited
<1> QED
  BY <1>1, <1>2, <1>3, <1>4, <1>5 DEF MainInv

\* What is known of the ask once it is parsed.
LEMMA AskOK ==
  ASSUME Parsed, phase # "parse"
  PROVE  /\ ask.status \in {"help", "usage", "accepted"}
         /\ ask.status = "accepted" =>
              /\ ask.verb \in Verbs
              /\ ask.verb = "host" => ask.facets \subseteq HostFacets
<1>1. args \in Seq(Arguments) /\ ask = Parse(args)
  BY ArgListsAssumption DEF Parsed
<1> QED
  BY <1>1, ParseOK DEF ReadUpTo

LEMMA ParseStep == MainInv /\ ParseArgs => MainInv'
<1> SUFFICES ASSUME MainInv, ParseArgs PROVE MainInv'
  OBVIOUS
<1>1. /\ phase = "parse" /\ ask' = Parse(args) /\ phase' \in {"version", "sensor"}
      /\ phase' = "sensor" <=> ask'.status = "accepted"
      /\ UNCHANGED <<args, report, stdout, code, platform, machine, told, lost, step, metadata,
                     cpus, buffers>>
      /\ asked' = IF phase' = "sensor" /\ ask'.verb = "host" THEN ask'.facets ELSE asked
      /\ todo' = IF phase' = "sensor" /\ ask'.verb = "host" THEN ask'.facets \cup {"uptime"}
                                                           ELSE todo
  BY DEF ParseArgs, BeginHost, hostVars, reading
<1>2. Parsed'
  <2>1. args \in Seq(Arguments)
    BY ArgListsAssumption DEF MainInv, Parsed
  <2>2. Parse(args).status \in {"help", "usage", "accepted"}
    BY <2>1, ParseOK
  <2> QED
    BY <1>1, <2>2 DEF MainInv, Parsed
<1>3. Needs = {} /\ asked = {} /\ todo = {} /\ told = {} /\ lost = {}
  BY <1>1 DEF MainInv, Reported, Needs
<1>4. Needs' = IF phase' = "sensor" /\ ask'.verb = "host" THEN ask'.facets \cup {"uptime"} ELSE {}
  BY <1>1 DEF Needs
<1>5. phase' = "sensor" /\ ask'.verb = "host" => ask'.facets \subseteq HostFacets
  <2>1. args \in Seq(Arguments)
    BY ArgListsAssumption DEF MainInv, Parsed
  <2> QED
    BY <1>1, <2>1, ParseOK DEF ReadUpTo
<1>6. Reported'
  <2>1. Needs' \subseteq Readings /\ asked' = Needs' \ {"uptime"} /\ todo' = Needs'
    BY <1>1, <1>3, <1>4, <1>5, FactsOK
  <2>2. \A f \in Readings : Untouched(f)'
    BY <1>1, <1>3 DEF Untouched, CostsOf
  <2> QED
    BY <1>1, <1>3, <2>1, <2>2 DEF MainInv, Reported
<1>7. CpusRead'
  <2>1. step = "none" /\ told' = {}
    BY <1>1, <1>3 DEF MainInv, CpusRead
  <2> QED
    BY <1>1, <2>1 DEF MainInv, CpusRead, machine
<1>8. OutcomeIsHonest'
  BY <1>1 DEF OutcomeIsHonest, Exited
<1> QED
  BY <1>1, <1>2, <1>6, <1>7, <1>8 DEF MainInv

\* A reading of the host.
LEMMA ReadingStep == MainInv /\ HostStep => MainInv'
<1> SUFFICES ASSUME MainInv, HostStep PROVE MainInv'
  OBVIOUS
<1> USE DEF MainInv
<1>1. /\ phase = "sensor" /\ UNCHANGED <<args, phase, ask, report, stdout, code>>
      /\ ReadHost /\ UNCHANGED <<platform, machine, asked>>
  BY DEF HostStep, ReadHost, ReadFacet, ReadMetadata, ReadStat, ReadModel, TakeBuffer, UseBuffer
<1>2. Parsed'
  BY <1>1 DEF Parsed
<1>3. OutcomeIsHonest'
  BY <1>1 DEF OutcomeIsHonest, Exited
<1>4. UNCHANGED <<online, moments>>
  BY <1>1 DEF machine
<1>5. ASSUME UNCHANGED <<todo, told, lost>> PROVE Reported'
  BY <1>1, <1>5 DEF Reported, Needs, Untouched, Settled, CostsOf
<1>6. Reported' /\ CpusRead'
  <2>0. buffers.taken \in Nat /\ buffers.returned \in Nat
        /\ buffers = [taken |-> buffers.taken, returned |-> buffers.returned]
    BY DEF CpusRead
  <2>1. ASSUME NEW f \in todo, ReadFacet(f) PROVE Reported' /\ CpusRead'
    <3>1. f # "cpu" /\ UNCHANGED <<step, metadata, cpus, buffers>>
          /\ (Tell(f) \/ \E source : Lose(f, source))
      BY <2>1 DEF ReadFacet
    <3>2. Reported' /\ ("cpus" \in told' <=> "cpus" \in told)
      BY <1>1, <3>1, TellOK, LoseOK
    <3>3. todo' = todo \ {f}
      BY <3>1 DEF Tell, Lose
    <3> QED
      BY <1>4, <3>1, <3>2, <3>3 DEF CpusRead
  <2>2. ASSUME "cpu" \in todo, step' \in {"none", "metadata", "buffer"},
               \/ step' # "none" /\ UNCHANGED <<todo, told, lost, cpus>>
               \/ \E source : Lose("cpu", source) /\ step' = "none" /\ UNCHANGED cpus
               \/ Tell("cpu") /\ step' = "none" /\ cpus' = online,
               buffers' \in [taken : Nat, returned : Nat],
               buffers'.taken = buffers'.returned + (IF step' = "buffer" THEN 1 ELSE 0)
        PROVE  Reported' /\ CpusRead'
    <3>1. "cpus" \notin told
      BY <2>2, FactsOK DEF Reported, Untouched
    <3>2. CASE step' # "none" /\ UNCHANGED <<todo, told, lost, cpus>>
      BY <1>4, <1>5, <2>2, <3>2 DEF CpusRead
    <3>3. CASE \E source : Lose("cpu", source) /\ step' = "none" /\ UNCHANGED cpus
      <4>1. Reported' /\ told' = told
        BY <1>1, <2>2, <3>3, LoseOK
      <4> QED
        BY <1>4, <2>2, <3>1, <3>3, <4>1 DEF CpusRead
    <3>4. CASE Tell("cpu") /\ step' = "none" /\ cpus' = online
      <4>1. Reported'
        BY <1>1, <2>2, <3>4, TellOK
      <4> QED
        BY <1>4, <2>2, <3>4, <4>1 DEF CpusRead
    <3> QED
      BY <2>2, <3>2, <3>3, <3>4
  <2>3. CASE ReadMetadata
    BY <2>0, <2>2, <2>3 DEF ReadMetadata, Reading, Turn, Proceed, Fail, CpusRead
  <2>4. CASE ReadStat
    BY <2>0, <2>2, <2>4 DEF ReadStat, Reading, Turn, Fail, CpusRead
  <2>5. CASE ReadModel
    BY <2>0, <2>2, <2>5 DEF ReadModel, Reading, Turn, Proceed, Fail, CpusRead
  <2>6. CASE TakeBuffer
    <3>1. "cpu" \in todo /\ step = "metadata" /\ UNCHANGED cpus
      BY <2>6 DEF TakeBuffer, Reading, Turn
    <3>2. CASE buffers' = [buffers EXCEPT !.taken = @ + 1] /\ Proceed("buffer")
      <4>1. buffers' = [taken |-> buffers.taken + 1, returned |-> buffers.returned]
        BY <2>0, <3>2
      <4> QED
        BY <2>0, <2>2, <3>1, <3>2, <4>1 DEF Proceed, CpusRead
    <3>3. CASE UNCHANGED buffers /\ Fail("host_processor_info")
      BY <2>0, <2>2, <3>1, <3>3 DEF Fail, CpusRead
    <3> QED
      BY <2>6, <3>2, <3>3 DEF TakeBuffer
  <2>7. CASE UseBuffer
    <3>1. /\ "cpu" \in todo /\ step = "buffer" /\ buffers' = [buffers EXCEPT !.returned = @ + 1]
          /\ \/ \E source : Fail(source) /\ UNCHANGED cpus
             \/ cpus' = online /\ Tell("cpu") /\ step' = "none"
      BY <2>7 DEF UseBuffer, Reading, Turn
    <3>2. buffers' = [taken |-> buffers.taken, returned |-> buffers.returned + 1]
      BY <2>0, <3>1
    <3>3. buffers.taken = buffers.returned + 1
      BY <3>1 DEF CpusRead
    <3>4. buffers' \in [taken : Nat, returned : Nat] /\ buffers'.taken = buffers'.returned + 0
      BY <2>0, <3>2, <3>3
    <3>5. step' = "none"
      BY <3>1 DEF Fail
    <3> QED
      BY <2>2, <3>1, <3>4, <3>5 DEF Fail
  <2> QED
    BY <1>1, <2>1, <2>3, <2>4, <2>5, <2>6, <2>7 DEF ReadHost
<1> QED
  BY <1>1, <1>2, <1>3, <1>6

\* The sensor's answer, the document and the exit.
LEMMA EmitStep == MainInv /\ (TakeHost \/ TakeOther \/ Emit \/ Version) => MainInv'
<1> SUFFICES ASSUME MainInv, TakeHost \/ TakeOther \/ Emit \/ Version PROVE MainInv'
  OBVIOUS
<1> USE DEF MainInv
<1>1. /\ phase \in {"sensor", "emit", "version"} /\ UNCHANGED <<args, ask, hostVars>>
      /\ phase' \in {"emit", "exited"}
      /\ phase = "version" => phase' = "exited"
  BY DEF TakeHost, TakeOther, Emit, Version, ExitWith
<1>2. Parsed'
  BY <1>1 DEF Parsed
<1>3. UNCHANGED <<platform, asked, todo, told, lost, step, cpus, buffers, online, moments>>
  BY <1>1 DEF hostVars, reading, machine
<1>4. CpusRead'
  BY <1>3 DEF CpusRead
<1>5. Needs' = Needs /\ (phase' = "emit" => todo = {})
  <2>1. phase' = "emit" => todo = {}
    <3>1. CASE TakeHost
      BY <3>1 DEF TakeHost
    <3>2. CASE TakeOther
      BY <3>2 DEF TakeOther, Reported, Needs
    <3>3. CASE Emit \/ Version
      BY <3>3 DEF Emit, Version, ExitWith
    <3> QED
      BY <3>1, <3>2, <3>3
  <2> QED
    BY <1>1, <2>1 DEF Needs
<1>6. Reported'
  BY <1>3, <1>5 DEF Reported, Untouched, Settled, CostsOf
<1>7. report'.errors \in BOOLEAN /\ report'.unreadable \in BOOLEAN
  <2>1. CASE TakeHost
    BY <2>1 DEF TakeHost
  <2>2. CASE TakeOther
    BY <2>2 DEF TakeOther
  <2>3. CASE Emit \/ Version
    BY <2>3 DEF Emit, Version
  <2> QED
    BY <2>1, <2>2, <2>3
<1>8. OutcomeIsHonest'
  <2>1. CASE TakeHost \/ TakeOther
    BY <2>1 DEF TakeHost, TakeOther, OutcomeIsHonest, Exited
  <2>2. CASE Emit
    <3>1. PICK n \in 0..Len(Lines) :
            /\ stdout' = SubSeq(Lines, 1, n)
            /\ code' = IF n < Len(Lines) THEN 1 ELSE IF report.errors /\ ~DocHasFacts THEN 1 ELSE 0
      BY <2>2 DEF Emit, ExitWith
    <3>2. phase = "emit" /\ ask.status = "accepted" /\ ask.verb \in Verbs
      BY <2>2, AskOK DEF Emit, Parsed
    <3>3. Lines' = Lines /\ report' = report /\ ask' = ask
      <4>1. report' = report /\ ask' = ask
        BY <2>2 DEF Emit
      <4> QED
        BY <4>1 DEF Lines, Blocks, SnapshotBlocks, HoldersBlocks, HostBlocks, Rows
    <3>4. Len(Lines) \in Nat
      BY <3>2, LinesOK, LenProperties
    <3>5. /\ n = Len(Lines) <=> stdout' = Lines
          /\ stdout' # <<>> => stdout'[1] \in {"V", "json"}
      BY <3>1, <3>2, WrittenOK
    <3>6. n < Len(Lines) <=> n # Len(Lines)
      BY <3>1, <3>4
    <3> QED
      BY <3>1, <3>2, <3>3, <3>5, <3>6 DEF OutcomeIsHonest, DocHasFacts
  <2>3. CASE Version
    <3>1. /\ phase = "version" /\ ask.status \in {"help", "usage"} /\ report' = report /\ ask' = ask
          /\ report = Blank /\ stdout' \in {<<>>, <<"V">>}
          /\ code' = IF ask.status = "help" THEN 0 ELSE 2
      BY <2>3 DEF Version, ExitWith, Parsed
    <3>2. told' = {} /\ lost' = {}
      BY <1>3, <3>1 DEF Reported, Needs
    <3>3. stdout' # <<>> => stdout'[1] \in {"V", "json"}
      BY <3>1
    <3> QED
      BY <3>1, <3>2, <3>3 DEF OutcomeIsHonest
  <2> QED
    BY <2>1, <2>2, <2>3
<1> QED
  BY <1>1, <1>2, <1>4, <1>6, <1>7, <1>8

LEMMA PlugStep == MainInv /\ MainEnvironment => MainInv'
<1> SUFFICES ASSUME MainInv, MainEnvironment PROVE MainInv'
  OBVIOUS
<1>1. /\ UNCHANGED <<args, phase, ask, report, stdout, code, platform, reading>>
      /\ moments' = moments \cup {online'}
  BY DEF MainEnvironment, Plug
<1>2. UNCHANGED <<asked, todo, told, lost, step, cpus, buffers>>
  BY <1>1 DEF reading
<1>3. Parsed' /\ CpusRead'
  BY <1>1, <1>2 DEF MainInv, Parsed, CpusRead
<1>4. Reported'
  BY <1>1, <1>2 DEF MainInv, Reported, Needs, Untouched, Settled, CostsOf
<1>5. OutcomeIsHonest'
  <2>1. Lines' = Lines
    BY <1>1 DEF Lines, Blocks, SnapshotBlocks, HoldersBlocks, HostBlocks, Rows
  <2> QED
    BY <1>1, <1>2, <2>1 DEF MainInv, OutcomeIsHonest, Exited
<1> QED
  BY <1>1, <1>3, <1>4, <1>5 DEF MainInv

LEMMA MainInductive == MainSpec => []MainInv
<1>1. MainInv /\ [MainNext]_mainVars => MainInv'
  <2> SUFFICES ASSUME MainInv, [MainNext]_mainVars PROVE MainInv'
    OBVIOUS
  <2>1. CASE UNCHANGED mainVars
    <3>1. UNCHANGED <<args, phase, ask, report, stdout, code, platform, asked, todo, told, lost,
                      step, cpus, buffers, online, moments>>
      BY <2>1 DEF mainVars, hostVars, reading, machine
    <3>2. Parsed' /\ CpusRead'
      BY <3>1 DEF MainInv, Parsed, CpusRead
    <3>3. Reported'
      BY <3>1 DEF MainInv, Reported, Needs, Untouched, Settled, CostsOf
    <3>4. OutcomeIsHonest'
      <4>1. Lines' = Lines
        BY <3>1 DEF Lines, Blocks, SnapshotBlocks, HoldersBlocks, HostBlocks, Rows
      <4> QED
        BY <3>1, <4>1 DEF MainInv, OutcomeIsHonest, Exited
    <3> QED
      BY <3>1, <3>2, <3>3, <3>4 DEF MainInv
  <2> QED
    BY <2>1, ParseStep, ReadingStep, EmitStep, PlugStep DEF MainNext
<1> QED
  BY <1>1, MainInitOK, PTL DEF MainSpec

-----------------------------------------------------------------------------

\* An accepted ask is what was written, on any command line (parse).
THEOREM AskProved == MainSpec => []AskIsAsWritten
<1>1. MainInv => AskIsAsWritten
  <2> SUFFICES ASSUME MainInv, ask.status = "accepted" PROVE AskIsAsWritten
    BY DEF AskIsAsWritten
  <2>1. args \in Seq(Arguments)
    BY ArgListsAssumption DEF MainInv, Parsed
  <2>2. ask = Parse(args)
    BY DEF MainInv, Parsed, Start
  <2>3. /\ ask \in Asks /\ args # <<>> /\ args[1] = Word(ask.verb)
        /\ ReadUpTo(ask, args, Len(args))
        /\ IF ask.verb = "socket-holders" THEN ask.path # {} ELSE ask.facets # {}
    BY <2>1, <2>2, ParseOK
  <2> QED
    BY <2>1, <2>3, AcceptedAsWritten DEF AskIsAsWritten
<1> QED
  BY <1>1, MainInductive, PTL

\* Each asked reading of the host is answered once, for any cores (host).
THEOREM HostProved == MainSpec => []HostAnswered
<1>1. MainInv => HostAnswered
  <2> SUFFICES ASSUME MainInv PROVE HostAnswered
    OBVIOUS
  <2>1. ASSUME phase = "emit", ask.verb = "host", NEW f \in DOMAIN Order
        PROVE  LET costs == {e \in lost : e.facet = f}
               IN  IF f \in asked \cup {"uptime"}
                     THEN \/ Facts[f] \subseteq told /\ costs = {}
                          \/ Facts[f] \cap told = {} /\ Cardinality(costs) = 1
                     ELSE Facts[f] \cap told = {} /\ costs = {}
    <3>1. f \in Readings /\ todo = {} /\ ask.status = "accepted"
      BY <2>1, FactsOK DEF MainInv, Reported, Parsed
    <3>2. Needs = asked \cup {"uptime"}
      BY <2>1, <3>1 DEF MainInv, Reported, Needs
    <3>3. IF f \in Needs THEN Settled(f) ELSE Untouched(f)
      BY <3>1 DEF MainInv, Reported
    <3>4. \A c : Cardinality({c}) = 1
      BY FS_Singleton
    <3> QED
      BY <3>2, <3>3, <3>4 DEF Settled, Untouched, CostsOf
  <2>2. "cpus" \in told => cpus \in moments
    BY DEF MainInv, CpusRead
  <2> QED
    BY <2>1, <2>2 DEF HostAnswered
<1> QED
  BY <1>1, MainInductive, PTL

\* The kernel's buffer is handed to vm_deallocate exactly once, whatever fails
\* (read_cpus).
THEOREM BufferProved == MainSpec => []BufferReturned
<1>1. MainInv => BufferReturned
  BY DEF MainInv, CpusRead, BufferReturned
<1> QED
  BY <1>1, MainInductive, PTL

\* The exit code and what was written agree with the document (main, emit).
THEOREM OutcomeProved == MainSpec => []OutcomeIsHonest
<1>1. MainInv => OutcomeIsHonest
  BY DEF MainInv
<1> QED
  BY <1>1, MainInductive, PTL

=============================================================================
