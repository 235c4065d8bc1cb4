---------------------- MODULE SocketHoldersDarwinProofs ----------------------
(***************************************************************************)
(* The darwin sensor implements Occupancy without proof of absence, for    *)
(* any pids, inodes, slacks and number of attempts.                        *)
(***************************************************************************)
EXTENDS SocketHoldersDarwin, UnixSocketsProofs, FiniteSetTheorems

\* A descriptor that answered was held then; one still to be looked at was
\* held when it was listed.
WalkInv ==
  /\ \A p \in Pids : scan[p] = "yes" => \E i \in Inodes : <<p, i>> \in ever
  /\ phase \in {"probe", "table", "walk"} => out = EmptyDocument

\* A finished document is blind or names holders, and never anything else.
OutInv ==
  phase = "done" =>
    \/ /\ out.errors # {} /\ out.claimed = {} /\ ~out.unclaimed
       /\ "kern_proc_all" \in out.errors \/ Holders = {}
    \/ out.errors = {} /\ out.claimed # {} /\ out.claimed = Holders

IInv == TypeOK /\ HistoryOK /\ WalkInv /\ OutInv

\* The tries counter stays below its bound while attempts are left.
TriesInv == phase \in {"probe", "table"} => tries < Attempts

\* One pid is read at a time.
OneReader == \A p, r \in Pids :
  scan[p] \in Reading /\ scan[r] \in Reading => p = r

\* A holder that stayed is in the table, is never found without a socket, and
\* while its list is being looked at its socket is still to come.
SteadyInv ==
  \A p \in Pids, i \in Inodes :
    <<p, i>> \in steady /\ "kern_proc_all" \notin out.errors =>
      /\ phase \in {"walk", "done"} => p \in table
      /\ scan[p] \in {"no", "err"} => p \in cut
      /\ scan[p] = "listed" => p \in cut \/ i \in names
      /\ phase = "done" => scan[p] \in Finished

\* Both documents the sensor may leave by, and what they say.
LEMMA DocumentsExist ==
  /\ EmptyDocument \in Document
  /\ \A s \in Sources : BlindDocument(s) \in Document
  /\ \A s \in Sources : BlindDocument(s).errors = {s} /\ BlindDocument(s).claimed = {}
                        /\ BlindDocument(s).unclaimed = FALSE
BY DEF Document, EmptyDocument, BlindDocument

\* The inductive invariant holds initially.
LEMMA InitInv == Init => IInv /\ TriesInv
<1> SUFFICES ASSUME Init PROVE IInv /\ TriesInv
  OBVIOUS
<1>1. HostTypeOK /\ HistoryOK
  BY HostInitOK DEF Init
<1>2. TypeOK
  BY <1>1, DocumentsExist, SlackAssumption DEF Init, TypeOK
<1>3. WalkInv /\ OutInv /\ TriesInv
  BY SlackAssumption DEF Init, WalkInv, OutInv, TriesInv
<1> QED
  BY <1>1, <1>2, <1>3 DEF IInv

\* The sensor's own steps, one by one.
LEMMA SensorKeeps == IInv /\ TriesInv /\ SensorNext => IInv' /\ TriesInv'
<1> SUFFICES ASSUME IInv, TriesInv, SensorNext PROVE IInv' /\ TriesInv'
  OBVIOUS
<1>1. UNCHANGED env
  BY DEF SensorNext, ProbeTable, ReadTable, TableGrew, TableFails, ProbeFds,
     ListFds, NoMatch, LookAtFd, Rows
<1>2. HostTypeOK' /\ HistoryOK'
  BY <1>1, HostStutterOK DEF IInv, TypeOK
<1>3. IsFiniteSet(alive) /\ \A p \in Pids : Cardinality(alive) \in Nat
  BY PidsAssumption, FS_Subset, FS_CardinalityType DEF IInv, TypeOK, HostTypeOK
<1> USE DEF IInv
<1>4. CASE ProbeTable \/ ReadTable
  <2>1. TypeOK'
    BY <1>2, <1>3, <1>4, FS_CardinalityType, SlackAssumption
       DEF TypeOK, HostTypeOK, ProbeTable, ReadTable
  <2>2. WalkInv' /\ OutInv' /\ TriesInv'
    BY <1>1, <1>4 DEF ProbeTable, ReadTable, WalkInv, OutInv, TriesInv, env
  <2> QED
    BY <1>2, <2>1, <2>2
<1>5. CASE TableGrew
  <2>1. tries + 1 \in 0..Attempts
    BY <1>5, SlackAssumption DEF TableGrew, TriesInv, TypeOK
  <2>2. TypeOK'
    BY <1>2, <1>5, <2>1, DocumentsExist
       DEF TypeOK, TableGrew, Blinded, Sources
  <2>3. WalkInv'
    BY <1>1, <1>5 DEF TableGrew, Blinded, WalkInv, env
  <2>4. OutInv'
    BY <1>5, DocumentsExist DEF TableGrew, Blinded, OutInv, Sources
  <2>5. TriesInv'
    BY <1>5 DEF TableGrew, Blinded, TriesInv
  <2> QED
    BY <1>2, <2>2, <2>3, <2>4, <2>5
<1>6. CASE TableFails
  <2>1. TypeOK'
    BY <1>2, <1>6, DocumentsExist DEF TypeOK, TableFails, Blinded, Sources
  <2>2. WalkInv' /\ TriesInv'
    BY <1>1, <1>6 DEF TableFails, Blinded, WalkInv, TriesInv, env
  <2>3. OutInv'
    BY <1>6, DocumentsExist DEF TableFails, Blinded, OutInv, Sources
  <2> QED
    BY <1>2, <2>1, <2>2, <2>3
<1>7. CASE \E p \in Pids : ProbeFds(p) \/ ListFds(p) \/ NoMatch(p)
  <2>1. PICK p \in Pids : ProbeFds(p) \/ ListFds(p) \/ NoMatch(p)
    BY <1>7
  <2>2. TypeOK'
    <3>1. ProbeFds(p) => room' \in Nat
      BY InodesFinite, FS_Subset, FS_CardinalityType, SlackAssumption
         DEF ProbeFds, TypeOK, HostTypeOK
    <3> QED
      BY <1>2, <2>1, <3>1
         DEF TypeOK, HostTypeOK, ProbeFds, ListFds, NoMatch, Reading, Finished
  <2>3. WalkInv'
    BY <1>1, <2>1 DEF ProbeFds, ListFds, NoMatch, WalkInv, env, TypeOK
  <2>4. OutInv' /\ TriesInv'
    BY <2>1 DEF ProbeFds, Idle, ListFds, NoMatch, OutInv, TriesInv
  <2> QED
    BY <1>2, <2>2, <2>3, <2>4
<1>8. CASE \E p \in Pids, i \in Inodes : LookAtFd(p, i)
  <2>1. PICK p \in Pids, i \in Inodes : LookAtFd(p, i)
    BY <1>8
  <2>2. TypeOK'
    BY <1>2, <2>1 DEF TypeOK, LookAtFd, Finished
  <2>3. WalkInv'
    BY <1>1, <2>1 DEF LookAtFd, WalkInv, env, TypeOK, HostTypeOK, HistoryOK, Held
  <2>4. OutInv' /\ TriesInv'
    BY <2>1 DEF LookAtFd, OutInv, TriesInv
  <2> QED
    BY <1>2, <2>2, <2>3, <2>4
<1>9. CASE Rows
  <2>1. WalkInv' /\ TriesInv'
    BY <1>1, <1>9 DEF Rows, Blinded, WalkInv, TriesInv, env
  <2>2. Holders' = Holders /\ Holders \subseteq Pids
    BY <1>9 DEF Rows, Holders, TypeOK
  <2>3. CASE Holders = {}
    <3>1. out' = BlindDocument("darwin_proc_fds")
      BY <1>9, <2>3 DEF Rows, Blinded
    <3> QED
      BY <1>2, <1>9, <2>1, <2>2, <2>3, <3>1, DocumentsExist
         DEF TypeOK, OutInv, Rows, Blinded, Sources
  <2>4. CASE Holders # {}
    <3>1. out = EmptyDocument
      BY <1>9 DEF Rows, WalkInv
    <3>2. out' = [out EXCEPT !.claimed = Holders,
                             !.procs = IF procs THEN Holders ELSE {}]
      BY <1>9, <2>4 DEF Rows
    <3>3. out' \in Document
      BY <2>2, <3>2 DEF Document, TypeOK
    <3>4. out'.errors = {} /\ out'.claimed = Holders
      BY <3>1, <3>2 DEF EmptyDocument
    <3> QED
      BY <1>2, <1>9, <2>1, <2>2, <2>4, <3>3, <3>4 DEF TypeOK, OutInv, Rows
  <2> QED
    BY <2>3, <2>4
<1> QED
  BY <1>4, <1>5, <1>6, <1>7, <1>8, <1>9 DEF SensorNext

\* The inductive invariant, for every instance.
THEOREM Invariance == Spec => [](IInv /\ TriesInv)
<1>1. IInv /\ TriesInv /\ [Next]_vars => (IInv /\ TriesInv)'
  <2> SUFFICES ASSUME IInv, TriesInv, [Next]_vars PROVE IInv' /\ TriesInv'
    OBVIOUS
  <2>1. CASE SensorNext
    BY <2>1, SensorKeeps
  <2>2. CASE Environment
    <3>1. HostTypeOK' /\ HistoryOK' /\ HistoryMoves
      BY <2>2, HostStepOK DEF IInv, TypeOK, Environment
    <3> QED
      BY <2>2, <3>1 DEF IInv, TypeOK, WalkInv, OutInv, TriesInv, Holders,
         Environment, sensor, HistoryMoves
  <2>3. CASE UNCHANGED vars
    <3>1. HostTypeOK' /\ HistoryOK'
      BY <2>3, HostStutterOK DEF IInv, TypeOK, vars
    <3> QED
      BY <2>3, <3>1 DEF IInv, TypeOK, WalkInv, OutInv, TriesInv, Holders,
         vars, sensor, env
  <2> QED
    BY <2>1, <2>2, <2>3 DEF Next
<1> QED
  BY <1>1, InitInv, PTL DEF Spec

\* Every variable keeps its type; kern_proc_all never exceeds its attempts.
THEOREM TypeCorrect == Spec => []TypeOK
BY Invariance, PTL DEF IInv

\* A claimed row is never made up (darwin.rs:456-467).
THEOREM ClaimsProved == Spec => []ClaimedWasHolder
<1>1. IInv => ClaimedWasHolder
  BY DEF IInv, WalkInv, OutInv, TypeOK, Holders, ClaimedWasHolder, EmptyDocument
<1> QED
  BY <1>1, Invariance, PTL

\* A steady holder stays where the walk can find it, step by step.
LEMMA SteadyKeeps ==
  ASSUME IInv, OneReader, SteadyInv, [Next]_vars
  PROVE  (OneReader /\ SteadyInv)'
<1> USE DEF IInv
<1>1. \A h \in steady : h[1] \in alive \ denied /\ h[2] \in fds[h[1]]
  BY DEF HistoryOK, Inspectable, Held, TypeOK, HostTypeOK
<1>2. CASE ProbeTable \/ ReadTable \/ TableGrew \/ TableFails
  BY <1>1, <1>2, DocumentsExist
     DEF ProbeTable, ReadTable, TableGrew, TableFails, Blinded, OneReader,
         SteadyInv, TypeOK, Sources, env
<1>3. CASE \E p \in Pids : ProbeFds(p) \/ ListFds(p) \/ NoMatch(p)
  <2>1. PICK p \in Pids : ProbeFds(p) \/ ListFds(p) \/ NoMatch(p)
    BY <1>3
  <2>2. OneReader'
    BY <2>1 DEF ProbeFds, ListFds, NoMatch, Idle, OneReader, TypeOK, Reading
  <2>3. SteadyInv'
    BY <1>1, <2>1 DEF ProbeFds, ListFds, NoMatch, Idle, OneReader, SteadyInv,
       TypeOK, Reading, Finished, env
  <2> QED
    BY <2>2, <2>3
<1>4. CASE \E p \in Pids, i \in Inodes : LookAtFd(p, i)
  <2>1. PICK p \in Pids, i \in Inodes : LookAtFd(p, i)
    BY <1>4
  <2>2. OneReader'
    BY <2>1 DEF LookAtFd, OneReader, TypeOK, Reading
  <2>3. SteadyInv'
    BY <1>1, <2>1 DEF LookAtFd, OneReader, SteadyInv, TypeOK, Reading, Finished, env
  <2> QED
    BY <2>2, <2>3
<1>5. CASE Rows
  BY <1>5, DocumentsExist
     DEF Rows, Blinded, WalkInv, EmptyDocument, OneReader, SteadyInv, env
<1>6. CASE Environment
  <2>1. steady' \subseteq steady
    BY <1>6, HostStepOK DEF TypeOK, Environment, HistoryMoves
  <2> QED
    BY <1>6, <2>1 DEF Environment, sensor, OneReader, SteadyInv
<1>7. CASE UNCHANGED vars
  BY <1>7 DEF vars, env, sensor, OneReader, SteadyInv
<1> QED
  BY <1>2, <1>3, <1>4, <1>5, <1>6, <1>7 DEF Next, SensorNext

\* No closed descriptor, vanished neighbour or denied process makes the walk
\* miss a holder that stayed (darwin.rs:950-965).
THEOREM SteadyProved == Spec => []SteadyHolderClaimed
<1>1. Init => OneReader /\ SteadyInv
  BY DEF Init, OneReader, SteadyInv, Reading, Finished
<1>2. IInv /\ OneReader /\ SteadyInv => SteadyHolderClaimed
  <2> SUFFICES ASSUME IInv, SteadyInv,
                      NEW p \in Pids, NEW i \in Inodes, Done, <<p, i>> \in steady,
                      "kern_proc_all" \notin out.errors, p \notin cut
               PROVE  p \in out.claimed
    BY DEF SteadyHolderClaimed
  <2>1. scan[p] = "yes" /\ p \in table
    BY DEF SteadyInv, Done, Finished
  <2>2. out.claimed = Holders
    BY <2>1 DEF IInv, OutInv, Done, Holders
  <2> QED
    BY <2>1, <2>2 DEF Holders
<1>3. IInv /\ OneReader /\ SteadyInv /\ [Next]_vars => (OneReader /\ SteadyInv)'
  BY SteadyKeeps
<1> QED
  BY <1>1, <1>2, <1>3, Invariance, PTL DEF Spec

\* The answers of the abstract promise are these records.
LEMMA AnswerDefs ==
  /\ Promise!Asking = [kind |-> "asking", pids |-> {}]
  /\ Promise!Blind = [kind |-> "blind", pids |-> {}]
  /\ \A S : Promise!Claimed(S) = [kind |-> "claimed", pids |-> S]
BY DEF Promise!Asking, Promise!Blind, Promise!Claimed

\* A finished document says one of Occupancy's answers, and it is true.
LEMMA FinishedIsTrue ==
  IInv /\ Done => AnswerOf \in Promise!Answers /\ Promise!TrueOfAsk(AnswerOf)
<1> SUFFICES ASSUME IInv, Done
             PROVE  AnswerOf \in Promise!Answers /\ Promise!TrueOfAsk(AnswerOf)
  OBVIOUS
<1>1. CASE out.claimed # {}
  <2>1. out.claimed \in (SUBSET Pids) \ {{}}
    BY <1>1 DEF IInv, TypeOK, Document
  <2>2. \A p \in out.claimed : Promise!EverHeld(p)
    BY <1>1 DEF IInv, OutInv, Done, WalkInv, TypeOK, Holders, Promise!EverHeld
  <2>3. AnswerOf = Promise!Claimed(out.claimed)
    BY <1>1, AnswerDefs DEF AnswerOf
  <2> QED
    BY <2>1, <2>2, <2>3 DEF Promise!Answers, Promise!TrueOfAsk
<1>2. CASE out.claimed = {}
  <2>1. ~out.unclaimed /\ out.errors # {}
    BY <1>2 DEF IInv, OutInv, Done
  <2>2. AnswerOf = Promise!Blind
    BY <1>2, <2>1, AnswerDefs DEF AnswerOf
  <2> QED
    BY <2>2 DEF Promise!Answers, Promise!TrueOfAsk
<1> QED
  BY <1>1, <1>2

\* The darwin sensor implements Occupancy with neither `none` nor
\* `unclaimed`: it names holders that were there, or it says it is blind.
THEOREM DarwinImplementsOccupancy == Spec => ImplementsOccupancy
<1>1. Init => Promise!OccupancyInit
  BY AnswerDefs DEF Init, AnswerOf, Done, Promise!OccupancyInit, Promise!HostInit, HostInit,
     Promise!Bound, Bound, Promise!Held, Held, Promise!Inspectable, Inspectable
<1>2. HostNext => Promise!HostNext
  BY DEF HostNext, Promise!HostNext, Bind, Promise!Bind, Close, Promise!Close,
     Send, Promise!Send, Receive, Promise!Receive, Fork, Promise!Fork,
     Exit, Promise!Exit, Recredential, Promise!Recredential,
     Remember, Promise!Remember, Held, Promise!Held,
     Inspectable, Promise!Inspectable, Bound, Promise!Bound
<1>3. UNCHANGED env => UNCHANGED Promise!env
  BY DEF env, Promise!env
<1>4. IInv /\ IInv' /\ [Next]_vars
        => [Promise!OccupancyNext]_<<Promise!env, AnswerOf>>
  <2> SUFFICES ASSUME IInv, IInv', [Next]_vars
               PROVE  [Promise!OccupancyNext]_<<Promise!env, AnswerOf>>
    OBVIOUS
  <2>1. CASE Environment
    <3>1. AnswerOf' = AnswerOf
      BY <2>1 DEF Environment, sensor, AnswerOf, Done
    <3> QED
      BY <2>1, <3>1, <1>2 DEF Environment, Promise!OccupancyNext
  <2>2. CASE SensorNext
    <3>1. UNCHANGED env /\ ~Done
      BY <2>2 DEF SensorNext, ProbeTable, ReadTable, TableGrew, TableFails,
         ProbeFds, Idle, ListFds, NoMatch, LookAtFd, Rows, Done
    <3>2. AnswerOf = Promise!Asking
      BY <3>1, AnswerDefs DEF AnswerOf
    <3>3. CASE Done'
      <4>1. (AnswerOf \in Promise!Answers /\ Promise!TrueOfAsk(AnswerOf))'
        BY <3>3, FinishedIsTrue, PTL
      <4>2. Promise!TrueOfAsk(AnswerOf)' <=> Promise!TrueOfAsk(AnswerOf')
        BY <3>1 DEF Promise!TrueOfAsk, Promise!EverHeld, env, Promise!Nobody,
           Promise!Unclaimed, Promise!Blind, Promise!Claimed
      <4>3. AnswerOf' \in Promise!Answers /\ Promise!TrueOfAsk(AnswerOf')
        BY <4>1, <4>2 DEF Promise!Answers, Promise!Asking, Promise!Nobody,
           Promise!Unclaimed, Promise!Blind, Promise!Claimed
      <4> QED
        BY <3>1, <3>2, <4>3, <1>3 DEF Promise!Answer, Promise!OccupancyNext
    <3>4. CASE ~Done'
      <4>1. AnswerOf' = AnswerOf
        BY <3>1, <3>4 DEF AnswerOf
      <4> QED
        BY <3>1, <4>1, <1>3
    <3> QED
      BY <3>3, <3>4
  <2>3. CASE UNCHANGED vars
    BY <2>3, <1>3 DEF vars, sensor, AnswerOf, Done
  <2> QED
    BY <2>1, <2>2, <2>3 DEF Next
<1> QED
  BY <1>1, <1>4, Invariance, PTL DEF Spec, ImplementsOccupancy, Promise!OccupancySpec

=============================================================================
