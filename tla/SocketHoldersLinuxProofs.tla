---------------------- MODULE SocketHoldersLinuxProofs ----------------------
(***************************************************************************)
(* The linux sensor's safety properties, for any set of pids and inodes,   *)
(* any hashing of sockets into buckets, any pool and any number of host    *)
(* steps; and that it implements Occupancy.                                *)
(***************************************************************************)
EXTENDS SocketHoldersLinux, UnixSocketsProofs

\* The buckets read so far: every socket bound all along is in `inodes` once
\* its bucket was read, and nothing is there that was not seen bound.
TableInv ==
  /\ inodes \subseteq sighted
  /\ \A i \in lasting : BucketOf[i] < bucket => i \in inodes
  /\ phase # "table" /\ out.errors = {} => bucket = LastBucket + 1
  /\ phase \in {"pids", "walk", "names"} => inodes # {}

\* The pid list: a process that was there all along is listed, or still ahead
\* of the cursor; a steady holder is such a process.
ListInv ==
  /\ present \subseteq alive
  /\ \A h \in steady : h[1] \in present
  /\ phase = "table" => pids = {}
  /\ phase = "pids" => \A p \in present : p \in pids \/ \A q \in pids : q < p
  /\ phase \in {"walk", "names"} => present \subseteq pids
  /\ phase \in {"table", "pids"} => scan = [p \in Pids |-> "waiting"]

\* The walk: what was read was held, and a steady descriptor is read or still
\* on the list of its process.
ScanInv ==
  /\ \A p \in Pids : \A i \in held[p] : <<p, i>> \in ever
  /\ \A h \in steady :
       /\ scan[h[1]] = "reading" => h[2] \in held[h[1]] \cup names[h[1]]
       /\ scan[h[1]] = "ok" => h[2] \in held[h[1]]
       /\ scan[h[1]] # "EACCES"
  /\ \A p \in present : scan[p] # "ENOENT"

\* What the document says at each phase, and what a finished one rests on.
RowsRest ==
  /\ inodes # {}
  /\ out.claimed = Holders
  /\ out.unclaimed = (Holders = {})
  /\ \A p \in pids : scan[p] \in Finished
  /\ present \subseteq pids
  /\ bucket = LastBucket + 1

OutInv ==
  /\ phase \in {"table", "pids", "walk"} => out = EmptyDocument
  /\ phase = "names" => out.errors = {} /\ out.claimed # {} /\ procs /\ RowsRest
  /\ phase = "done" =>
       \/ out.errors # {} /\ out.claimed = {} /\ out.unclaimed = FALSE
       \/ out = EmptyDocument /\ lasting = {}
       \/ out.errors = {} /\ RowsRest

\* The names: one row per claimed pid, never two.
NamesInv ==
  /\ out.procs \cap out.unreadable = {}
  /\ out.procs \cup out.unreadable \subseteq out.claimed
  /\ phase = "done" /\ procs => out.procs \cup out.unreadable = out.claimed

IInv == TypeOK /\ HistoryOK /\ TableInv /\ ListInv /\ ScanInv /\ OutInv /\ NamesInv

USE DEF Finished, Failed, world

\* The documents the sensor starts from and gives up with are documents.
LEMMA SourcesExist == EmptyDocument \in Document
                      /\ \A s \in Sources : BlindDocument(s) \in Document
BY DEF Document, EmptyDocument, BlindDocument

\* The inductive invariant holds initially.
LEMMA InitInv == Init => IInv
<1> SUFFICES ASSUME Init PROVE IInv
  OBVIOUS
<1>1. HostTypeOK /\ HistoryOK
  BY HostInitOK DEF Init
<1>2. TypeOK
  BY <1>1, SourcesExist, TableAssumption DEF Init, TypeOK, Phases, HostTypeOK
<1>3. TableInv
  BY <1>1, TableAssumption DEF Init, TableInv, EmptyDocument, HostTypeOK, HistoryOK, Bound
<1>4. ListInv /\ ScanInv
  BY <1>1 DEF Init, ListInv, ScanInv, HostTypeOK, HistoryOK,
     Inspectable, Held
<1>5. OutInv /\ NamesInv
  BY DEF Init, OutInv, NamesInv, EmptyDocument
<1> QED
  BY <1>1, <1>2, <1>3, <1>4, <1>5 DEF IInv

\* One more bucket of the table (linux.rs:886-891).
LEMMA ReadBucketKeeps ==
  ASSUME IInv, ReadBucket
  PROVE  IInv'
<1> USE DEF ReadBucket, IInv
<1>1. HostTypeOK' /\ HistoryOK'
  BY HostStutterOK DEF TypeOK
<1>2. TypeOK'
  BY <1>1, TableAssumption DEF TypeOK, HostTypeOK, Bound
<1>3. TableInv'
  BY TableAssumption DEF TableInv, env, TypeOK, HostTypeOK, HistoryOK
<1>4. ListInv'
  BY DEF ListInv, env
<1>5. ScanInv'
  BY DEF ScanInv, env
<1>6. OutInv'
  BY DEF OutInv, RowsRest, Holders, env
<1>7. NamesInv'
  BY DEF NamesInv
<1> QED
  BY <1>1, <1>2, <1>3, <1>4, <1>5, <1>6, <1>7

\* The table cannot be read or framed (linux.rs:240-262).
LEMMA TableFailsKeeps ==
  ASSUME IInv, TableFails
  PROVE  IInv'
<1> USE DEF TableFails, IInv
<1>1. HostTypeOK' /\ HistoryOK'
  BY HostStutterOK DEF TypeOK
<1>2. TypeOK'
  BY <1>1, SourcesExist DEF TypeOK, Phases, Sources
<1>3. TableInv'
  BY DEF TableInv, env, BlindDocument, EmptyDocument
<1>4. ListInv'
  BY DEF ListInv, env
<1>5. ScanInv'
  BY DEF ScanInv, env
<1>6. OutInv'
  BY DEF OutInv, BlindDocument, EmptyDocument
<1>7. NamesInv'
  BY DEF NamesInv, BlindDocument, EmptyDocument
<1> QED
  BY <1>1, <1>2, <1>3, <1>4, <1>5, <1>6, <1>7

\* The whole table is parsed; an empty match ends the ask (linux.rs:266-268).
LEMMA ParseTableKeeps ==
  ASSUME IInv, ParseTable
  PROVE  IInv'
<1> USE DEF ParseTable, IInv
<1>1. HostTypeOK' /\ HistoryOK'
  BY HostStutterOK DEF TypeOK
<1>2. TypeOK'
  BY <1>1 DEF TypeOK, Phases
<1>3. TableInv'
  BY TableAssumption DEF TableInv, env, TypeOK
<1>4. ListInv'
  BY DEF ListInv, env
<1>5. ScanInv'
  BY DEF ScanInv, env
<1>6. OutInv'
  BY TableAssumption DEF OutInv, TableInv, env, TypeOK, HostTypeOK
<1>7. NamesInv'
  BY DEF NamesInv, OutInv, EmptyDocument
<1> QED
  BY <1>1, <1>2, <1>3, <1>4, <1>5, <1>6, <1>7

\* One more entry of /proc (linux.rs:399-408).
LEMMA ListNextPidKeeps ==
  ASSUME IInv, ListNextPid
  PROVE  IInv'
<1> USE DEF ListNextPid, IInv
<1>1. HostTypeOK' /\ HistoryOK'
  BY HostStutterOK DEF TypeOK
<1>2. TypeOK'
  BY <1>1 DEF TypeOK, HostTypeOK, Phases, Ahead
<1>3. TableInv'
  BY DEF TableInv, env
<1>4. ListInv'
  <2>1. PICK p \in Ahead : (\A q \in Ahead : p <= q) /\ pids' = pids \cup {p}
    BY DEF ListNextPid
  <2>2. \A r \in present : r \in alive /\ r \in Nat
    BY PidsAssumption DEF ListInv, TypeOK, HostTypeOK
  <2>3. p \in Nat /\ \A q \in pids : q \in Nat
    BY PidsAssumption DEF Ahead, TypeOK, HostTypeOK
  <2>4. ASSUME NEW r \in present
        PROVE  r \in pids' \/ \A q \in pids' : q < r
    <3>1. CASE r \in pids
      BY <3>1, <2>1
    <3>2. CASE r \notin pids
      <4>1. \A q \in pids : q < r
        BY <3>2 DEF ListInv
      <4>2. p <= r
        BY <4>1, <2>1, <2>2 DEF Ahead
      <4> QED
        BY <4>1, <4>2, <2>1, <2>2, <2>3
    <3> QED
      BY <3>1, <3>2
  <2> QED
    BY <2>4 DEF ListInv, env
<1>5. ScanInv'
  BY DEF ScanInv, env
<1>6. OutInv'
  BY DEF OutInv
<1>7. NamesInv'
  BY DEF NamesInv
<1> QED
  BY <1>1, <1>2, <1>3, <1>4, <1>5, <1>6, <1>7

\* The pid list is complete and cut into chunks (linux.rs:409-411).
LEMMA ListEndsKeeps ==
  ASSUME IInv, ListEnds
  PROVE  IInv'
<1> USE DEF ListEnds, IInv
<1>1. HostTypeOK' /\ HistoryOK'
  BY HostStutterOK DEF TypeOK
<1>2. TypeOK'
  BY <1>1 DEF TypeOK, Phases
<1>3. TableInv'
  BY DEF TableInv, env
<1>4. ListInv'
  BY PidsAssumption DEF ListInv, Ahead, env, TypeOK, HostTypeOK
<1>5. ScanInv'
  BY DEF ScanInv, env
<1>6. OutInv'
  BY DEF OutInv
<1>7. NamesInv'
  BY DEF NamesInv
<1> QED
  BY <1>1, <1>2, <1>3, <1>4, <1>5, <1>6, <1>7

\* The pid list fails: blindness (linux.rs:270-280).
LEMMA ListFailsKeeps ==
  ASSUME IInv, ListFails
  PROVE  IInv'
<1> USE DEF ListFails, IInv
<1>1. HostTypeOK' /\ HistoryOK'
  BY HostStutterOK DEF TypeOK
<1>2. TypeOK'
  BY <1>1, SourcesExist DEF TypeOK, Phases, Sources
<1>3. TableInv'
  BY DEF TableInv, env, BlindDocument, EmptyDocument
<1>4. ListInv'
  BY DEF ListInv, env
<1>5. ScanInv'
  BY DEF ScanInv, env
<1>6. OutInv'
  BY DEF OutInv, BlindDocument, EmptyDocument
<1>7. NamesInv'
  BY DEF NamesInv, BlindDocument, EmptyDocument
<1> QED
  BY <1>1, <1>2, <1>3, <1>4, <1>5, <1>6, <1>7

\* One process' descriptors are listed (linux.rs:892-902).
LEMMA ListFdsKeeps ==
  ASSUME IInv, NEW p \in Pids, ListFds(p)
  PROVE  IInv'
<1> USE DEF ListFds, IInv
<1>1. HostTypeOK' /\ HistoryOK'
  BY HostStutterOK DEF TypeOK
<1>2. TypeOK'
  BY <1>1 DEF TypeOK, HostTypeOK
<1>3. TableInv'
  BY DEF TableInv, env
<1>4. ListInv'
  BY DEF ListInv, Turn, env
<1>5. ScanInv'
  BY DEF ScanInv, env, TypeOK, HistoryOK, Inspectable, Held
<1>6. OutInv'
  BY DEF OutInv, Turn
<1>7. NamesInv'
  BY DEF NamesInv
<1> QED
  BY <1>1, <1>2, <1>3, <1>4, <1>5, <1>6, <1>7

\* A process that is gone or denied is passed over (linux.rs:645-647).
LEMMA ListFdsFailsKeeps ==
  ASSUME IInv, NEW p \in Pids, ListFdsFails(p)
  PROVE  IInv'
<1> USE DEF ListFdsFails, IInv
<1>1. HostTypeOK' /\ HistoryOK'
  BY HostStutterOK DEF TypeOK
<1>2. TypeOK'
  BY <1>1 DEF TypeOK
<1>3. TableInv'
  BY DEF TableInv, env
<1>4. ListInv'
  BY DEF ListInv, Turn, env
<1>5. ScanInv'
  BY DEF ScanInv, ListInv, env, TypeOK, HostTypeOK, HistoryOK, Inspectable, Held
<1>6. OutInv'
  BY DEF OutInv, Turn
<1>7. NamesInv'
  BY DEF NamesInv
<1> QED
  BY <1>1, <1>2, <1>3, <1>4, <1>5, <1>6, <1>7

\* One descriptor is resolved (linux.rs:648-657).
LEMMA ReadLinkKeeps ==
  ASSUME IInv, NEW p \in Pids, NEW i \in Inodes, ReadLink(p, i)
  PROVE  IInv'
<1> USE DEF ReadLink, IInv
<1>1. HostTypeOK' /\ HistoryOK'
  BY HostStutterOK DEF TypeOK
<1>2. TypeOK'
  BY <1>1 DEF TypeOK, HostTypeOK
<1>3. TableInv'
  BY DEF TableInv, env
<1>4. ListInv'
  BY DEF ListInv, env
<1>5. ScanInv'
  BY DEF ScanInv, env, TypeOK, HostTypeOK, HistoryOK, Inspectable, Held
<1>6. OutInv'
  BY DEF OutInv
<1>7. NamesInv'
  BY DEF NamesInv
<1> QED
  BY <1>1, <1>2, <1>3, <1>4, <1>5, <1>6, <1>7

\* One process is through (linux.rs:658-660).
LEMMA ScanEndsKeeps ==
  ASSUME IInv, NEW p \in Pids, ScanEnds(p)
  PROVE  IInv'
<1> USE DEF ScanEnds, IInv
<1>1. HostTypeOK' /\ HistoryOK'
  BY HostStutterOK DEF TypeOK
<1>2. TypeOK'
  BY <1>1 DEF TypeOK
<1>3. TableInv'
  BY DEF TableInv, env
<1>4. ListInv'
  BY DEF ListInv, env
<1>5. ScanInv'
  BY DEF ScanInv, env, TypeOK
<1>6. OutInv'
  BY DEF OutInv
<1>7. NamesInv'
  BY DEF NamesInv
<1> QED
  BY <1>1, <1>2, <1>3, <1>4, <1>5, <1>6, <1>7

\* The threads are joined and the rows built (linux.rs:281-297).
LEMMA RowsKeeps ==
  ASSUME IInv, Rows
  PROVE  IInv'
<1> USE DEF Rows, IInv
<1>1. HostTypeOK' /\ HistoryOK'
  BY HostStutterOK DEF TypeOK
<1>2. TypeOK'
  BY <1>1 DEF TypeOK, Phases, Document, Holders
<1>3. TableInv'
  BY DEF TableInv, env, OutInv, EmptyDocument
<1>4. ListInv'
  BY DEF ListInv, env
<1>5. ScanInv'
  BY DEF ScanInv, env
<1>6. OutInv'
  BY DEF OutInv, RowsRest, Holders, EmptyDocument, TableInv, ListInv, env
<1>7. NamesInv'
  BY DEF NamesInv, OutInv, EmptyDocument
<1> QED
  BY <1>1, <1>2, <1>3, <1>4, <1>5, <1>6, <1>7

\* One claimed pid is named, or blamed (linux.rs:297-312).
LEMMA ReadNameKeeps ==
  ASSUME IInv, NEW p \in Pids, ReadName(p)
  PROVE  IInv'
<1> USE DEF ReadName, IInv
<1>1. HostTypeOK' /\ HistoryOK'
  BY HostStutterOK DEF TypeOK
<1>2. TypeOK'
  BY <1>1 DEF TypeOK, Phases, Document
<1>3. TableInv'
  BY DEF TableInv, OutInv, env, TypeOK, Document
<1>4. ListInv'
  BY DEF ListInv, env
<1>5. ScanInv'
  BY DEF ScanInv, env
<1>6. OutInv'
  BY DEF OutInv, RowsRest, Holders, Unnamed, env, TypeOK, Document
<1>7. NamesInv'
  BY DEF NamesInv, Unnamed, TypeOK, Document
<1> QED
  BY <1>1, <1>2, <1>3, <1>4, <1>5, <1>6, <1>7

\* The host moves between two reads.
LEMMA EnvironmentKeeps ==
  ASSUME IInv, Environment
  PROVE  IInv'
<1> USE DEF Environment, IInv, sensor
<1>1. HostTypeOK' /\ HistoryOK' /\ HistoryMoves
  BY HostStepOK DEF TypeOK
<1>2. TypeOK'
  BY <1>1 DEF TypeOK
<1>3. TableInv'
  BY <1>1 DEF TableInv, HistoryMoves
<1>4. ListInv'
  <2>1. \A h \in steady' : h[1] \in alive'
    BY <1>1 DEF HistoryOK, Inspectable, Held, HostTypeOK
  <2> QED
    BY <1>1, <2>1 DEF ListInv, HistoryMoves
<1>5. ScanInv'
  BY <1>1 DEF ScanInv, HistoryMoves
<1>6. OutInv'
  BY <1>1 DEF OutInv, RowsRest, Holders, HistoryMoves
<1>7. NamesInv'
  BY DEF NamesInv
<1> QED
  BY <1>1, <1>2, <1>3, <1>4, <1>5, <1>6, <1>7

\* The inductive invariant, for every instance.
THEOREM Invariance == Spec => []IInv
<1>1. Init => IInv
  BY InitInv
<1>2. IInv /\ [Next]_vars => IInv'
  <2> SUFFICES ASSUME IInv, [Next]_vars PROVE IInv'
    OBVIOUS
  <2>1. CASE ReadBucket \/ TableFails \/ ParseTable
    BY <2>1, ReadBucketKeeps, TableFailsKeeps, ParseTableKeeps
  <2>2. CASE ListNextPid \/ ListEnds \/ ListFails
    BY <2>2, ListNextPidKeeps, ListEndsKeeps, ListFailsKeeps
  <2>3. CASE \E p \in Pids : ListFds(p) \/ ListFdsFails(p) \/ ScanEnds(p)
    BY <2>3, ListFdsKeeps, ListFdsFailsKeeps, ScanEndsKeeps
  <2>4. CASE \E p \in Pids, i \in Inodes : ReadLink(p, i)
    BY <2>4, ReadLinkKeeps
  <2>5. CASE Rows \/ \E p \in Pids : ReadName(p)
    BY <2>5, RowsKeeps, ReadNameKeeps
  <2>6. CASE Environment
    BY <2>6, EnvironmentKeeps
  <2>7. CASE UNCHANGED vars
    <3>1. HostTypeOK' /\ HistoryOK'
      BY <2>7, HostStutterOK DEF IInv, TypeOK, vars
    <3> QED
      BY <2>7, <3>1 DEF IInv, vars, env, sensor, TypeOK, TableInv, ListInv,
         ScanInv, OutInv, NamesInv, RowsRest, Holders
  <2> QED
    BY <2>1, <2>2, <2>3, <2>4, <2>5, <2>6, <2>7 DEF Next, SensorNext
<1> QED
  BY <1>1, <1>2, PTL DEF Spec

\* Every variable keeps its type.
THEOREM TypeCorrect == Spec => []TypeOK
BY Invariance, PTL DEF IInv

\* The empty document is proof: linux.rs:263 returns it only when no socket
\* carried the path for the whole of the ask, whatever binds, closes, exits
\* and hand-overs happened between its reads.
THEOREM AbsenceProved == Spec => []AbsenceIsProof
<1>1. IInv => AbsenceIsProof
  <2> SUFFICES ASSUME IInv, Done, out = EmptyDocument PROVE lasting = {}
    BY DEF AbsenceIsProof
  <2>1. out.errors = {} /\ out.claimed = {} /\ ~out.unclaimed
    BY DEF EmptyDocument
  <2>2. ~RowsRest
    BY <2>1, Zenon DEF RowsRest
  <2> QED
    BY <2>1, <2>2 DEF IInv, OutInv, Done
<1> QED
  BY <1>1, Invariance, PTL

\* A claimed row is never made up: its pid held a listed socket of the path
\* at some instant of the ask (linux.rs:281-287).
THEOREM ClaimsProved == Spec => []ClaimedHeldListed
<1>1. IInv => ClaimedHeldListed
  BY DEF IInv, TypeOK, OutInv, RowsRest, Holders, ScanInv, ClaimedHeldListed,
     Phases, EmptyDocument
<1> QED
  BY <1>1, Invariance, PTL

\* The parallel walk loses no inspectable holder that stayed: neither the
\* moving pid list, nor the chunking, nor the per-descriptor reads drop it.
THEOREM SteadyProved == Spec => []SteadyHolderClaimed
<1>1. IInv => SteadyHolderClaimed
  <2> SUFFICES ASSUME IInv, NEW p \in Pids, NEW i \in Inodes,
                      Done, out.errors = {}, <<p, i>> \in steady
               PROVE  p \in out.claimed \/ scan[p] = "EMFILE"
    BY DEF SteadyHolderClaimed
  <2>1. i \in lasting
    BY DEF IInv, HistoryOK
  <2>2. RowsRest
    BY <2>1 DEF IInv, OutInv, Done
  <2>3. i \in inodes
    BY <2>1, <2>2, TableAssumption DEF RowsRest, IInv, TableInv, TypeOK, HostTypeOK
  <2>4. p \in present /\ p \in pids
    BY <2>2 DEF RowsRest, IInv, ListInv
  <2>5. scan[p] \in {"ok", "EMFILE"}
    BY <2>2, <2>4 DEF RowsRest, IInv, ScanInv
  <2>6. scan[p] = "ok" => i \in held[p]
    BY DEF IInv, ScanInv
  <2> QED
    BY <2>2, <2>3, <2>4, <2>5, <2>6 DEF RowsRest, Holders
<1> QED
  BY <1>1, Invariance, PTL

\* `unclaimed` is said only after a search (linux.rs:270-291): whoever was
\* there all along was listed and had a turn, was not taken for gone, and
\* would have been claimed if it kept one of the path's sockets in reach.
THEOREM UnclaimedProved == Spec => []UnclaimedWasSearched
<1>1. IInv => UnclaimedWasSearched
  <2> SUFFICES ASSUME IInv, out.unclaimed PROVE UnclaimedWasSearched
    BY DEF UnclaimedWasSearched
  <2>1. out # EmptyDocument
    <3>1. EmptyDocument.unclaimed = FALSE
      BY DEF EmptyDocument
    <3> QED
      BY <3>1, Zenon
  <2>2. phase \in {"names", "done"}
    BY <2>1 DEF IInv, OutInv, TypeOK, Phases
  <2>3. RowsRest
    BY <2>1, <2>2 DEF IInv, OutInv
  <2>4. inodes # {} /\ inodes \subseteq sighted /\ Holders = {}
    BY <2>3, Zenon DEF RowsRest, IInv, TableInv
  <2>5. ASSUME NEW p \in present
        PROVE  p \in pids /\ scan[p] \in Finished \ {"ENOENT"}
    BY <2>3 DEF RowsRest, IInv, ScanInv
  <2>6. ASSUME NEW p \in present, NEW i \in Inodes, <<p, i>> \in steady
        PROVE  scan[p] = "EMFILE"
    <3>1. i \in inodes
      <4>1. i \in lasting
        BY <2>6 DEF IInv, HistoryOK, TypeOK
      <4> QED
        BY <4>1, <2>3, TableAssumption DEF RowsRest, IInv, TableInv, TypeOK, HostTypeOK
    <3>2. scan[p] = "ok" => i \in held[p]
      BY <2>6 DEF IInv, ScanInv
    <3>3. scan[p] # "ok"
      BY <2>4, <2>5, <3>1, <3>2 DEF Holders
    <3> QED
      BY <2>5, <2>6, <3>3 DEF IInv, ScanInv
  <2> QED
    BY <2>4, <2>5, <2>6 DEF UnclaimedWasSearched
<1> QED
  BY <1>1, Invariance, PTL

\* One identity row per claimed pid, never two.
THEOREM NamesProved == Spec => []EveryHolderNamedOnce
<1>1. IInv => EveryHolderNamedOnce
  BY DEF IInv, NamesInv, EveryHolderNamedOnce, Done
<1> QED
  BY <1>1, Invariance, PTL

-----------------------------------------------------------------------------
(* Refinement.  The instance Promise talks of the same host variables, so   *)
(* its host steps are this module's; only AnswerOf has to be followed.     *)

\* The answers of the abstract promise are these records.
LEMMA AnswerDefs ==
  /\ Promise!Asking = [kind |-> "asking", pids |-> {}]
  /\ Promise!Nobody = [kind |-> "none", pids |-> {}]
  /\ Promise!Unclaimed = [kind |-> "unclaimed", pids |-> {}]
  /\ Promise!Blind = [kind |-> "blind", pids |-> {}]
  /\ \A S : Promise!Claimed(S) = [kind |-> "claimed", pids |-> S]
BY DEF Promise!Asking, Promise!Nobody, Promise!Unclaimed, Promise!Blind,
       Promise!Claimed

\* A finished document says one of Occupancy's answers, and it is true.
LEMMA FinishedIsTrue ==
  IInv /\ Done => AnswerOf \in Promise!Answers /\ Promise!TrueOfAsk(AnswerOf)
<1> SUFFICES ASSUME IInv, Done
             PROVE  AnswerOf \in Promise!Answers /\ Promise!TrueOfAsk(AnswerOf)
  OBVIOUS
<1>1. CASE out.claimed # {}
  <2>1. out.claimed \in (SUBSET Pids) \ {{}}
    BY <1>1 DEF IInv, TypeOK, Document
  <2>2. RowsRest
    BY <1>1 DEF IInv, OutInv, Done, EmptyDocument
  <2>3. \A p \in out.claimed : Promise!EverHeld(p)
    BY <2>2 DEF RowsRest, Holders, IInv, ScanInv, TypeOK, Promise!EverHeld
  <2>4. AnswerOf = Promise!Claimed(out.claimed)
    BY <1>1, AnswerDefs DEF AnswerOf
  <2> QED
    BY <2>1, <2>3, <2>4 DEF Promise!Answers, Promise!TrueOfAsk
<1>2. CASE out.claimed = {} /\ out.unclaimed
  <2>1. RowsRest
    <3>1. EmptyDocument.unclaimed = FALSE
      BY DEF EmptyDocument
    <3>2. out # EmptyDocument
      BY <1>2, <3>1, Zenon
    <3> QED
      BY <1>2, <3>2 DEF IInv, OutInv, Done
  <2>2. sighted # {}
    BY <2>1 DEF RowsRest, IInv, TableInv
  <2>3. AnswerOf = Promise!Unclaimed
    BY <1>2, AnswerDefs DEF AnswerOf
  <2> QED
    BY <2>2, <2>3 DEF Promise!Answers, Promise!TrueOfAsk
<1>3. CASE out.claimed = {} /\ ~out.unclaimed /\ out.errors # {}
  <2>1. AnswerOf = Promise!Blind
    BY <1>3, AnswerDefs DEF AnswerOf
  <2> QED
    BY <2>1 DEF Promise!Answers, Promise!TrueOfAsk
<1>4. CASE out.claimed = {} /\ ~out.unclaimed /\ out.errors = {}
  <2>1. ~RowsRest
    BY <1>4, Zenon DEF RowsRest
  <2>2. lasting = {}
    BY <1>4, <2>1 DEF IInv, OutInv, Done
  <2>3. AnswerOf = Promise!Nobody
    BY <1>4, AnswerDefs DEF AnswerOf
  <2> QED
    BY <2>2, <2>3 DEF Promise!Answers, Promise!TrueOfAsk
<1> QED
  BY <1>1, <1>2, <1>3, <1>4

\* The linux sensor implements Occupancy: the host moves as it will, and the
\* one step that finishes the document gives an answer true of the ask.
THEOREM LinuxImplementsOccupancy == Spec => ImplementsOccupancy
<1>1. Init => Promise!OccupancyInit
  BY AnswerDefs DEF Init, AnswerOf, Done, Promise!OccupancyInit, Promise!HostInit, HostInit,
     Promise!Bound, Bound, Promise!Held, Held, Promise!Inspectable, Inspectable
<1>2. HostNext => Promise!HostNext
  BY DEF HostNext, Promise!HostNext, Bind, Promise!Bind, Close, Promise!Close,
     Send, Promise!Send, Receive, Promise!Receive, Fork, Promise!Fork,
     Exit, Promise!Exit, Recredential, Promise!Recredential,
     Remember, Promise!Remember, Held, Promise!Held,
     Inspectable, Promise!Inspectable, Bound, Promise!Bound
<1>3. UNCHANGED env => UNCHANGED Promise!env
  BY DEF env, Promise!env
<1>4. IInv /\ IInv' /\ [Next]_vars
        => [Promise!OccupancyNext]_<<Promise!env, AnswerOf>>
  <2> SUFFICES ASSUME IInv, IInv', [Next]_vars
               PROVE  [Promise!OccupancyNext]_<<Promise!env, AnswerOf>>
    OBVIOUS
  <2>1. CASE Environment
    <3>1. AnswerOf' = AnswerOf
      BY <2>1 DEF Environment, sensor, AnswerOf, Done
    <3> QED
      BY <2>1, <3>1, <1>2 DEF Environment, Promise!OccupancyNext
  <2>2. CASE SensorNext
    <3>1. UNCHANGED env
      BY <2>2 DEF SensorNext, ReadBucket, TableFails, ParseTable, ListNextPid,
         ListEnds, ListFails, ListFds, ListFdsFails, ScanEnds, ReadLink, Rows,
         ReadName
    <3>2. ~Done
      BY <2>2 DEF SensorNext, ReadBucket, TableFails, ParseTable, ListNextPid,
         ListEnds, ListFails, ListFds, ListFdsFails, ScanEnds, ReadLink, Rows,
         ReadName, Turn, Done
    <3>3. AnswerOf = Promise!Asking
      BY <3>2, AnswerDefs DEF AnswerOf
    <3>4. CASE Done'
      <4>1. AnswerOf' \in Promise!Answers /\ Promise!TrueOfAsk(AnswerOf')
        <5>1. (AnswerOf \in Promise!Answers /\ Promise!TrueOfAsk(AnswerOf))'
          BY <3>4, FinishedIsTrue, PTL
        <5>2. Promise!TrueOfAsk(AnswerOf)' <=> Promise!TrueOfAsk(AnswerOf')
          BY <3>1 DEF Promise!TrueOfAsk, Promise!EverHeld, env, Promise!Nobody,
             Promise!Unclaimed, Promise!Blind, Promise!Claimed
        <5> QED
          BY <5>1, <5>2 DEF Promise!Answers, Promise!Asking, Promise!Nobody,
             Promise!Unclaimed, Promise!Blind, Promise!Claimed
      <4> QED
        BY <3>1, <3>3, <4>1, <1>3 DEF Promise!Answer, Promise!OccupancyNext
    <3>5. CASE ~Done'
      <4>1. AnswerOf' = AnswerOf
        BY <3>2, <3>5 DEF AnswerOf
      <4> QED
        BY <3>1, <4>1, <1>3
    <3> QED
      BY <3>4, <3>5
  <2>3. CASE UNCHANGED vars
    BY <2>3, <1>3 DEF vars, sensor, AnswerOf, Done
  <2> QED
    BY <2>1, <2>2, <2>3 DEF Next
<1> QED
  BY <1>1, <1>4, Invariance, PTL DEF Spec, ImplementsOccupancy, Promise!OccupancySpec

=============================================================================
