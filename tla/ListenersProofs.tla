--------------------------- MODULE ListenersProofs ---------------------------
(***************************************************************************)
(* What the --ports facet promises, on linux and on darwin, for any        *)
(* processes, listeners, order of the pid list and number of host steps,   *)
(* and on darwin for any ports and any table of the kernel's sockets.      *)
(* The linux half is first.                                                *)
(***************************************************************************)
EXTENDS ListenersLinux, ListenersDarwin, UnixSocketsProofs, FiniteSetTheorems,
        SequenceTheorems, FunctionTheorems

-----------------------------------------------------------------------------
(* ListenersLinux                                                          *)

\* What a walk has found was held, and what stays is found or still to come.
Walked == \A p \in Pids, i \in Inodes :
  /\ i \in found[p] => <<p, i>> \in ever
  /\ scan[p] = "reading" /\ <<p, i>> \in kept =>
       p \notin denied /\ i \in names[p] \cup found[p]
  /\ scan[p] = "ok" /\ <<p, i>> \in kept => i \in found[p]

\* What the tables read so far list was there, and what stays is listed.
Listed ==
  /\ \A i \in Inodes : table[i] > 0 => i \in sighted
  /\ phase # "tcp" /\ lost = {} => \A i \in lasting \ V6Inodes : table[i] > 0
  /\ phase \notin {"tcp", "tcp6"} /\ lost = {} => \A i \in lasting : table[i] > 0
  /\ phase # "done" => lost = {} /\ rows = {}

\* The results looked at are those of the first pids of the list, and each
\* left a U row or a claim by itself or by a pid before it.
Claimed ==
  /\ phase \in {"tcp", "tcp6", "walk"} => todo = targets
  /\ phase = "claims" => \A p \in targets : scan[p] \in Finished
  /\ \A q \in targets \ todo, p \in todo : place[q] <= place[p]
  /\ \A i \in Inodes :
       claims[i] # 0 => claims[i] \in targets \ todo /\ i \in found[claims[i]]
  /\ \A p \in targets \ todo :
       \/ scan[p] = "err" /\ p \in blamed
       \/ /\ scan[p] = "ok"
          /\ \A i \in found[p] : claims[i] # 0 /\ place[claims[i]] <= place[p]

\* One row per listed socket, from the claims of all results.
Answered ==
  /\ rows # {} => todo = {}
  /\ \A r \in rows : r.copy = 1 /\ table[r.inode] > 0 /\ r.claimant = claims[r.inode]
  /\ phase = "done" /\ lost = {} => \A i \in Inodes : table[i] > 0 => RowsOf(i) # {}

IInv ==
  /\ TypeOK /\ HistoryOK /\ kept \subseteq Held
  /\ Walked /\ Listed /\ Claimed /\ Answered

-----------------------------------------------------------------------------

LEMMA InitOK == Init => IInv
<1> SUFFICES ASSUME Init PROVE IInv
  OBVIOUS
<1>1. HostTypeOK /\ HistoryOK
  BY HostInitOK DEF Init
<1>2. place \in [Pids -> Nat]
  BY FS_CardinalityType, PidsAssumption DEF Init, Orders
<1>3. kept \subseteq Held /\ Held \subseteq Pids \X Inodes
  BY DEF Init, Held
<1>4. TypeOK
  BY <1>1, <1>2, <1>3 DEF Init, TypeOK
<1>5. Walked /\ Listed /\ Claimed /\ Answered
  BY DEF Init, Walked, Listed, Claimed, Answered
<1> QED
  BY <1>1, <1>3, <1>4, <1>5 DEF IInv

\* A step of the host, which is over when the claims begin.
LEMMA HostStep == IInv /\ Environment => IInv'
<1> SUFFICES ASSUME IInv, Environment PROVE IInv'
  OBVIOUS
<1>1. /\ phase \in {"tcp", "tcp6", "walk"} /\ UNCHANGED sensor
      /\ HostTypeOK' /\ HistoryOK' /\ HistoryMoves
  BY HostStepOK DEF Environment, IInv, TypeOK
<1>2. /\ kept' \subseteq kept \cap Held'
      /\ \A h \in kept' : h[1] \in denied' <=> h[1] \in denied
  BY DEF Environment
<1>3. TypeOK'
  BY <1>1, <1>2 DEF IInv, TypeOK, sensor
<1>4. Walked'
  BY <1>1, <1>2 DEF IInv, Walked, sensor, HistoryMoves
<1>5. Listed'
  BY <1>1 DEF IInv, Listed, sensor, HistoryMoves
<1>6. Claimed' /\ Answered'
  BY <1>1 DEF IInv, Claimed, Answered, RowsOf, sensor
<1> QED
  BY <1>1, <1>2, <1>3, <1>4, <1>5, <1>6 DEF IInv

\* The reads of the two tables.
LEMMA TableStep == IInv /\ (ReadTcp \/ ReadTcp6 \/ TableFails) => IInv'
<1> SUFFICES ASSUME IInv, ReadTcp \/ ReadTcp6 \/ TableFails PROVE IInv'
  OBVIOUS
<1> USE DEF IInv
<1>1. UNCHANGED env /\ UNCHANGED <<kept, targets, place, scan, names, found, todo,
                                   claims, rows, blamed>>
  BY DEF ReadTcp, ReadTcp6, TableFails
<1>2. HostTypeOK' /\ HistoryOK' /\ kept' \subseteq Held' /\ Walked'
  BY <1>1, HostStutterOK DEF TypeOK, env, Held, Walked
<1>3. phase \in {"tcp", "tcp6"} /\ phase' \in {"tcp6", "walk", "done"}
  BY DEF ReadTcp, ReadTcp6, TableFails
<1>4. Claimed'
  BY <1>1, <1>3 DEF Claimed
<1>5. TypeOK' /\ Listed' /\ Answered'
  <2>1. CASE ReadTcp
    <3>1. /\ phase = "tcp" /\ phase' = "tcp6" /\ lost' = lost
          /\ table' \in [Inodes -> 0..MaxCopies]
          /\ \A i \in Inodes : /\ table'[i] > 0 => i \in sighted
                               /\ i \in lasting \ V6Inodes => table'[i] > 0
      BY <2>1 DEF ReadTcp, Reads
    <3>2. TypeOK'
      BY <1>1, <1>2, <3>1, CopiesAssumption DEF TypeOK
    <3>3. lasting \subseteq Inodes
      BY DEF TypeOK, HostTypeOK
    <3>4. Listed' /\ Answered'
      BY <1>1, <3>1, <3>3 DEF Listed, Answered, env
    <3> QED
      BY <3>2, <3>4
  <2>2. CASE ReadTcp6
    <3>1. PICK t \in Reads(V6Inodes) : table' = [i \in Inodes |-> table[i] + t[i]]
      BY <2>2 DEF ReadTcp6
    <3>2. /\ t \in [Inodes -> 0..MaxCopies]
          /\ \A i \in Inodes : /\ t[i] > 0 => i \in sighted
                               /\ i \in lasting \cap V6Inodes => t[i] > 0
      BY DEF Reads
    <3>3. \A i \in Inodes : table[i] \in Nat /\ t[i] \in Nat
      BY <3>2, CopiesAssumption DEF TypeOK
    <3>4. phase = "tcp6" /\ phase' = "walk" /\ lost' = lost
      BY <2>2 DEF ReadTcp6
    <3>5. TypeOK'
      BY <1>1, <1>2, <3>1, <3>3, <3>4 DEF TypeOK
    <3>6. \A i \in Inodes : /\ table'[i] > 0 <=> table[i] > 0 \/ t[i] > 0
      BY <3>1, <3>3
    <3>7. lasting \subseteq Inodes
      BY DEF TypeOK, HostTypeOK
    <3>8. Listed'
      BY <1>1, <3>2, <3>4, <3>6, <3>7 DEF Listed, env
    <3> QED
      BY <1>1, <3>4, <3>5, <3>8 DEF Listed, Answered
  <2>3. CASE TableFails
    <3>1. phase' = "done" /\ lost' # {} /\ table' = table
          /\ lost' \subseteq {"proc_net_tcp", "proc_net_tcp6"}
      BY <2>3 DEF TableFails
    <3> QED
      BY <1>1, <1>2, <1>3, <3>1 DEF TypeOK, Listed, Answered, env
  <2> QED
    BY <2>1, <2>2, <2>3
<1> QED
  BY <1>2, <1>4, <1>5

\* The walk of one pid's descriptors.
LEMMA WalkStep ==
  ASSUME IInv, NEW p \in Pids,
         \/ ListFds(p) \/ ListFdsFails(p) \/ ScanEnds(p)
         \/ \E i \in Inodes : ReadLink(p, i)
  PROVE  IInv'
<1> USE DEF IInv
<1>1. UNCHANGED env /\ UNCHANGED <<kept, phase, targets, place, table, todo, claims,
                                   rows, blamed, lost>>
  BY DEF ListFds, ListFdsFails, ScanEnds, ReadLink
<1>2. HostTypeOK' /\ HistoryOK' /\ kept' \subseteq Held'
  BY <1>1, HostStutterOK DEF TypeOK, env, Held
<1>3. Listed' /\ Answered'
  BY <1>1 DEF Listed, Answered, RowsOf, env
<1>4. /\ scan' \in [Pids -> {"waiting", "reading"} \cup Finished]
      /\ names' \in [Pids -> SUBSET Inodes] /\ found' \in [Pids -> SUBSET Inodes]
      /\ scan[p] \in {"waiting", "reading"} /\ p \in targets
      /\ \A q \in Pids : q # p => scan'[q] = scan[q] /\ names'[q] = names[q]
                                  /\ found'[q] = found[q]
      /\ \A q \in Pids : found[q] \subseteq found'[q]
  <2>1. CASE ListFds(p)
    BY <2>1 DEF ListFds, Starts, TypeOK, HostTypeOK
  <2>2. CASE ListFdsFails(p)
    BY <2>2 DEF ListFdsFails, Starts, TypeOK, Finished
  <2>3. CASE ScanEnds(p)
    BY <2>3 DEF ScanEnds, TypeOK, Finished
  <2>4. CASE \E i \in Inodes : ReadLink(p, i)
    BY <2>4 DEF ReadLink, TypeOK, HostTypeOK, Finished
  <2> QED
    BY <2>1, <2>2, <2>3, <2>4
<1>5. TypeOK'
  BY <1>1, <1>2, <1>4 DEF TypeOK
<1>6. p \in todo
  BY <1>4 DEF Claimed
<1>7. Claimed'
  BY <1>1, <1>4, <1>6 DEF Claimed, Finished, TypeOK
<1>8. Walked'
  <2> SUFFICES ASSUME NEW j \in Inodes
               PROVE  /\ j \in found'[p] => <<p, j>> \in ever
                      /\ scan'[p] = "reading" /\ <<p, j>> \in kept =>
                           p \notin denied /\ j \in names'[p] \cup found'[p]
                      /\ scan'[p] = "ok" /\ <<p, j>> \in kept => j \in found'[p]
    BY <1>1, <1>4 DEF Walked, env
  <2>0. <<p, j>> \in kept => j \in fds[p]
    BY DEF Held
  <2>1. CASE ListFds(p)
    BY <2>0, <2>1 DEF ListFds, Starts, Walked, TypeOK
  <2>2. CASE ListFdsFails(p)
    BY <2>2 DEF ListFdsFails, Walked, TypeOK
  <2>3. CASE ScanEnds(p)
    BY <2>3 DEF ScanEnds, Walked, TypeOK
  <2>4. CASE \E i \in Inodes : ReadLink(p, i)
    <3>1. PICK i \in Inodes : ReadLink(p, i)
      BY <2>4
    <3>2. PICK now \in {{}} \cup {{x} : x \in fds[p]} :
            /\ p \notin denied /\ i \in fds[p] => now = {i}
            /\ found' = [found EXCEPT ![p] = @ \cup now]
      BY <3>1 DEF ReadLink
    <3>3. now \subseteq fds[p] /\ (j \in fds[p] => <<p, j>> \in ever)
      BY DEF HistoryOK, Held
    <3>4. /\ scan'[p] = "reading" /\ scan[p] = "reading"
          /\ names'[p] = names[p] \ {i} /\ found'[p] = found[p] \cup now
      BY <3>1, <3>2 DEF ReadLink, TypeOK
    <3> QED
      BY <2>0, <3>2, <3>3, <3>4 DEF Walked
  <2> QED
    BY <2>1, <2>2, <2>3, <2>4
<1> QED
  BY <1>2, <1>3, <1>5, <1>7, <1>8

\* The claims, in the order of the list, and the rows.
LEMMA ClaimStep ==
  ASSUME IInv, WalkEnds \/ Rows \/ \E p \in Pids : Claim(p)
  PROVE  IInv'
<1> USE DEF IInv
<1>1. UNCHANGED env /\ UNCHANGED <<kept, targets, place, table, scan, names, found, lost>>
  BY DEF WalkEnds, Rows, Claim
<1>2. HostTypeOK' /\ HistoryOK' /\ kept' \subseteq Held' /\ Walked'
  BY <1>1, HostStutterOK DEF TypeOK, env, Held, Walked
<1>3. CASE WalkEnds
  <2>1. phase = "walk" /\ phase' = "claims" /\ UNCHANGED <<todo, claims, rows, blamed>>
    BY <1>3 DEF WalkEnds
  <2>2. TypeOK' /\ Listed' /\ Answered'
    BY <1>1, <1>2, <2>1 DEF TypeOK, Listed, Answered, env
  <2>3. Claimed'
    BY <1>1, <1>3, <2>1 DEF Claimed, WalkEnds
  <2> QED
    BY <1>2, <2>2, <2>3
<1>4. CASE Rows
  <2>1. /\ phase = "claims" /\ phase' = "done" /\ todo = {}
        /\ UNCHANGED <<todo, claims, blamed>>
        /\ rows' = UNION {{[inode |-> i, copy |-> c, claimant |-> claims[i]] :
                            c \in Copies(i)} : i \in Inodes}
    BY <1>4 DEF Rows
  <2>2. \A r \in rows' : /\ r.copy = 1 /\ table[r.inode] > 0
                         /\ r.claimant = claims[r.inode]
                         /\ r \in [inode : Inodes, copy : Nat, claimant : targets \cup {0}]
    BY <2>1 DEF Copies, TypeOK
  <2>3. \A i \in Inodes : table[i] > 0 =>
          [inode |-> i, copy |-> 1, claimant |-> claims[i]] \in rows'
    BY <2>1 DEF Copies
  <2>4. \A i \in Inodes : table[i] > 0 => RowsOf(i)' # {}
    <3> SUFFICES ASSUME NEW i \in Inodes, table[i] > 0
                 PROVE  \E r \in rows' : r.inode = i
      BY DEF RowsOf
    <3> DEFINE r == [inode |-> i, copy |-> 1, claimant |-> claims[i]]
    <3>1. r \in rows' /\ r.inode = i
      BY <2>3
    <3> QED
      BY <3>1
  <2>5. TypeOK' /\ Listed'
    BY <1>1, <1>2, <2>1, <2>2 DEF TypeOK, Listed, env
  <2>6. Claimed'
    BY <1>1, <2>1 DEF Claimed
  <2>7. Answered'
    BY <1>1, <2>1, <2>2, <2>4 DEF Answered
  <2> QED
    BY <1>2, <2>5, <2>6, <2>7
<1>5. ASSUME NEW p \in Pids, Claim(p) PROVE IInv'
  <2>1. /\ phase = "claims" /\ phase' = phase /\ rows' = rows
        /\ p \in todo /\ \A q \in todo : place[p] <= place[q]
        /\ todo' = todo \ {p}
        /\ claims' = [i \in Inodes |->
                       IF scan[p] = "ok" /\ i \in found[p] /\ claims[i] = 0
                       THEN p ELSE claims[i]]
        /\ blamed' = IF scan[p] = "err" THEN blamed \cup {p} ELSE blamed
    BY <1>5 DEF Claim, Turn
  <2>2. p \in targets /\ p # 0 /\ \A q \in Pids : place[q] \in Nat
    BY <2>1, PidsAssumption DEF TypeOK
  <2>3. TypeOK'
    BY <1>1, <1>2, <2>1, <2>2 DEF TypeOK
  <2>4. Listed' /\ Answered'
    BY <1>1, <2>1 DEF Listed, Answered, RowsOf, env
  <2>5. \A q \in targets' \ todo' : q = p \/ q \in targets \ todo
    BY <1>1, <2>1
  <2>6. \A q \in targets' \ todo', r \in todo' : place'[q] <= place'[r]
    BY <1>1, <2>1, <2>5 DEF Claimed
  <2>7. \A i \in Inodes :
          claims'[i] # 0 => claims'[i] \in targets' \ todo' /\ i \in found'[claims'[i]]
    BY <1>1, <2>1, <2>2 DEF Claimed
  <2>8. ASSUME NEW q \in targets \ todo'
        PROVE  \/ scan[q] = "err" /\ q \in blamed'
               \/ /\ scan[q] = "ok"
                  /\ \A i \in found[q] : claims'[i] # 0 /\ place[claims'[i]] <= place[q]
    <3>0. found[q] \subseteq Inodes
      BY DEF TypeOK
    <3>1. CASE q # p
      <4>1. q \in targets \ todo
        BY <2>1, <2>8, <3>1
      <4>2. \A i \in Inodes : claims[i] # 0 => claims'[i] = claims[i]
        BY <2>1
      <4> QED
        BY <2>1, <3>0, <4>1, <4>2 DEF Claimed
    <3>2. CASE q = p
      <4>1. scan[p] \in Finished
        BY <2>1, <2>2 DEF Claimed
      <4>2. CASE scan[p] = "ok"
        <5> SUFFICES ASSUME NEW i \in found[p]
                     PROVE  claims'[i] # 0 /\ place[claims'[i]] <= place[p]
          BY <3>2, <4>2
        <5>1. CASE claims[i] = 0
          BY <2>1, <2>2, <3>0, <3>2, <4>2, <5>1
        <5>2. CASE claims[i] # 0
          <6>1. claims'[i] = claims[i] /\ claims[i] \in targets \ todo
            BY <2>1, <3>0, <3>2, <5>2 DEF Claimed
          <6> QED
            BY <2>1, <5>2, <6>1 DEF Claimed
        <5> QED
          BY <5>1, <5>2
      <4> QED
        BY <2>1, <3>2, <4>1, <4>2 DEF Finished
    <3> QED
      BY <3>1, <3>2
  <2>9. Claimed'
    BY <1>1, <2>1, <2>6, <2>7, <2>8 DEF Claimed
  <2> QED
    BY <1>2, <2>3, <2>4, <2>9
<1> QED
  BY <1>3, <1>4, <1>5

LEMMA Inductive == Spec => []IInv
<1>1. IInv /\ [Next]_vars => IInv'
  <2> SUFFICES ASSUME IInv, [Next]_vars PROVE IInv'
    OBVIOUS
  <2>1. CASE UNCHANGED vars
    <3>1. UNCHANGED env /\ UNCHANGED kept /\ UNCHANGED sensor
      BY <2>1 DEF vars
    <3>2. HostTypeOK' /\ HistoryOK'
      BY <3>1, HostStutterOK DEF IInv, TypeOK
    <3> QED
      BY <3>1, <3>2 DEF IInv, TypeOK, env, sensor, Held, Walked, Listed, Claimed,
                        Answered, RowsOf
  <2>2. CASE SensorNext
    BY <2>2, TableStep, WalkStep, ClaimStep DEF SensorNext
  <2>3. CASE Environment
    BY <2>3, HostStep
  <2> QED
    BY <2>1, <2>2, <2>3 DEF Next
<1> QED
  BY <1>1, InitOK, PTL DEF Spec

-----------------------------------------------------------------------------

\* Every reachable state of the --ports facet is well typed; its walk reads
\* the snapshot's pids and no others.
THEOREM TypeCorrect == Spec => []TypeOK
<1>1. IInv => TypeOK
  BY DEF IInv
<1> QED
  BY <1>1, Inductive, PTL

\* A listener that stays has one row, whatever the tables repeat
\* (load_listeners).
THEOREM OnceProved == Spec => []EveryListenerOnce
<1>1. IInv => EveryListenerOnce
  <2> SUFFICES ASSUME IInv, NEW i \in Inodes
               PROVE  /\ \A r, t \in RowsOf(i) : r = t
                      /\ Done /\ lost = {} /\ i \in lasting => RowsOf(i) # {}
    BY DEF EveryListenerOnce
  <2>1. \A r \in RowsOf(i) : r = [inode |-> i, copy |-> 1, claimant |-> claims[i]]
    BY DEF IInv, Answered, RowsOf, TypeOK
  <2>2. Done /\ lost = {} /\ i \in lasting => RowsOf(i) # {}
    BY DEF IInv, Answered, Listed, Done
  <2> QED
    BY <2>1, <2>2
<1> QED
  BY <1>1, Inductive, PTL

\* No attribution is made up (snapshot, socket_inodes).
THEOREM ClaimsProved == Spec => []ClaimWasHeld
<1>1. IInv => ClaimWasHeld
  <2> SUFFICES ASSUME IInv, NEW r \in rows
               PROVE  /\ r.inode \in sighted
                      /\ r.claimant # 0 => <<r.claimant, r.inode>> \in ever
    BY DEF ClaimWasHeld
  <2>1. r.inode \in Inodes /\ r.inode \in sighted /\ r.claimant = claims[r.inode]
    BY DEF IInv, TypeOK, Answered, Listed
  <2>2. claims[r.inode] # 0 =>
          claims[r.inode] \in Pids /\ r.inode \in found[claims[r.inode]]
    BY <2>1 DEF IInv, Claimed, TypeOK
  <2> QED
    BY <2>1, <2>2 DEF IInv, Walked
<1> QED
  BY <1>1, Inductive, PTL

\* An owner in scope that stays is attributed, shadowed by a pid before it in
\* the list, or blamed (snapshot, socket_inodes_for_pids).
THEOREM StayingProved == Spec => []StayingOwnerAnswered
<1>1. IInv => StayingOwnerAnswered
  <2> SUFFICES ASSUME IInv, NEW r \in rows, NEW p \in targets, <<p, r.inode>> \in kept
               PROVE  p \in blamed \/ (r.claimant # 0 /\ place[r.claimant] <= place[p])
    BY DEF StayingOwnerAnswered
  <2>1. /\ r.inode \in Inodes /\ p \in Pids /\ p \in targets \ todo
        /\ r.claimant = claims[r.inode]
    BY DEF IInv, TypeOK, Answered
  <2>2. scan[p] = "ok" => r.inode \in found[p]
    BY <2>1 DEF IInv, Walked
  <2> QED
    BY <2>1, <2>2 DEF IInv, Claimed
<1> QED
  BY <1>1, Inductive, PTL

\* The attributions of the --ports facet are neither made up nor withheld.
THEOREM AttributionProved == Spec => []AttributionIsTrue
BY ClaimsProved, StayingProved, PTL DEF AttributionIsTrue

-----------------------------------------------------------------------------
(* PcbList: decode_host_listeners, for any buffer.                         *)

Record ==
  [kind : {"header", "inp", "tcp", "other", "closing", "drift"},
   port : Ports \cup {0}, vflag : Vflags, listening : BOOLEAN]

\* The states of the loop, one after each record.
IsRun(f, buffer) ==
  f = [n \in 0..Len(buffer) |-> IF n = 0 THEN Undecoded ELSE Decode(f[n - 1], buffer[n])]

\* The recursion has a solution, and the loop ends in its last state.
LEMMA RunExists ==
  ASSUME NEW buffer, Len(buffer) \in Nat
  PROVE  \E f : IsRun(f, buffer) /\ Decoded(buffer) = f[Len(buffer)]
<1> DEFINE N == Len(buffer)
           Upto(f, n) == f = [m \in 0..n |-> IF m = 0 THEN Undecoded
                                            ELSE Decode(f[m - 1], buffer[m])]
           S == {n \in 0..N : \E f : Upto(f, n)}
<1>1. 0 \in S
  <2> DEFINE g == [m \in 0..0 |-> Undecoded]
  <2>1. Upto(g, 0)
    OBVIOUS
  <2> HIDE DEF g, Upto
  <2> QED
    BY <2>1
<1>2. ASSUME NEW n \in 0..(N - 1), n \in S PROVE n + 1 \in S
  <2>1. PICK f : Upto(f, n)
    BY <1>2
  <2> DEFINE g == [m \in 0..(n + 1) |-> IF m <= n THEN f[m] ELSE Decode(f[n], buffer[n + 1])]
  <2>2. ASSUME NEW m \in 0..(n + 1)
        PROVE  g[m] = IF m = 0 THEN Undecoded ELSE Decode(g[m - 1], buffer[m])
    <3>1. CASE m = 0
      BY <2>1, <3>1
    <3>2. CASE m \in 1..n
      <4>1. g[m] = f[m] /\ g[m - 1] = f[m - 1]
        BY <3>2
      <4> QED
        BY <2>1, <3>2, <4>1
    <3>3. CASE m = n + 1
      <4>1. g[m] = Decode(f[n], buffer[m]) /\ g[m - 1] = f[n]
        BY <3>3
      <4> QED
        BY <3>3, <4>1
    <3> QED
      BY <3>1, <3>2, <3>3
  <2>3. Upto(g, n + 1)
    BY <2>2
  <2> HIDE DEF g, Upto
  <2> QED
    BY <2>3
<1>3. N \in S
  <2> HIDE DEF S
  <2>1. 0..N \subseteq S
    BY <1>1, <1>2, UpTo
  <2> QED
    BY <2>1
<1>4. \E f : IsRun(f, buffer)
  BY <1>3 DEF IsRun
<1> DEFINE F == CHOOSE f : IsRun(f, buffer)
<1>5. IsRun(F, buffer)
  BY <1>4
<1>6. Decoded(buffer) = F[Len(buffer)]
  BY DEF Decoded, IsRun
<1> QED
  BY <1>5, <1>6

LoopStates ==
  [state : {"open", "closed", "malformed"}, pending : Nat \X {"V4", "V6"}, out : [Keys -> Nat]]

\* One turn keeps the types, and ends the loop at a `drift` or `closing` record
\* and at no other.
LEMMA DecodeOK ==
  ASSUME NEW d \in LoopStates, NEW r \in Record
  PROVE  /\ Decode(d, r) \in LoopStates
         /\ d.state # "open" => Decode(d, r) = d
         /\ d.state = "open" =>
              /\ r.kind = "drift" => Decode(d, r).state = "malformed"
              /\ r.kind # "drift" => Decode(d, r).state # "malformed"
              /\ r.kind \notin {"drift", "closing"} => Decode(d, r).state = "open"
<1>1. d.out \in [Keys -> Nat] /\ d.pending \in Nat \X {"V4", "V6"}
      /\ d.state \in {"open", "closed", "malformed"}
      /\ d = [state |-> d.state, pending |-> d.pending, out |-> d.out]
  BY DEF LoopStates
<1>2. <<r.port, TableSlot(r.vflag)>> \in Nat \X {"V4", "V6"} /\ NoKey \in Nat \X {"V4", "V6"}
  <2>1. r.port \in Ports \/ r.port = 0
    BY DEF Record
  <2>2. r.port \in Nat
    <3>1. CASE r.port \in Ports
      BY PortsAssumption, <3>1, Zenon
    <3>2. CASE r.port = 0
      BY <3>2
    <3> QED
      BY <2>1, <3>1, <3>2
  <2>3. TableSlot(r.vflag) \in {"V4", "V6"}
    BY DEF TableSlot
  <2> QED
    BY <2>2, <2>3 DEF NoKey
<1>3. [k \in Keys |-> IF r.listening /\ k = d.pending THEN d.out[k] + 1 ELSE d.out[k]]
        \in [Keys -> Nat]
  BY <1>1
<1>4. Decode(d, r) \in LoopStates
  BY <1>1, <1>2, <1>3 DEF Decode, LoopStates
<1>5. d.state # "open" => Decode(d, r) = d
  BY DEF Decode
<1>6. d.state = "open" =>
        /\ r.kind = "drift" => Decode(d, r).state = "malformed"
        /\ r.kind # "drift" => Decode(d, r).state # "malformed"
        /\ r.kind \notin {"drift", "closing"} => Decode(d, r).state = "open"
  BY <1>1 DEF Decode
<1> QED
  BY <1>4, <1>5, <1>6

\* The whole loop: typed all along; open until the first record that ends it;
\* malformed at the end if that one drifts, and never without a drift.
LEMMA RunOK ==
  ASSUME NEW buffer, Len(buffer) \in Nat, \A m \in 1..Len(buffer) : buffer[m] \in Record,
         NEW f, IsRun(f, buffer)
  PROVE  /\ \A n \in 0..Len(buffer) : f[n] \in LoopStates
         /\ \A n \in 0..Len(buffer) :
              (\A m \in 1..n : buffer[m].kind \notin {"drift", "closing"}) => f[n].state = "open"
         /\ \A m \in 0..Len(buffer) : \A n \in m..Len(buffer) :
              f[m].state = "malformed" => f[n].state = "malformed"
         /\ (\A m \in 1..Len(buffer) : buffer[m].kind # "drift") =>
              f[Len(buffer)].state # "malformed"
<1> DEFINE N == Len(buffer)
           S == {n \in 0..N : f[n] \in LoopStates}
<1>0. f[0] = Undecoded /\ \A n \in 1..N : f[n] = Decode(f[n - 1], buffer[n])
  BY DEF IsRun
<1>1. \A n \in 0..N : f[n] \in LoopStates
  <2>1. 0 \in S
    BY <1>0 DEF Undecoded, LoopStates, NoKey, NoRows
  <2>2. ASSUME NEW n \in 0..(N - 1), n \in S PROVE n + 1 \in S
    <3>1. n + 1 \in 1..N /\ (n + 1) - 1 = n /\ n + 1 \in 0..N
      OBVIOUS
    <3>2. f[n + 1] = Decode(f[n], buffer[n + 1]) /\ buffer[n + 1] \in Record
      BY <1>0, <3>1
    <3>3. f[n + 1] \in LoopStates
      BY <2>2, <3>2, DecodeOK
    <3> QED
      BY <3>1, <3>3
  <2> HIDE DEF S
  <2>3. 0..N \subseteq S
    BY <2>1, <2>2, UpTo
  <2> QED
    BY <2>3 DEF S
<1>2. ASSUME NEW n \in 0..(N - 1)
      PROVE  /\ f[n].state # "open" => f[n + 1] = f[n]
             /\ f[n].state = "open" =>
                  /\ buffer[n + 1].kind # "drift" => f[n + 1].state # "malformed"
                  /\ buffer[n + 1].kind \notin {"drift", "closing"} => f[n + 1].state = "open"
  <2>1. n + 1 \in 1..N /\ (n + 1) - 1 = n /\ n \in 0..N
    OBVIOUS
  <2>2. f[n + 1] = Decode(f[n], buffer[n + 1]) /\ buffer[n + 1] \in Record /\ f[n] \in LoopStates
    BY <1>0, <1>1, <2>1
  <2> QED
    BY <2>2, DecodeOK
<1>3. ASSUME NEW n \in 0..N, \A m \in 1..n : buffer[m].kind \notin {"drift", "closing"}
      PROVE  f[n].state = "open"
  <2> DEFINE O == {m \in 0..n : f[m].state = "open"}
  <2>1. 0 \in O
    BY <1>0 DEF Undecoded
  <2>2. ASSUME NEW m \in 0..(n - 1), m \in O PROVE m + 1 \in O
    <3>1. m \in 0..(N - 1) /\ m + 1 \in 1..n /\ m + 1 \in 0..n
      OBVIOUS
    <3> QED
      BY <1>2, <1>3, <2>2, <3>1
  <2> HIDE DEF O
  <2>3. 0..n \subseteq O
    BY <2>1, <2>2, UpTo
  <2> QED
    BY <2>3 DEF O
<1>4. ASSUME NEW m \in 0..N, f[m].state = "malformed"
      PROVE  \A n \in m..N : f[n].state = "malformed"
  <2> DEFINE M == {j \in 0..(N - m) : f[m + j].state = "malformed"}
  <2>1. 0 \in M
    BY <1>4
  <2>2. ASSUME NEW j \in 0..((N - m) - 1), j \in M PROVE j + 1 \in M
    <3>1. m + j \in 0..(N - 1) /\ j + 1 \in 0..(N - m) /\ m + (j + 1) = (m + j) + 1
      OBVIOUS
    <3>2. f[(m + j) + 1].state = "malformed"
      BY <1>2, <2>2, <3>1
    <3> QED
      BY <3>1, <3>2
  <2> HIDE DEF M
  <2>3. 0..(N - m) \subseteq M
    <3>1. N - m \in Nat
      OBVIOUS
    <3> QED
      BY <2>1, <2>2, <3>1, UpTo
  <2>4. ASSUME NEW n \in m..N PROVE f[n].state = "malformed"
    <3>1. n - m \in 0..(N - m) /\ m + (n - m) = n
      OBVIOUS
    <3> QED
      BY <2>3, <3>1 DEF M
  <2> QED
    BY <2>4
<1>5. ASSUME \A m \in 1..N : buffer[m].kind # "drift"
      PROVE  f[N].state # "malformed"
  <2> DEFINE W == {m \in 0..N : f[m].state # "malformed"}
  <2>1. 0 \in W
    BY <1>0 DEF Undecoded
  <2>2. ASSUME NEW m \in 0..(N - 1), m \in W PROVE m + 1 \in W
    <3>1. m + 1 \in 1..N /\ m + 1 \in 0..N
      OBVIOUS
    <3> QED
      BY <1>2, <1>5, <2>2, <3>1
  <2> HIDE DEF W
  <2>3. 0..N \subseteq W
    BY <2>1, <2>2, UpTo
  <2> QED
    BY <2>3 DEF W
<1> QED
  BY <1>1, <1>3, <1>4, <1>5
-----------------------------------------------------------------------------
(* The buffers the kernel may hand over.                                   *)

LEMMA FunctionIsSeq ==
  ASSUME NEW S, NEW n \in Nat, NEW s \in [1..n -> S]
  PROVE  s \in Seq(S) /\ Len(s) = n
<1>1. s \in Seq(S)
  BY SeqDef
<1>2. Len(s) \in Nat /\ DOMAIN s = 1..Len(s) /\ DOMAIN s = 1..n
  BY <1>1, LenProperties
<1>3. Len(s) = n
  BY <1>2
<1> QED
  BY <1>1, <1>3

\* Three records a socket.
LEMMA ByThree ==
  ASSUME NEW n \in Nat
  PROVE  /\ \A j \in 0..(n - 1), g \in 1..3 : /\ 3 * j + g \in 1..(3 * n)
                                              /\ ((3 * j + g) + 2) \div 3 = j + 1
                                              /\ (((3 * j + g) - 1) % 3) + 1 = g
         /\ \A m \in 1..(3 * n) : (m + 2) \div 3 \in 1..n /\ ((m - 1) % 3) + 1 \in 1..3
OBVIOUS

\* What a host's sockets say of themselves is what the assumption on them says.
LEMMA GroupOK ==
  ASSUME NEW i \in Inodes
  PROVE  /\ Group(i) \in [1..3 -> Record]
         /\ \A g \in 1..3 : Group(i)[g].kind \notin {"drift", "closing"}
         /\ Group(i)[1] = Inp(SocketOf[i].port, SocketOf[i].vflag)
         /\ Group(i)[2] = Plain("other")
         /\ Group(i)[3] = Tcp(i \notin Connected)
<1>1. SocketOf[i].port \in Ports /\ SocketOf[i].vflag \in Vflags
  BY SocketAssumption
<1>2. /\ Inp(SocketOf[i].port, SocketOf[i].vflag) \in Record
      /\ Plain("other") \in Record
      /\ Tcp(i \notin Connected) \in Record
  BY <1>1 DEF Inp, Plain, Tcp, Record, Vflags
<1>3. /\ Inp(SocketOf[i].port, SocketOf[i].vflag).kind = "inp"
      /\ Plain("other").kind = "other"
      /\ Tcp(i \notin Connected).kind = "tcp"
  BY DEF Inp, Plain, Tcp
<1>4. /\ Group(i)[1] = Inp(SocketOf[i].port, SocketOf[i].vflag)
      /\ Group(i)[2] = Plain("other")
      /\ Group(i)[3] = Tcp(i \notin Connected)
  BY DEF Group
<1>5. Group(i) \in [1..3 -> Record]
  <2>1. Group(i) = [g \in 1..3 |-> Group(i)[g]]
    BY DEF Group
  <2>2. \A g \in 1..3 : Group(i)[g] \in Record
    BY <1>2, <1>4
  <2> QED
    BY <2>1, <2>2, Zenon
<1>6. \A g \in 1..3 : Group(i)[g].kind \notin {"drift", "closing"}
  BY <1>3, <1>4
<1> QED
  BY <1>4, <1>5, <1>6

\* A buffer in order is the header, a group for each socket of the list, and
\* perhaps the closing record.
InOrderFor(buffer, list) ==
  LET n == Len(list)
  IN  /\ Len(buffer) \in {(3 * n) + 1, (3 * n) + 2}
      /\ buffer[1] = Plain("header")
      /\ \A j \in 0..(n - 1), g \in 1..3 : buffer[(3 * j + g) + 1] = Group(list[j + 1])[g]
      /\ Len(buffer) = (3 * n) + 2 => buffer[(3 * n) + 2] = Plain("closing")

\* A buffer of the kernel is in order, or has no record, or drifts before its
\* end.
LEMMA BufferOK ==
  ASSUME NEW n \in Nat, NEW list \in [1..n -> Inodes], NEW buffer \in Buffers(list)
  PROVE  /\ Len(buffer) \in Nat /\ DOMAIN buffer = 1..Len(buffer)
         /\ \A m \in 1..Len(buffer) : buffer[m] \in Record
         /\ \/ /\ InOrderFor(buffer, list) \/ (n = 0 /\ buffer = <<>>)
               /\ \A m \in 1..Len(buffer) : buffer[m].kind # "drift"
            \/ \E m \in 1..Len(buffer) :
                 /\ buffer[m].kind = "drift"
                 /\ \A l \in 1..(m - 1) : buffer[l].kind \notin {"drift", "closing"}
<1>0. Len(list) = n
  BY FunctionIsSeq
<1> DEFINE groups == [m \in 1..(3 * n) |-> Group(list[(m + 2) \div 3])[((m - 1) % 3) + 1]]
           open   == <<Plain("header")>> \o groups
           whole  == Append(open, Plain("closing"))
<1>1. /\ groups \in Seq(Record) /\ Len(groups) = 3 * n
      /\ \A m \in 1..(3 * n) : groups[m].kind \notin {"drift", "closing"}
  <2>1. ASSUME NEW m \in 1..(3 * n)
        PROVE  groups[m] \in Record /\ groups[m].kind \notin {"drift", "closing"}
    <3>1. (m + 2) \div 3 \in 1..n /\ ((m - 1) % 3) + 1 \in 1..3
      BY ByThree
    <3> DEFINE i == list[(m + 2) \div 3]
               g == ((m - 1) % 3) + 1
    <3>2. i \in Inodes
      BY <3>1
    <3>3. Group(i) \in [1..3 -> Record] /\ Group(i)[g].kind \notin {"drift", "closing"}
      BY <3>1, <3>2, GroupOK
    <3>4. groups[m] = Group(i)[g]
      OBVIOUS
    <3> HIDE DEF i, g, groups
    <3> QED
      BY <3>1, <3>3, <3>4 DEF g
  <2>2. groups = [m \in 1..(3 * n) |-> groups[m]]
    OBVIOUS
  <2>3. 3 * n \in Nat
    OBVIOUS
  <2> HIDE DEF groups
  <2>4. groups \in [1..(3 * n) -> Record]
    BY <2>1, <2>2, Zenon
  <2> QED
    BY <2>1, <2>3, <2>4, FunctionIsSeq
<1>2. /\ Plain("header") \in Record /\ Plain("closing") \in Record /\ Plain("drift") \in Record
      /\ Plain("header").kind = "header" /\ Plain("closing").kind = "closing"
      /\ Plain("drift").kind = "drift"
  BY DEF Plain, Record, Vflags
<1> HIDE DEF groups
<1>3. /\ open \in Seq(Record) /\ Len(open) = (3 * n) + 1
      /\ open[1] = Plain("header")
      /\ \A m \in 1..(3 * n) : open[m + 1] = groups[m]
  <2>1. <<Plain("header")>> \in Seq(Record) /\ Len(<<Plain("header")>>) = 1
        /\ <<Plain("header")>>[1] = Plain("header")
    BY <1>2
  <2>2. /\ open \in Seq(Record) /\ Len(open) = 1 + Len(groups)
        /\ \A m \in 1..(1 + Len(groups)) :
             open[m] = IF m <= 1 THEN <<Plain("header")>>[m] ELSE groups[m - 1]
    BY <1>1, <2>1, ConcatProperties
  <2>3. 3 * n \in Nat
    OBVIOUS
  <2> HIDE DEF open
  <2> QED
    BY <1>1, <2>1, <2>2, <2>3
<1> HIDE DEF open
<1>4. /\ whole \in Seq(Record) /\ Len(whole) = (3 * n) + 2
      /\ \A m \in 1..((3 * n) + 1) : whole[m] = open[m]
      /\ whole[(3 * n) + 2] = Plain("closing")
  <2>1. /\ whole \in Seq(Record) /\ Len(whole) = Len(open) + 1
        /\ \A m \in 1..Len(open) : whole[m] = open[m]
        /\ whole[Len(open) + 1] = Plain("closing")
    BY <1>2, <1>3, AppendProperties
  <2>2. 3 * n \in Nat
    OBVIOUS
  <2> HIDE DEF whole
  <2> QED
    BY <1>3, <2>1, <2>2
<1> HIDE DEF whole
<1>5. \A m \in 1..((3 * n) + 1) : open[m].kind \notin {"drift", "closing"}
  <2> SUFFICES ASSUME NEW m \in 1..((3 * n) + 1) PROVE open[m].kind \notin {"drift", "closing"}
    OBVIOUS
  <2>1. CASE m = 1
    BY <1>2, <1>3, <2>1
  <2>2. CASE m # 1
    <3>1. m - 1 \in 1..(3 * n) /\ (m - 1) + 1 = m
      BY <2>2
    <3>2. open[m] = groups[m - 1]
      BY <1>3, <3>1
    <3> QED
      BY <1>1, <3>1, <3>2
  <2> QED
    BY <2>1, <2>2
<1>6. \A j \in 0..(n - 1), g \in 1..3 : open[(3 * j + g) + 1] = Group(list[j + 1])[g]
  <2> SUFFICES ASSUME NEW j \in 0..(n - 1), NEW g \in 1..3
               PROVE  open[(3 * j + g) + 1] = Group(list[j + 1])[g]
    OBVIOUS
  <2>1. /\ 3 * j + g \in 1..(3 * n) /\ ((3 * j + g) + 2) \div 3 = j + 1
        /\ (((3 * j + g) - 1) % 3) + 1 = g
    BY ByThree
  <2>2. open[(3 * j + g) + 1] = groups[3 * j + g]
    BY <1>3, <2>1
  <2>3. groups[3 * j + g] =
          Group(list[((3 * j + g) + 2) \div 3])[(((3 * j + g) - 1) % 3) + 1]
    BY <2>1 DEF groups
  <2> QED
    BY <2>1, <2>2, <2>3
<1>7. \/ buffer \in {whole, open}
      \/ \E m \in {1, (3 * n) + 1, (3 * n) + 2} : buffer = [whole EXCEPT ![m] = Plain("drift")]
      \/ n = 0 /\ buffer = <<>>
  <2> USE DEF groups, open, whole
  <2> QED
    BY <1>0, Zenon DEF Buffers
<1>8. 3 * n \in Nat
  OBVIOUS
<1>9. CASE buffer \in {whole, open}
  <2>1. buffer \in Seq(Record) /\ Len(buffer) \in {(3 * n) + 1, (3 * n) + 2}
        /\ (Len(buffer) = (3 * n) + 2 => buffer = whole)
    BY <1>3, <1>4, <1>8, <1>9
  <2>2. \A m \in 1..((3 * n) + 1) : buffer[m] = open[m]
    BY <1>4, <1>9
  <2>3. Len(buffer) \in Nat /\ DOMAIN buffer = 1..Len(buffer)
        /\ \A m \in 1..Len(buffer) : buffer[m] \in Record
    BY <2>1, LenProperties, ElementOfSeq
  <2>4. ASSUME NEW m \in 1..Len(buffer) PROVE buffer[m].kind # "drift"
    <3>1. CASE m \in 1..((3 * n) + 1)
      BY <1>5, <2>2, <3>1
    <3>2. CASE m = (3 * n) + 2
      <4>1. buffer = whole
        BY <1>8, <2>1, <3>2
      <4> QED
        BY <1>2, <1>4, <3>2, <4>1
    <3> QED
      BY <1>8, <2>1, <3>1, <3>2
  <2>5. InOrderFor(buffer, list)
    <3>1. \A j \in 0..(n - 1), g \in 1..3 : (3 * j + g) + 1 \in 1..((3 * n) + 1)
      OBVIOUS
    <3>2. \A j \in 0..(n - 1), g \in 1..3 : buffer[(3 * j + g) + 1] = Group(list[j + 1])[g]
      BY <1>6, <2>2, <3>1
    <3>3. buffer[1] = Plain("header")
      BY <1>3, <1>8, <2>2
    <3>4. Len(buffer) = (3 * n) + 2 => buffer[(3 * n) + 2] = Plain("closing")
      BY <1>4, <2>1
    <3> QED
      BY <1>0, <2>1, <3>2, <3>3, <3>4 DEF InOrderFor
  <2> QED
    BY <2>3, <2>4, <2>5
<1>10. ASSUME NEW m \in {1, (3 * n) + 1, (3 * n) + 2}, buffer = [whole EXCEPT ![m] = Plain("drift")]
       PROVE  /\ Len(buffer) \in Nat /\ DOMAIN buffer = 1..Len(buffer)
              /\ \A l \in 1..Len(buffer) : buffer[l] \in Record
              /\ m \in 1..Len(buffer) /\ buffer[m].kind = "drift"
              /\ \A l \in 1..(m - 1) : buffer[l].kind \notin {"drift", "closing"}
  <2>1. m \in 1..Len(whole)
    BY <1>4, <1>8
  <2>2. /\ buffer \in Seq(Record) /\ Len(buffer) = Len(whole)
        /\ \A l \in 1..Len(whole) : buffer[l] = IF l = m THEN Plain("drift") ELSE whole[l]
    BY <1>2, <1>4, <1>10, <2>1, ExceptSeq
  <2>3. ASSUME NEW l \in 1..(m - 1) PROVE buffer[l].kind \notin {"drift", "closing"}
    <3>1. l \in 1..((3 * n) + 1) /\ l \in 1..Len(whole) /\ l # m
      BY <1>4, <1>8
    <3>2. buffer[l] = open[l]
      BY <1>4, <2>2, <3>1
    <3> QED
      BY <1>5, <3>1, <3>2
  <2>4. Len(buffer) \in Nat /\ DOMAIN buffer = 1..Len(buffer)
        /\ \A l \in 1..Len(buffer) : buffer[l] \in Record
    BY <2>2, LenProperties, ElementOfSeq
  <2> QED
    BY <1>2, <2>1, <2>2, <2>3, <2>4
<1>11. CASE n = 0 /\ buffer = <<>>
  <2>1. Len(buffer) = 0 /\ DOMAIN buffer = 1..Len(buffer)
    BY <1>11
  <2> QED
    BY <1>11, <2>1
<1> QED
  BY <1>7, <1>9, <1>10, <1>11
-----------------------------------------------------------------------------
(* What the table says of a buffer in order.                               *)

\* The walk, the table's decoder and the property read one slot off a socket.
LEMMA SlotsAgree ==
  ASSUME NEW i \in Inodes, NEW k
  PROVE  /\ ListensOn(i, k) <=> Listener(i, k)
         /\ i \notin Connected /\ k = <<SocketOf[i].port, TableSlot(SocketOf[i].vflag)>>
              <=> Listener(i, k)
<1> DEFINE v == SocketOf[i].vflag
<1>1. SocketOf[i].family \in Families /\ v \in Vflags \ {{}}
      /\ (SocketOf[i].family = "inet" => v = {"v4"})
  BY SocketAssumption
<1>2. v \in {{"v4"}, {"v6"}, {"v4", "v6"}}
  BY <1>1 DEF Vflags
<1> HIDE DEF v
<1>3. /\ Slot(SocketOf[i].family, v) = (IF v = {"v4"} THEN "V4" ELSE "V6")
      /\ TableSlot(v) = (IF v = {"v4"} THEN "V4" ELSE "V6")
  BY <1>1, <1>2 DEF Slot, TableSlot, Families
<1> QED
  BY <1>3 DEF v, ListensOn, Listener

CountUpTo(list, j) == [k \in Keys |-> Cardinality({m \in 1..j : Listener(list[m], k)})]

\* One more socket is one more listener of its key, if it listens.
LEMMA CountNext ==
  ASSUME NEW list, NEW j \in Nat, NEW k \in Keys
  PROVE  /\ CountUpTo(list, j)[k] \in Nat
         /\ CountUpTo(list, j + 1)[k] =
              IF Listener(list[j + 1], k) THEN CountUpTo(list, j)[k] + 1
                                          ELSE CountUpTo(list, j)[k]
<1> DEFINE L(n) == {m \in 1..n : Listener(list[m], k)}
<1>1. IsFiniteSet(L(j)) /\ Cardinality(L(j)) \in Nat
  <2>1. IsFiniteSet(1..j)
    BY FS_Interval
  <2> QED
    BY <2>1, FS_Subset, FS_CardinalityType
<1>2. CASE Listener(list[j + 1], k)
  <2>1. L(j + 1) = L(j) \cup {j + 1} /\ j + 1 \notin L(j)
    BY <1>2
  <2>2. Cardinality(L(j + 1)) = Cardinality(L(j)) + 1
    <3> HIDE DEF L
    <3> QED
      BY <1>1, <2>1, FS_AddElement
  <2> QED
    BY <1>1, <1>2, <2>2 DEF CountUpTo
<1>3. CASE ~Listener(list[j + 1], k)
  <2>1. L(j + 1) = L(j)
    BY <1>3
  <2> QED
    BY <1>1, <1>3, <2>1 DEF CountUpTo
<1> QED
  BY <1>2, <1>3

\* After the records of j sockets nothing is pending, and the listeners among
\* them are counted.
LEMMA GroupsCounted ==
  ASSUME NEW n \in Nat, NEW list \in [1..n -> Inodes], NEW buffer, Len(buffer) \in Nat,
         InOrderFor(buffer, list), NEW f, IsRun(f, buffer)
  PROVE  \A j \in 0..n :
           f[3 * j + 1] = [state |-> "open", pending |-> NoKey, out |-> CountUpTo(list, j)]
<1>0. Len(list) = n
  BY FunctionIsSeq
<1> DEFINE At(j) == [state |-> "open", pending |-> NoKey, out |-> CountUpTo(list, j)]
           S == {j \in 0..n : f[3 * j + 1] = At(j)}
<1>1. /\ f[0] = Undecoded
      /\ \A m \in 0..(3 * n) : f[m + 1] = Decode(f[m], buffer[m + 1])
  <2>1. Len(buffer) \in {(3 * n) + 1, (3 * n) + 2} /\ 3 * n \in Nat
    BY <1>0 DEF InOrderFor
  <2>2. \A m \in 0..(3 * n) : m + 1 \in 1..Len(buffer) /\ (m + 1) - 1 = m
    BY <2>1
  <2>3. /\ f[0] = Undecoded
        /\ \A m \in 1..Len(buffer) : f[m] = Decode(f[m - 1], buffer[m])
    BY DEF IsRun
  <2> QED
    BY <2>2, <2>3
<1>2. 0 \in S
  <2>1. f[1] = Decode(Undecoded, Plain("header"))
    <3>1. 0 \in 0..(3 * n) /\ 0 + 1 = 1
      OBVIOUS
    <3> QED
      BY <1>1, <3>1 DEF InOrderFor
  <2>2. Decode(Undecoded, Plain("header")) = Undecoded
    BY DEF Decode, Undecoded, Plain
  <2>3. CountUpTo(list, 0) = NoRows
    <3>1. \A k \in Keys : {m \in 1..0 : Listener(list[m], k)} = {}
      OBVIOUS
    <3>2. Cardinality({}) = 0
      BY FS_EmptySet
    <3> QED
      BY <3>1, <3>2 DEF CountUpTo, NoRows
  <2>4. 3 * 0 + 1 = 1 /\ 0 \in 0..n
    OBVIOUS
  <2> QED
    BY <2>1, <2>2, <2>3, <2>4 DEF Undecoded
<1>3. ASSUME NEW j \in 0..(n - 1), j \in S PROVE j + 1 \in S
  <2> DEFINE i == list[j + 1]
             key == <<SocketOf[i].port, TableSlot(SocketOf[i].vflag)>>
  <2>1. j + 1 \in 1..n /\ i \in Inodes /\ j \in Nat
    OBVIOUS
  <2>2. /\ 3 * j + 1 \in 0..(3 * n) /\ 3 * j + 2 \in 0..(3 * n) /\ 3 * j + 3 \in 0..(3 * n)
        /\ (3 * j + 1) + 1 = 3 * j + 2 /\ (3 * j + 2) + 1 = 3 * j + 3
        /\ (3 * j + 3) + 1 = 3 * (j + 1) + 1
        /\ {1, 2, 3} \subseteq 1..3
    OBVIOUS
  <2>3. /\ buffer[(3 * j + 1) + 1] = Group(i)[1]
        /\ buffer[(3 * j + 2) + 1] = Group(i)[2]
        /\ buffer[(3 * j + 3) + 1] = Group(i)[3]
    BY <1>0, <2>2 DEF InOrderFor
  <2>4. f[3 * j + 1] = At(j)
    BY <1>3
  <2> HIDE DEF i
  <2>5. f[3 * j + 2] = [state |-> "open", pending |-> key, out |-> CountUpTo(list, j)]
    <3>1. f[3 * j + 2] = Decode(At(j), Inp(SocketOf[i].port, SocketOf[i].vflag))
      BY <1>1, <2>1, <2>2, <2>3, <2>4, GroupOK
    <3> QED
      BY <3>1 DEF Decode, Inp
  <2>6. f[3 * j + 3] = [state |-> "open", pending |-> key, out |-> CountUpTo(list, j)]
    <3>1. f[3 * j + 3] = Decode(f[3 * j + 2], Plain("other"))
      BY <1>1, <2>1, <2>2, <2>3, GroupOK
    <3> QED
      BY <2>5, <3>1 DEF Decode, Plain
  <2>7. f[3 * (j + 1) + 1] =
          [state |-> "open", pending |-> NoKey,
           out |-> [k \in Keys |-> IF i \notin Connected /\ k = key
                                   THEN CountUpTo(list, j)[k] + 1 ELSE CountUpTo(list, j)[k]]]
    <3>1. f[3 * (j + 1) + 1] = Decode(f[3 * j + 3], Tcp(i \notin Connected))
      BY <1>1, <2>1, <2>2, <2>3, GroupOK
    <3> HIDE DEF key
    <3> DEFINE t == Tcp(i \notin Connected)
               d == [state |-> "open", pending |-> key, out |-> CountUpTo(list, j)]
    <3>2. t.kind = "tcp" /\ t.listening = (i \notin Connected)
      BY DEF Tcp
    <3>3. d.state = "open" /\ d.pending = key /\ d.out = CountUpTo(list, j)
      OBVIOUS
    <3>4. Decode(d, t) =
            [d EXCEPT !.pending = NoKey,
                      !.out = [k \in Keys |-> IF t.listening /\ k = d.pending
                                              THEN d.out[k] + 1 ELSE d.out[k]]]
      <4> HIDE DEF d, t
      <4> QED
        BY <3>2, <3>3 DEF Decode
    <3>5. [k \in Keys |-> IF t.listening /\ k = d.pending THEN d.out[k] + 1 ELSE d.out[k]]
            = [k \in Keys |-> IF i \notin Connected /\ k = key
                              THEN CountUpTo(list, j)[k] + 1 ELSE CountUpTo(list, j)[k]]
      <4> HIDE DEF d, t
      <4> QED
        BY <3>2, <3>3, Zenon
    <3> HIDE DEF t
    <3> QED
      BY <2>6, <3>1, <3>4, <3>5 DEF t
  <2>8. CountUpTo(list, j + 1) =
          [k \in Keys |-> IF i \notin Connected /\ k = key
                          THEN CountUpTo(list, j)[k] + 1 ELSE CountUpTo(list, j)[k]]
    <3>1. ASSUME NEW k \in Keys
          PROVE  CountUpTo(list, j + 1)[k] =
                   IF i \notin Connected /\ k = key
                   THEN CountUpTo(list, j)[k] + 1 ELSE CountUpTo(list, j)[k]
      <4>1. (i \notin Connected /\ k = key) <=> Listener(i, k)
        BY <2>1, SlotsAgree
      <4>2. CountUpTo(list, j + 1)[k] =
              IF Listener(i, k) THEN CountUpTo(list, j)[k] + 1 ELSE CountUpTo(list, j)[k]
        BY <2>1, CountNext DEF i
      <4> HIDE DEF key
      <4> QED
        BY <4>1, <4>2
    <3>2. CountUpTo(list, j + 1) = [k \in Keys |-> CountUpTo(list, j + 1)[k]]
      BY DEF CountUpTo
    <3> QED
      BY <3>1, <3>2, Zenon
  <2>9. j + 1 \in 0..n
    OBVIOUS
  <2> QED
    BY <2>7, <2>8, <2>9
<1> HIDE DEF S
<1>4. 0..n \subseteq S
  BY <1>2, <1>3, UpTo
<1> QED
  BY <1>4 DEF S

\* A list that names every socket of S, each somewhere, names each once.
LEMMA ListedOnce ==
  ASSUME NEW S \in SUBSET Inodes, NEW list \in Lists(S), NEW k \in Keys
  PROVE  CountUpTo(list, Cardinality(S))[k] = Cardinality({i \in S : Listener(i, k)})
<1> DEFINE n == Cardinality(S)
           From == {m \in 1..n : Listener(list[m], k)}
           To   == {i \in S : Listener(i, k)}
           g    == [m \in From |-> list[m]]
<1>1. IsFiniteSet(S) /\ n \in Nat
  BY InodesFinite, FS_Subset, FS_CardinalityType
<1>2. list \in [1..n -> S] /\ \A i \in S : \E m \in 1..n : list[m] = i
  BY DEF Lists
<1>3. IsFiniteSet(1..n) /\ Cardinality(1..n) = n
  BY <1>1, FS_Interval
<1>4. list \in Surjection(1..n, S)
  BY <1>2 DEF Surjection
<1>5. list \in Injection(1..n, S)
  BY <1>3, <1>4, FS_SurjSameCardinalityImpliesInj
<1>6. \A a, b \in 1..n : list[a] = list[b] => a = b
  BY <1>2, <1>5 DEF Injection, IsInjective
<1>7. g \in Bijection(From, To)
  <2>1. g \in [From -> To]
    BY <1>2
  <2>2. \A t \in To : \E m \in From : g[m] = t
    BY <1>2
  <2>3. \A a, b \in From : g[a] = g[b] => a = b
    BY <1>6
  <2> HIDE DEF g, From, To
  <2> QED
    BY <2>1, <2>2, <2>3, Fun_IsBij
<1>8. IsFiniteSet(From)
  BY <1>3, FS_Subset
<1>9. Cardinality(To) = Cardinality(From)
  <2> HIDE DEF g, From, To
  <2>1. ExistsBijection(From, To)
    BY <1>7 DEF ExistsBijection
  <2> QED
    BY <1>8, <2>1, FS_Bijection
<1> QED
  BY <1>9 DEF CountUpTo

\* decode_host_listeners: a buffer that drifts is malformed, any other has a row
\* of its key for each listener of the table.
LEMMA TableDecoded ==
  ASSUME NEW S \in SUBSET Inodes, NEW list \in Lists(S), NEW buffer \in Buffers(list)
  PROVE  /\ Decoded(buffer).out \in [Keys -> Nat]
         /\ Decoded(buffer).state = "malformed" <=>
              ~ \A m \in DOMAIN buffer : buffer[m].kind # "drift"
         /\ Decoded(buffer).state # "malformed" =>
              Decoded(buffer).out = [k \in Keys |-> Cardinality({i \in S : Listener(i, k)})]
<1> DEFINE n == Cardinality(S)
           N == Len(buffer)
<1>1. n \in Nat /\ list \in [1..n -> Inodes]
  BY InodesFinite, FS_Subset, FS_CardinalityType DEF Lists
<1>2. /\ N \in Nat /\ DOMAIN buffer = 1..N
      /\ \A m \in 1..N : buffer[m] \in Record
      /\ \/ /\ InOrderFor(buffer, list) \/ (n = 0 /\ buffer = <<>>)
            /\ \A m \in 1..N : buffer[m].kind # "drift"
         \/ \E m \in 1..N : /\ buffer[m].kind = "drift"
                            /\ \A l \in 1..(m - 1) : buffer[l].kind \notin {"drift", "closing"}
  BY <1>1, BufferOK
<1>3. PICK f : IsRun(f, buffer) /\ Decoded(buffer) = f[N]
  BY <1>2, RunExists
<1>4. /\ \A m \in 0..N : f[m] \in LoopStates
      /\ \A m \in 0..N :
           (\A l \in 1..m : buffer[l].kind \notin {"drift", "closing"}) => f[m].state = "open"
      /\ \A m \in 0..N : \A l \in m..N : f[m].state = "malformed" => f[l].state = "malformed"
      /\ (\A m \in 1..N : buffer[m].kind # "drift") => f[N].state # "malformed"
  BY <1>2, <1>3, RunOK
<1>5. f[0] = Undecoded /\ \A m \in 1..N : f[m] = Decode(f[m - 1], buffer[m])
  <2>1. f = [m \in 0..N |-> IF m = 0 THEN Undecoded ELSE Decode(f[m - 1], buffer[m])]
    BY <1>3 DEF IsRun
  <2> HIDE DEF N
  <2>2. f[0] = Undecoded
    BY <1>2, <2>1
  <2>3. \A m \in 1..N : f[m] = Decode(f[m - 1], buffer[m])
    BY <1>2, <2>1
  <2> QED
    BY <2>2, <2>3
<1>6. Decoded(buffer).out \in [Keys -> Nat]
  <2>1. f[N] \in LoopStates
    BY <1>2, <1>4
  <2> QED
    BY <1>3, <2>1 DEF LoopStates
<1>7. ASSUME NEW m \in 1..N, buffer[m].kind = "drift",
             \A l \in 1..(m - 1) : buffer[l].kind \notin {"drift", "closing"}
      PROVE  f[N].state = "malformed"
  <2>1. m - 1 \in 0..N /\ m \in 0..N /\ N \in m..N
    BY <1>2
  <2>2. f[m - 1] \in LoopStates /\ f[m - 1].state = "open" /\ buffer[m] \in Record
    BY <1>2, <1>4, <1>7, <2>1
  <2>3. f[m].state = "malformed"
    BY <1>5, <1>7, <2>2, DecodeOK
  <2> QED
    BY <1>4, <2>1, <2>3
<1>8. CASE n = 0 /\ buffer = <<>>
  <2>1. N = 0 /\ Decoded(buffer) = Undecoded
    BY <1>3, <1>5, <1>8
  <2>2. S = {}
    BY <1>8, InodesFinite, FS_Subset, FS_EmptySet
  <2>3. \A k \in Keys : {i \in S : Listener(i, k)} = {}
    BY <2>2
  <2>4. Cardinality({}) = 0
    BY FS_EmptySet
  <2>5. NoRows = [k \in Keys |-> Cardinality({i \in S : Listener(i, k)})]
    BY <2>3, <2>4 DEF NoRows
  <2>6. Undecoded.state = "open" /\ Undecoded.out = NoRows
    BY DEF Undecoded
  <2>7. \A m \in DOMAIN buffer : buffer[m].kind # "drift"
    BY <1>2, <2>1
  <2> QED
    BY <1>6, <2>1, <2>5, <2>6, <2>7
<1>9. CASE InOrderFor(buffer, list) /\ \A m \in 1..N : buffer[m].kind # "drift"
  <2>1. f[3 * n + 1] = [state |-> "open", pending |-> NoKey, out |-> CountUpTo(list, n)]
    BY <1>1, <1>2, <1>3, <1>9, GroupsCounted
  <2>2. N \in {(3 * n) + 1, (3 * n) + 2} /\ 3 * n \in Nat
        /\ (N = (3 * n) + 2 => buffer[N] = Plain("closing"))
    <3>1. Len(list) = n
      BY <1>1, FunctionIsSeq
    <3> QED
      BY <1>1, <1>9, <3>1 DEF InOrderFor
  <2>3. f[N].out = CountUpTo(list, n)
    <3>1. CASE N = (3 * n) + 1
      BY <2>1, <3>1
    <3>2. CASE N = (3 * n) + 2
      <4>1. N \in 1..N /\ N - 1 = 3 * n + 1
        BY <2>2, <3>2
      <4>2. f[N] = Decode(f[3 * n + 1], Plain("closing"))
        BY <1>5, <2>2, <3>2, <4>1
      <4> QED
        BY <2>1, <4>2 DEF Decode, Plain
    <3> QED
      BY <2>2, <3>1, <3>2
  <2>4. CountUpTo(list, n) = [k \in Keys |-> Cardinality({i \in S : Listener(i, k)})]
    <3>1. \A k \in Keys : CountUpTo(list, n)[k] = Cardinality({i \in S : Listener(i, k)})
      BY ListedOnce
    <3>2. CountUpTo(list, n) = [k \in Keys |-> CountUpTo(list, n)[k]]
      BY DEF CountUpTo
    <3> QED
      BY <3>1, <3>2, Zenon
  <2> QED
    BY <1>2, <1>3, <1>4, <1>6, <1>9, <2>3, <2>4
<1>10. CASE \E m \in 1..N : /\ buffer[m].kind = "drift"
                            /\ \A l \in 1..(m - 1) : buffer[l].kind \notin {"drift", "closing"}
  BY <1>2, <1>3, <1>6, <1>7, <1>10
<1> QED
  BY <1>2, <1>8, <1>9, <1>10

-----------------------------------------------------------------------------
(* ListenersDarwin                                                         *)

\* The pids that are through stand before those that are not, the one being
\* read before the others, and a claim is of one that is through or being read.
InOrder ==
  /\ pid # 0 => stage = "walk" /\ pid \in queue /\ \A q \in queue : position[pid] <= position[q]
  /\ stage = "done" => queue = {}
  /\ listed => pid # 0
  /\ \A p \in wanted \ queue, q \in queue : position[p] <= position[q]
  /\ \A k \in Keys : claimant[k] # 0 => claimant[k] \notin queue \ {pid}

\* Key k is claimed by p or by a pid before it.
TakenBy(k, p) == claimant[k] # 0 /\ position[claimant[k]] <= position[p]

\* A claim is of a listener that was held.  What stays is still to be looked
\* at, or claimed, or its pid is blamed.
Claiming ==
  /\ \A k \in Keys : claimant[k] # 0 =>
       \E i \in Inodes : Listener(i, k) /\ <<claimant[k], i>> \in ever
  /\ \A p \in wanted \ (queue \cup cut \cup unreadable), i \in Inodes, k \in Keys :
       <<p, i>> \in stayed /\ Listener(i, k) => TakenBy(k, p)
  /\ listed /\ pid \notin cut => \A i \in Inodes : <<pid, i>> \in stayed =>
       /\ pid \notin denied
       /\ i \in entries \/ \A k \in Keys : Listener(i, k) => TakenBy(k, pid)

\* The table is not told before the walk is over.
Untold == stage = "walk" =>
  /\ ~intact /\ shown = {}
  /\ errors = {[source |-> "darwin_listeners", facet |-> "ports_uid"]}

DarwinIInv ==
  /\ DarwinTypeOK /\ HistoryOK /\ stayed \subseteq Held
  /\ InOrder /\ Claiming /\ Untold /\ NoListenerLostSilently

-----------------------------------------------------------------------------

LEMMA DarwinInitOK == DarwinInit => DarwinIInv
<1> SUFFICES ASSUME DarwinInit PROVE DarwinIInv
  OBVIOUS
<1>1. HostTypeOK /\ HistoryOK
  BY HostInitOK DEF DarwinInit
<1>2. IsFiniteSet(wanted) /\ Cardinality(wanted) \in Nat
  BY PidsAssumption, FS_Subset, FS_CardinalityType DEF DarwinInit
<1>3. position \in [Pids -> Nat]
  BY <1>2 DEF DarwinInit, Positions
<1>4. stayed \subseteq Held /\ Held \subseteq Pids \X Inodes
  BY DEF DarwinInit, Held
<1>5. DarwinTypeOK
  <2>1. [source |-> "darwin_listeners", facet |-> "ports_uid"] \in Blames
    BY DEF Blames
  <2>2. NoRows \in [Keys -> Nat] /\ [k \in Keys |-> 0] \in [Keys -> wanted \cup {0}]
    BY DEF NoRows
  <2> QED
    BY <1>1, <1>3, <1>4, <2>1, <2>2 DEF DarwinInit, DarwinTypeOK
<1>6. InOrder /\ Claiming /\ Untold /\ NoListenerLostSilently
  BY DEF DarwinInit, InOrder, Claiming, Untold, NoListenerLostSilently, Ended
<1> QED
  BY <1>1, <1>4, <1>5, <1>6 DEF DarwinIInv

\* A step of the host, while pids are walked.
LEMMA DarwinHostStep == DarwinIInv /\ DarwinEnvironment => DarwinIInv'
<1> SUFFICES ASSUME DarwinIInv, DarwinEnvironment PROVE DarwinIInv'
  OBVIOUS
<1>1. /\ stage = "walk" /\ UNCHANGED darwinSensor
      /\ HostTypeOK' /\ HistoryOK' /\ ever \subseteq ever'
  BY HostStepOK DEF DarwinEnvironment, DarwinIInv, DarwinTypeOK, HistoryMoves
<1>2. /\ stayed' \subseteq stayed \cap Held'
      /\ \A h \in stayed' : h[1] \in denied' <=> h[1] \in denied
  BY DEF DarwinEnvironment
<1>3. DarwinTypeOK'
  BY <1>1, <1>2 DEF DarwinIInv, DarwinTypeOK, darwinSensor, walk
<1>4. InOrder' /\ Untold' /\ NoListenerLostSilently'
  BY <1>1 DEF DarwinIInv, InOrder, Untold, NoListenerLostSilently, Ended, darwinSensor, walk
<1>5. Claiming'
  <2>1. \A k \in Keys, p \in Pids : TakenBy(k, p)' = TakenBy(k, p)
    BY <1>1 DEF TakenBy, darwinSensor, walk
  <2> QED
    BY <1>1, <1>2, <2>1 DEF DarwinIInv, Claiming, TakenBy, darwinSensor, walk
<1> QED
  BY <1>1, <1>2, <1>3, <1>4, <1>5 DEF DarwinIInv

\* The walk of the pids' descriptors.
LEMMA ReadStep ==
  ASSUME DarwinIInv,
         ReadFds \/ PidEnds \/ (\E p \in Pids : ProbeFds(p)) \/ \E i \in Inodes : LookAtFd(i)
  PROVE  DarwinIInv'
<1> USE DEF DarwinIInv
<1>1. /\ UNCHANGED env
      /\ UNCHANGED <<stayed, stage, wanted, position, listeners, errors, intact, shown>>
      /\ stage = "walk"
  BY DEF ReadFds, PidEnds, ProbeFds, LookAtFd, NextInLine, InOrder
<1>2. HostTypeOK' /\ HistoryOK' /\ stayed' \subseteq Held'
  BY <1>1, HostStutterOK DEF DarwinTypeOK, env, Held
<1>3. Untold' /\ NoListenerLostSilently'
  BY <1>1 DEF Untold, NoListenerLostSilently, Ended
<1>4. \A p \in Pids : IsFiniteSet(fds[p]) /\ Cardinality(fds[p]) \in Nat
  BY InodesFinite, FS_Subset, FS_CardinalityType DEF DarwinTypeOK, HostTypeOK
<1>5. 0 \notin Pids /\ wanted \subseteq Pids /\ queue \subseteq wanted
  BY PidsAssumption DEF DarwinTypeOK
<1>6. \A p \in Pids, i \in Inodes : <<p, i>> \in stayed => i \in fds[p] /\ p \in alive
  BY DEF Held, HistoryOK
<1>7. ASSUME NEW p \in queue, \A q \in queue : position[p] <= position[q], ~listed, pid \in {0, p},
             UNCHANGED <<room, listed, claimant, cut, entries>>, p \notin alive \ denied,
             \E outcome \in {"none", "denied"} :
                 (p \in denied => outcome = "denied") /\ Over(p, outcome)
      PROVE  DarwinIInv'
  <2>1. /\ queue' = queue \ {p} /\ pid' = 0
        /\ unreadable \subseteq unreadable' /\ unreadable' \subseteq unreadable \cup {p}
        /\ p \in denied => p \in unreadable'
    BY <1>7 DEF Over
  <2>2. DarwinTypeOK'
    BY <1>1, <1>2, <1>5, <1>7, <2>1 DEF DarwinTypeOK
  <2>3. InOrder'
    BY <1>1, <1>5, <1>7, <2>1 DEF InOrder
  <2>4. Claiming'
    <3>1. \A i \in Inodes : <<p, i>> \in stayed => p \in unreadable'
      BY <1>5, <1>6, <1>7, <2>1
    <3> QED
      BY <1>1, <1>7, <2>1, <3>1 DEF Claiming, TakenBy, env
  <2> QED
    BY <1>2, <1>3, <2>2, <2>3, <2>4
<1>8. CASE \E p \in Pids : ProbeFds(p)
  <2>1. PICK p \in Pids : ProbeFds(p)
    BY <1>8
  <2>2. /\ pid = 0 /\ p \in queue /\ \A q \in queue : position[p] <= position[q]
        /\ UNCHANGED <<listed, entries, claimant, cut>> /\ ~listed
    BY <2>1 DEF ProbeFds, NextInLine, InOrder
  <2>3. CASE p \in alive \ denied
    <3>1. pid' = p /\ room' = Cardinality(fds[p]) + FdSlack /\ UNCHANGED <<queue, unreadable>>
      BY <2>1, <2>3 DEF ProbeFds
    <3>2. room' \in Nat
      BY <1>4, <3>1, SocketAssumption
    <3>3. DarwinTypeOK'
      BY <1>1, <1>2, <1>5, <2>2, <3>1, <3>2 DEF DarwinTypeOK
    <3>4. InOrder' /\ Claiming'
      BY <1>1, <1>5, <2>2, <3>1 DEF InOrder, Claiming, TakenBy, env
    <3> QED
      BY <1>2, <1>3, <3>3, <3>4
  <2>4. CASE p \notin alive \ denied
    <3>1. /\ \E outcome \in {"none", "denied"} :
               (p \in denied => outcome = "denied") /\ Over(p, outcome)
          /\ UNCHANGED room
      BY <2>1, <2>4 DEF ProbeFds
    <3> QED
      BY <1>7, <2>2, <2>4, <3>1
  <2> QED
    BY <2>3, <2>4
<1>9. CASE ReadFds
  <2>1. /\ pid # 0 /\ ~listed /\ UNCHANGED <<room, claimant>>
        /\ pid \in queue /\ pid \in Pids /\ \A q \in queue : position[pid] <= position[q]
    BY <1>5, <1>9 DEF ReadFds, InOrder
  <2>2. CASE pid \in alive \ denied
    <3>1. /\ entries' \subseteq fds[pid] /\ listed' = TRUE /\ UNCHANGED <<queue, pid, unreadable>>
          /\ \/ entries' = fds[pid] /\ cut' = cut
             \/ cut' = cut \cup {pid}
      BY <1>9, <2>2 DEF ReadFds
    <3>2. DarwinTypeOK'
      BY <1>1, <1>2, <1>5, <2>1, <3>1 DEF DarwinTypeOK, HostTypeOK
    <3>3. InOrder'
      BY <1>1, <2>1, <3>1 DEF InOrder
    <3>4. Claiming'
      BY <1>1, <1>6, <2>1, <2>2, <3>1 DEF Claiming, TakenBy, env
    <3> QED
      BY <1>2, <1>3, <3>2, <3>3, <3>4
  <2>3. CASE pid \notin alive \ denied
    <3>1. /\ \E outcome \in {"none", "denied"} :
               (pid \in denied => outcome = "denied") /\ Over(pid, outcome)
          /\ UNCHANGED <<listed, entries, cut>>
      BY <1>9, <2>3 DEF ReadFds
    <3> QED
      BY <1>7, <2>1, <2>3, <3>1
  <2> QED
    BY <2>2, <2>3
<1>10. CASE \E i \in Inodes : LookAtFd(i)
  <2>1. PICK i \in Inodes : LookAtFd(i)
    BY <1>10
  <2>2. PICK now \in {{}} \cup {{x} : x \in fds[pid]} :
          /\ pid \in denied => now = {}
          /\ pid \notin denied /\ i \in fds[pid] => now = {i}
          /\ claimant' = [k \in Keys |->
               IF claimant[k] = 0 /\ \E x \in now : ListensOn(x, k) THEN pid ELSE claimant[k]]
    BY <2>1 DEF LookAtFd
  <2>3. /\ pid # 0 /\ listed /\ entries' = entries \ {i}
        /\ UNCHANGED <<queue, pid, room, listed, cut, unreadable>>
        /\ pid \in queue /\ pid \in Pids /\ \A q \in queue : position[pid] <= position[q]
    BY <1>5, <2>1 DEF LookAtFd, InOrder
  <2>4. now \subseteq fds[pid] /\ fds[pid] \subseteq Inodes
    BY <2>3 DEF DarwinTypeOK, HostTypeOK
  <2>5. \A k \in Keys : /\ claimant[k] # 0 => claimant'[k] = claimant[k]
                        /\ claimant'[k] \in {claimant[k], pid}
    BY <2>2
  <2>6. DarwinTypeOK'
    <3>1. claimant' \in [Keys -> wanted \cup {0}]
      BY <1>5, <2>2, <2>3 DEF DarwinTypeOK
    <3> QED
      BY <1>1, <1>2, <2>3, <3>1 DEF DarwinTypeOK
  <2>7. InOrder'
    BY <1>1, <2>3, <2>5 DEF InOrder
  <2>8. \A k \in Keys, p \in Pids : TakenBy(k, p) => TakenBy(k, p)'
    BY <1>1, <2>5 DEF TakenBy
  <2>9. ASSUME NEW k \in Keys, claimant'[k] # 0
        PROVE  \E j \in Inodes : Listener(j, k) /\ <<claimant'[k], j>> \in ever
    <3>1. CASE claimant[k] # 0
      BY <2>5, <3>1 DEF Claiming
    <3>2. CASE claimant[k] = 0
      <4>1. PICK x \in now : ListensOn(x, k) /\ claimant'[k] = pid
        BY <2>2, <2>9, <3>2
      <4>2. Listener(x, k) /\ x \in Inodes /\ x \in fds[pid]
        BY <2>4, <4>1, SlotsAgree
      <4>3. <<pid, x>> \in ever
        BY <2>3, <4>2 DEF HistoryOK, Held
      <4> QED
        BY <4>1, <4>2, <4>3
    <3> QED
      BY <3>1, <3>2
  <2>10. ASSUME pid \notin cut, NEW j \in Inodes, <<pid, j>> \in stayed
         PROVE  /\ pid \notin denied
                /\ j \in entries' \/ \A k \in Keys : Listener(j, k) => TakenBy(k, pid)'
    <3>1. pid \notin denied /\ j \in fds[pid]
          /\ (j \in entries \/ \A k \in Keys : Listener(j, k) => TakenBy(k, pid))
      BY <1>6, <2>3, <2>10 DEF Claiming
    <3>2. CASE j # i \/ j \notin entries
      BY <2>3, <2>8, <3>1, <3>2
    <3>3. CASE j = i
      <4>1. now = {i}
        BY <2>2, <3>1, <3>3
      <4>2. ASSUME NEW k \in Keys, Listener(i, k) PROVE TakenBy(k, pid)'
        <5>1. \E x \in now : ListensOn(x, k)
          BY <4>1, <4>2, SlotsAgree
        <5>2. claimant'[k] = IF claimant[k] = 0 THEN pid ELSE claimant[k]
          BY <2>2, <5>1
        <5>3. position[pid] \in Nat
          BY <2>3 DEF DarwinTypeOK
        <5>4. claimant[k] # 0 => claimant[k] = pid \/ claimant[k] \in wanted \ queue
          BY DEF InOrder, DarwinTypeOK
        <5>5. claimant[k] # 0 => position[claimant[k]] <= position[pid]
          BY <2>3, <5>3, <5>4 DEF InOrder
        <5> QED
          BY <1>1, <2>3, <5>2, <5>3, <5>5 DEF TakenBy
      <4> QED
        BY <3>1, <3>3, <4>2
    <3> QED
      BY <3>2, <3>3
  <2>11. Claiming'
    <3>1. \A k \in Keys : claimant'[k] # 0 =>
            \E j \in Inodes : Listener(j, k)' /\ <<claimant'[k], j>> \in ever'
      BY <1>1, <2>9 DEF Listener, env
    <3>2. \A p \in wanted' \ (queue' \cup cut' \cup unreadable'), j \in Inodes, k \in Keys :
            <<p, j>> \in stayed' /\ Listener(j, k)' => TakenBy(k, p)'
      BY <1>1, <1>5, <2>3, <2>8 DEF Claiming, Listener
    <3>3. listed' /\ pid' \notin cut' => \A j \in Inodes : <<pid', j>> \in stayed' =>
            /\ pid' \notin denied'
            /\ j \in entries' \/ \A k \in Keys : Listener(j, k)' => TakenBy(k, pid)'
      BY <1>1, <2>3, <2>10 DEF Listener, env
    <3> QED
      BY <3>1, <3>2, <3>3 DEF Claiming
  <2> QED
    BY <1>2, <1>3, <2>6, <2>7, <2>11
<1>11. CASE PidEnds
  <2>1. /\ pid # 0 /\ listed /\ entries = {}
        /\ queue' = queue \ {pid} /\ pid' = 0 /\ listed' = FALSE
        /\ UNCHANGED <<room, entries, claimant, unreadable, cut>>
        /\ pid \in queue /\ pid \in Pids /\ \A q \in queue : position[pid] <= position[q]
    BY <1>5, <1>11 DEF PidEnds, InOrder
  <2>2. DarwinTypeOK'
    BY <1>1, <1>2, <1>5, <2>1 DEF DarwinTypeOK
  <2>3. InOrder'
    BY <1>1, <1>5, <2>1 DEF InOrder
  <2>4. Claiming'
    <3>1. pid \notin cut => \A i \in Inodes, k \in Keys :
            <<pid, i>> \in stayed /\ Listener(i, k) => TakenBy(k, pid)
      BY <2>1 DEF Claiming
    <3> QED
      BY <1>1, <2>1, <3>1 DEF Claiming, TakenBy, env
  <2> QED
    BY <1>2, <1>3, <2>2, <2>3, <2>4
<1> QED
  BY <1>8, <1>9, <1>10, <1>11

\* The host's table, and the union.
LEMMA TableToldStep == DarwinIInv /\ (ReadTable \/ HostTableFails) => DarwinIInv'
<1> SUFFICES ASSUME DarwinIInv, ReadTable \/ HostTableFails PROVE DarwinIInv'
  OBVIOUS
<1> USE DEF DarwinIInv
<1>1. /\ UNCHANGED env /\ UNCHANGED <<stayed, wanted, position, walk>>
      /\ stage = "walk" /\ stage' = "done" /\ pid = 0 /\ queue = {}
      /\ errors = {[source |-> "darwin_listeners", facet |-> "ports_uid"]}
      /\ ~intact /\ shown = {}
  BY DEF ReadTable, HostTableFails, WalkOver, Untold
<1>2. HostTypeOK' /\ HistoryOK' /\ stayed' \subseteq Held'
  BY <1>1, HostStutterOK DEF DarwinTypeOK, env, Held
<1>3. InOrder' /\ Untold'
  BY <1>1 DEF InOrder, Untold, walk
<1>4. Claiming'
  BY <1>1 DEF Claiming, TakenBy, walk, env
<1>5. /\ claimant \in [Keys -> wanted \cup {0}] /\ claimant' = claimant
      /\ \A k \in Keys : claimant[k] # 0 => claimant[k] \in Pids
  BY <1>1 DEF DarwinTypeOK, walk
<1> DEFINE Told(S) == [k \in Keys |-> Cardinality({i \in S : Listener(i, k)})]
<1>6. ASSUME TableLost
      PROVE  /\ listeners' = [k \in Keys |-> IF claimant[k] # 0 THEN 1 ELSE 0]
             /\ errors' \subseteq Blames
             /\ Withheld("ports")' \/ Withheld("ports_unclaimed")'
             /\ Withheld("ports")' => \A k \in Keys : claimant[k] = 0
  <2>1. PICK facet \in {"ports", "ports_unclaimed"} :
          /\ facet = "ports" => \A k \in Keys : claimant[k] = 0
          /\ errors' = errors \cup {[source |-> "darwin_tcp_pcblist", facet |-> facet]}
    BY <1>6 DEF TableLost, Lost
  <2>2. listeners' = [k \in Keys |-> IF claimant[k] # 0 THEN 1 ELSE 0]
    BY <1>6 DEF TableLost, Attributed, NoRows
  <2>3. errors' \subseteq Blames
    BY <1>1, <2>1 DEF Blames
  <2>4. Withheld("ports")' \/ Withheld("ports_unclaimed")'
    BY <2>1 DEF Withheld
  <2>5. Withheld("ports")' => \A k \in Keys : claimant[k] = 0
    BY <1>1, <2>1 DEF Withheld
  <2> QED
    BY <2>2, <2>3, <2>4, <2>5
<1>7. ASSUME TableLost, ~intact', shown' \subseteq Inodes, intact' \in BOOLEAN PROVE DarwinIInv'
  <2>1. listeners' \in [Keys -> Nat]
    BY <1>6, <1>7
  <2>2. DarwinTypeOK'
    BY <1>1, <1>2, <1>6, <1>7, <2>1 DEF DarwinTypeOK, walk
  <2>3. NoListenerLostSilently'
    BY <1>5, <1>6, <1>7 DEF NoListenerLostSilently
  <2> QED
    BY <1>2, <1>3, <1>4, <2>2, <2>3
<1>8. CASE HostTableFails
  <2>1. TableLost /\ intact' = intact /\ shown' = shown
    BY <1>8 DEF HostTableFails
  <2>2. intact \in BOOLEAN /\ shown \subseteq Inodes
    BY DEF DarwinTypeOK
  <2>3. ~intact' /\ shown' \subseteq Inodes /\ intact' \in BOOLEAN
    BY <1>1, <2>1, <2>2, Zenon
  <2> QED
    BY <1>7, <2>1, <2>3
<1>9. CASE ReadTable
  <2>0. PICK list \in Lists(shown') : \E buffer \in Buffers(list) :
          /\ intact' = \A m \in DOMAIN buffer : buffer[m].kind # "drift"
          /\ IF Decoded(buffer).state = "malformed"
               THEN TableLost ELSE TableRead(Decoded(buffer).out)
    BY <1>9 DEF ReadTable
  <2>1. PICK buffer \in Buffers(list) :
          /\ intact' = \A m \in DOMAIN buffer : buffer[m].kind # "drift"
          /\ IF Decoded(buffer).state = "malformed"
               THEN TableLost ELSE TableRead(Decoded(buffer).out)
    BY <2>0
  <2>2. shown' \subseteq Inodes
    BY <1>9 DEF ReadTable, Bound, DarwinTypeOK, HostTypeOK
  <2>3. intact' \in BOOLEAN
    BY <2>1
  <2>4. CASE Decoded(buffer).state = "malformed"
    BY <1>7, <2>1, <2>2, <2>3, <2>4, TableDecoded
  <2>5. CASE Decoded(buffer).state # "malformed"
    <3> DEFINE out == Decoded(buffer).out
    <3>1. intact' /\ out = Told(shown') /\ out \in [Keys -> Nat] /\ TableRead(out)
      BY <2>1, <2>2, <2>5, TableDecoded
    <3> HIDE DEF out
    <3>2. listeners' = [k \in Keys |-> IF out[k] = 0 /\ claimant[k] # 0 THEN 1 ELSE out[k]]
      BY <3>1 DEF TableRead, Attributed
    <3>3. \A k \in Keys :
            /\ IsFiniteSet({i \in shown' : Listener(i, k)})
            /\ out[k] = Cardinality({i \in shown' : Listener(i, k)})
            /\ out[k] = 0 <=> {i \in shown' : Listener(i, k)} = {}
      <4>1. \A k \in Keys : IsFiniteSet({i \in shown' : Listener(i, k)})
        BY <2>2, InodesFinite, FS_Subset
      <4>2. \A k \in Keys : out[k] = Cardinality({i \in shown' : Listener(i, k)})
        BY <3>1
      <4> QED
        BY <4>1, <4>2, FS_EmptySet
    <3>4. out = NoRows <=> \A i \in shown' : i \in Connected \/ SocketOf[i].port = 0
      <4>1. out = NoRows <=> \A k \in Keys : out[k] = 0
        BY <3>1 DEF NoRows
      <4>2. \A i \in shown', k \in Keys :
              Listener(i, k) => i \notin Connected /\ SocketOf[i].port # 0
        BY DEF Listener, Keys
      <4>3. ASSUME NEW i \in shown', i \notin Connected, SocketOf[i].port # 0
            PROVE  \E k \in Keys : Listener(i, k)
        <5>1. SocketOf[i].port \in Ports \ {0}
          BY <2>2, <4>3, SocketAssumption
        <5> DEFINE k == <<SocketOf[i].port, IF SocketOf[i].vflag = {"v4"} THEN "V4" ELSE "V6">>
        <5>2. k \in Keys
          BY <5>1 DEF Keys
        <5>3. Listener(i, k)
          BY <4>3 DEF Listener
        <5> QED
          BY <5>2, <5>3
      <4> QED
        BY <3>3, <4>1, <4>2, <4>3
    <3>5. /\ errors' \subseteq Blames
          /\ out = NoRows => Withheld("ports_unclaimed")'
          /\ ~Withheld("ports")'
      BY <1>1, <3>1 DEF TableRead, Lost, Withheld, Blames
    <3>6. DarwinTypeOK'
      BY <1>1, <1>2, <2>2, <3>1, <3>2, <3>5 DEF DarwinTypeOK, walk
    <3>7. ASSUME NEW k \in Keys
          PROVE  LET told   == {i \in shown' : Listener(i, k)}
                     silent == \A i \in shown' : i \in Connected \/ SocketOf[i].port = 0
                 IN  /\ claimant[k] # 0 => listeners'[k] > 0
                     /\ IF silent
                          THEN /\ listeners'[k] <= 1
                               /\ listeners'[k] = 1 <=> claimant[k] # 0
                          ELSE /\ Cardinality(told) <= listeners'[k]
                               /\ told # {} \/ claimant[k] = 0 =>
                                    listeners'[k] = Cardinality(told)
      <4>1. out[k] \in Nat
        BY <3>1
      <4>2. listeners'[k] = IF out[k] = 0 /\ claimant[k] # 0 THEN 1 ELSE out[k]
        BY <3>2
      <4>3. (\A i \in shown' : i \in Connected \/ SocketOf[i].port = 0) => out[k] = 0
        BY <3>4 DEF NoRows
      <4> DEFINE told == {i \in shown' : Listener(i, k)}
      <4>4. out[k] = Cardinality(told) /\ (out[k] = 0 <=> told = {})
        BY <3>3
      <4> HIDE DEF told
      <4>5. Cardinality(told) <= listeners'[k]
        BY <4>1, <4>2, <4>4
      <4>6. told # {} \/ claimant[k] = 0 => listeners'[k] = Cardinality(told)
        BY <4>2, <4>4
      <4>7. claimant[k] # 0 => listeners'[k] > 0
        BY <4>1, <4>2
      <4>8. (\A i \in shown' : i \in Connected \/ SocketOf[i].port = 0) =>
              /\ listeners'[k] <= 1
              /\ listeners'[k] = 1 <=> claimant[k] # 0
        BY <4>2, <4>3
      <4> QED
        BY <4>5, <4>6, <4>7, <4>8, Zenon DEF told
    <3>8. NoListenerLostSilently'
      BY <1>5, <3>1, <3>4, <3>5, <3>7 DEF NoListenerLostSilently, Listener
    <3> QED
      BY <1>2, <1>3, <1>4, <3>6, <3>8
  <2> QED
    BY <2>4, <2>5
<1> QED
  BY <1>8, <1>9

LEMMA DarwinInductive == DarwinSpec => []DarwinIInv
<1>1. DarwinIInv /\ [DarwinNext]_darwinVars => DarwinIInv'
  <2> SUFFICES ASSUME DarwinIInv, [DarwinNext]_darwinVars PROVE DarwinIInv'
    OBVIOUS
  <2>1. CASE UNCHANGED darwinVars
    <3>1. UNCHANGED env /\ UNCHANGED stayed /\ UNCHANGED darwinSensor
      BY <2>1 DEF darwinVars
    <3>2. HostTypeOK' /\ HistoryOK'
      BY <3>1, HostStutterOK DEF DarwinIInv, DarwinTypeOK
    <3>3. DarwinTypeOK' /\ stayed' \subseteq Held'
      BY <3>1, <3>2 DEF DarwinIInv, DarwinTypeOK, darwinSensor, walk, Held, env
    <3>4. InOrder' /\ Untold' /\ NoListenerLostSilently'
      BY <3>1 DEF DarwinIInv, InOrder, Untold, NoListenerLostSilently, Ended, Withheld,
                  darwinSensor, walk
    <3>5. Claiming'
      BY <3>1 DEF DarwinIInv, Claiming, TakenBy, darwinSensor, walk, env
    <3> QED
      BY <3>2, <3>3, <3>4, <3>5 DEF DarwinIInv
  <2>2. CASE DarwinSensorNext
    BY <2>2, ReadStep, TableToldStep DEF DarwinSensorNext
  <2>3. CASE DarwinEnvironment
    BY <2>3, DarwinHostStep
  <2> QED
    BY <2>1, <2>2, <2>3 DEF DarwinNext
<1> QED
  BY <1>1, DarwinInitOK, PTL DEF DarwinSpec

-----------------------------------------------------------------------------

\* Every reachable state of the darwin --ports facet is well typed.
THEOREM DarwinTypeCorrect == DarwinSpec => []DarwinTypeOK
<1>1. DarwinIInv => DarwinTypeOK
  BY DEF DarwinIInv
<1> QED
  BY <1>1, DarwinInductive, PTL

\* Whatever records the host's table is made of, a listener it shows has its
\* rows or an E row says that listeners are missing (decode_host_listeners,
\* attribute_host_listeners, snapshot).
THEOREM NoListenerLost == DarwinSpec => []NoListenerLostSilently
<1>1. DarwinIInv => NoListenerLostSilently
  BY DEF DarwinIInv
<1> QED
  BY <1>1, DarwinInductive, PTL

\* A claim of a key is neither made up nor withheld from a target that kept a
\* listener of it (listener_claims, socket_fds).
THEOREM DarwinClaimsProved == DarwinSpec => []ClaimsAreTrue
<1>1. DarwinIInv => ClaimsAreTrue
  BY DEF DarwinIInv, ClaimsAreTrue, Claiming, TakenBy, InOrder, Ended
<1> QED
  BY <1>1, DarwinInductive, PTL

=============================================================================
