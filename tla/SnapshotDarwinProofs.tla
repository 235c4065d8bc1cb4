------------------------ MODULE SnapshotDarwinProofs ------------------------
(***************************************************************************)
(* What a darwin snapshot promises, for any pids, asks, ancestry and       *)
(* number of host steps.                                                   *)
(***************************************************************************)
EXTENDS SnapshotDarwin, TLAPS

\* The history remembers what is there.
HostTrue ==
  /\ HostTypeOK
  /\ \A p \in Living : <<p, born[p]>> \in lived
  /\ born \in moments

\* The census was one instant of the ask, its processes lived then, and what
\* was read of the pid at hand was read of a process that bore it.
SensorTrue ==
  /\ phase \in {"timebase", "census"} => rows = {} /\ unreadable = {}
  /\ pid # 0 => phase = "reads"
  /\ pid = 0 => \A f \in Reads : got[f] = Gone
  /\ phase \in {"select", "reads"} => census \in moments
  /\ \A p \in Listed(census) : <<p, census[p]>> \in lived
  /\ \A f \in Reads : got[f] \notin {Gone, Refused} => <<pid, got[f]>> \in lived

\* Rows and blame are what the census says, where it says anything.
RowsTrue ==
  /\ (rows = {} /\ unreadable = {}) \/ census \in moments
  /\ \A r \in rows : /\ <<r.pid, r.born>> \in lived
                     /\ r.part \in Census => census[r.pid] = r.born
  /\ \A u \in unreadable :
       u.facet \in Census /\ u.errno = Gone => census[u.pid] = 0

Truth == TypeOK /\ HostTrue /\ SensorTrue /\ RowsTrue

\* The pids that are through, and whom rows and blame are about: these, or a
\* root that the census does not list.
Reported == targets \ (todo \cup {pid})

Placed ==
  /\ pid # 0 => pid \notin todo
  /\ phase \in {"timebase", "census"} => targets = {}
  /\ phase = "done" => todo = {}
  /\ phase = "select" => rows = {} /\ scope = "roots"
  /\ \A r \in rows : r.pid \in Reported /\ r.part \in Measured \cup DOMAIN RowOf
  /\ \A u \in unreadable :
       \/ phase # "select" /\ u.pid \in Reported /\ u.facet \in Measured \cup {"status_threads"}
       \/ u.pid \in named \ Listed(census) /\ u.facet = "proc" /\ scope = "roots"

\* A pid has no part told or blamed twice.
Single ==
  /\ \A r, t \in rows : r.pid = t.pid /\ r.part = t.part => r = t
  /\ \A u, v \in unreadable : u.pid = v.pid /\ u.facet = v.facet => u = v

Complete ==
  phase \in {"reads", "done"} =>
    \A p \in Reported : /\ \A f \in Measured : Answered(p, f)
                        /\ RowsOf(p, "status") # {} => Answered(p, "status_threads")

\* The targets are the pids of the scope, or will be once the queue is empty.
Selected ==
  /\ scope = "host" => targets = Listed(census)
  /\ scope = "pids" => targets = named
  /\ scope = "roots" =>
       /\ named \cap Listed(census) \subseteq targets
       /\ \A p \in targets : InSubtrees(p)
       /\ \A c \in Listed(census) :
            parents[c] \in targets =>
              c \in targets \/ (phase = "select" /\ parents[c] \in todo)
       /\ \A p \in named \ Listed(census) : BlamesOf(p, "proc") # {}

\* Nothing of a lost census is answered, and it costs every facet; a lost
\* timebase costs the one facet that is not measured.
CensusLost ==
  phase = "done" /\ rows = {} /\ unreadable = {} /\ targets = {} /\ \A f \in asked : Lost(f)

LossTold ==
  /\ phase = "timebase" => errors = {}
  /\ phase # "timebase" => CensusLost \/ \A f \in asked : Lost(f) <=> f \notin Measured
  /\ phase \notin {"timebase", "census"} => CensusLost \/ Selected

Answers ==
  Placed /\ Single /\ Complete /\ LossTold /\ (scope = "host" => named = {})

IInv == Truth /\ Answers

-----------------------------------------------------------------------------

LEMMA HostStep ==
  ASSUME HostTrue, HostNext, moments' = moments \cup {born'}
  PROVE  HostTrue' /\ lived \subseteq lived' /\ moments \subseteq moments'
<1>1. Remember /\ born' \in [Pids -> Nat]
  BY DEF HostNext, Start, Exit, HostTrue, HostTypeOK
<1>2. Living' \subseteq Pids /\ Dead' \subseteq Pids
  BY DEF Living, Dead
<1>3. HostTypeOK'
  BY <1>1, <1>2, MaxEventsAssumption DEF Remember, HostTypeOK, HostTrue
<1>4. \A p \in Living' : <<p, born'[p]>> \in lived'
  BY <1>1 DEF Remember
<1> QED
  BY <1>1, <1>3, <1>4 DEF Remember, HostTrue

LEMMA InitTruth == Init => Truth
<1> SUFFICES ASSUME Init PROVE Truth
  OBVIOUS
<1>1. HostTrue
  BY MaxEventsAssumption DEF Init, HostInit, HostTrue, HostTypeOK, Living, Dead
<1>2. TypeOK
  BY <1>1 DEF Init, TypeOK, HostTrue, HostTypeOK, Nobody, Readings, Gone
<1>3. SensorTrue /\ RowsTrue
  BY DEF Init, SensorTrue, RowsTrue, Listed, Nobody, Gone
<1> QED
  BY <1>1, <1>2, <1>3 DEF Truth

\* What is told of the pid at hand is typed, and true of it.
LEMMA ToldIsTrue ==
  ASSUME Truth, pid # 0, NEW x \in Parts
  PROVE  /\ Told(x) \in Readings
         /\ Readable(x) => Told(x) \in Nat \ {0} /\ <<pid, Told(x)>> \in lived
         /\ x \in Census => Told(x) = census[pid]
<1> USE DEF Truth
<1>1. pid \in Pids /\ census[pid] \in Nat
  BY DEF TypeOK
<1>2. census[pid] # 0 => <<pid, census[pid]>> \in lived
  BY <1>1 DEF SensorTrue, Listed
<1>3. \A f \in Reads : /\ got[f] \in Nat \cup {Refused}
                       /\ got[f] \notin {Gone, Refused} => <<pid, got[f]>> \in lived
  BY DEF TypeOK, Readings, SensorTrue
<1>4. \/ Told(x) = census[pid]
      \/ \E f \in Reads : Told(x) = got[f] /\ x \notin Census
  <2>1. x \in {"mem", "cpu_time", "status_threads"} => Told(x) = got["task"]
    BY DEF Told, Census
  <2>2. x = "name" => Told(x) \in {census[pid], got["path"]}
    BY DEF Told, Census
  <2>3. /\ x = "cwd" => Told(x) = got["cwd"]
        /\ x = "argv" => Told(x) = got["args"]
    BY DEF Told, Census
  <2>4. x \in Census => Told(x) = census[pid]
    BY DEF Told, Census
  <2> QED
    BY <2>1, <2>2, <2>3, <2>4 DEF Parts, Facets, Census, Reads
<1>5. x \in Census => Told(x) = census[pid]
  BY DEF Told, Census
<1> QED
  BY <1>1, <1>2, <1>3, <1>4, <1>5 DEF Readable, Readings, Gone, Refused

\* What is lost is a measured facet or the threads of a status: a name falls
\* back on the census, which told the row.
LEMMA LossesNamed ==
  ASSUME Truth, pid # 0, NEW odd \in SUBSET Facets
  PROVE  /\ Gains(odd) \subseteq Parts
         /\ Losses(odd) \subseteq Measured \cup {"status_threads"}
         /\ \A x \in Losses(odd) : ~Readable(x) \/ x \in odd
<1>1. Measured \subseteq asked /\ asked \subseteq Facets
  BY AsksAssumption DEF Measured, Truth, TypeOK
<1>2. Facts(odd) \subseteq Measured /\ \A x \in Facts(odd) : Readable(x)
  BY DEF Facts
<1>3. Extras(odd) \subseteq {"name", "status_threads"}
  BY DEF Extras, RowOf
<1>4. "name" \in Extras(odd) => "proc" \in Facts(odd)
  BY DEF Extras, RowOf
<1>5. "name" \in Extras(odd) => Readable("name")
  <2>1. Readable("proc") => Readable("name")
    BY DEF Readable, Told, Census
  <2> QED
    BY <1>2, <1>4, <2>1
<1>6. Gains(odd) \subseteq Parts
  BY <1>1, <1>2, <1>3 DEF Gains, Parts
<1>7. Losses(odd) \subseteq Measured \cup {"status_threads"}
  BY <1>3, <1>5 DEF Losses, Gains
<1>8. \A x \in Losses(odd) : ~Readable(x) \/ x \in odd
  BY <1>1 DEF Losses, Gains, Facts
<1> QED
  BY <1>6, <1>7, <1>8

\* Every step keeps what is said true.
LEMMA TruthStep == Truth /\ [Next]_vars => Truth'
<1> SUFFICES ASSUME Truth, [Next]_vars PROVE Truth'
  OBVIOUS
<1> USE DEF Truth
<1>h. UNCHANGED <<host, moments>> => HostTrue'
  BY DEF host, HostTrue, HostTypeOK, Living
<1>1. CASE Timebase
  <2>1. TypeOK'
    BY <1>1 DEF Timebase, TypeOK, host, HostTypeOK, Blames
  <2>2. SensorTrue' /\ RowsTrue'
    BY <1>1 DEF Timebase, host, SensorTrue, RowsTrue
  <2> QED
    BY <1>1, <1>h, <2>1, <2>2 DEF Timebase
<1>2. CASE CensusFails
  <2>1. TypeOK'
    BY <1>2 DEF CensusFails, TypeOK, host, HostTypeOK, Blames
  <2>2. SensorTrue' /\ RowsTrue'
    BY <1>2 DEF CensusFails, host, SensorTrue, RowsTrue
  <2> QED
    BY <1>2, <1>h, <2>1, <2>2 DEF CensusFails
<1>3. CASE ReadCensus
  <2>1. /\ census' = born /\ rows' = {} /\ pid = 0 /\ pid' = 0 /\ phase' \in {"select", "reads"}
        /\ UNCHANGED <<host, moments, got>>
    BY <1>3 DEF ReadCensus, SensorTrue
  <2>2. \A u \in unreadable' : /\ u \in [pid : Pids, facet : {"proc"}, errno : {Gone}]
                              /\ born[u.pid] = 0
    BY <1>3 DEF ReadCensus, TypeOK, Living
  <2>3. parents' \in [Pids -> Pids \cup {0}]
    BY <1>3 DEF ReadCensus, Ancestries, Nobody
  <2>4. targets' \subseteq Pids /\ todo' = targets'
    BY <1>3 DEF ReadCensus, TypeOK, Living
  <2>5. TypeOK'
    BY <1>3, <2>1, <2>2, <2>3, <2>4 DEF ReadCensus, TypeOK, host, HostTypeOK
  <2>6. SensorTrue'
    BY <2>1 DEF SensorTrue, HostTrue, Listed, Living, host
  <2>7. RowsTrue'
    BY <2>1, <2>2 DEF RowsTrue, HostTrue
  <2> QED
    BY <1>3, <1>h, <2>1, <2>5, <2>6, <2>7
<1>4. ASSUME NEW p \in Pids, Visit(p) PROVE Truth'
  <2>1. targets \subseteq targets' /\ targets' \subseteq Pids /\ todo' \subseteq targets'
    BY <1>4 DEF Visit, TypeOK, Listed
  <2>2. TypeOK'
    BY <1>4, <2>1 DEF Visit, TypeOK, host, HostTypeOK
  <2>3. SensorTrue' /\ RowsTrue'
    BY <1>4 DEF Visit, SensorTrue, RowsTrue, host, Listed
  <2> QED
    BY <1>4, <1>h, <2>2, <2>3 DEF Visit
<1>5. CASE AllVisited
  <2>1. TypeOK'
    BY <1>5 DEF AllVisited, TypeOK, host, HostTypeOK
  <2>2. SensorTrue' /\ RowsTrue'
    BY <1>5 DEF AllVisited, SensorTrue, RowsTrue, host, Listed
  <2> QED
    BY <1>5, <1>h, <2>1, <2>2 DEF AllVisited
<1>6. ASSUME NEW p \in Pids, BeginPid(p) PROVE Truth'
  <2>1. TypeOK'
    BY <1>6 DEF BeginPid, TypeOK, host, HostTypeOK, ReadsNeeded
  <2>2. SensorTrue' /\ RowsTrue'
    BY <1>6 DEF BeginPid, SensorTrue, RowsTrue, host, Listed
  <2> QED
    BY <1>6, <1>h, <2>1, <2>2 DEF BeginPid
<1>7. ASSUME NEW f \in Reads, Read(f) PROVE Truth'
  <2>1. pid \in Pids /\ born[pid] \in Nat
    BY <1>7 DEF Read, TypeOK, HostTypeOK
  <2>2. PICK b \in Readings, g \in Reads :
          /\ got' = [got EXCEPT ![g] = b]
          /\ b \in {born[pid], Gone, Refused}
          /\ unread' \subseteq unread
    BY <1>7, <2>1 DEF Read, Reads, Readings, Gone
  <2>3. b \notin {Gone, Refused} => <<pid, b>> \in lived
    BY <2>1, <2>2 DEF HostTrue, Living, Gone
  <2>4. TypeOK'
    BY <1>7, <2>2 DEF Read, TypeOK, host, HostTypeOK
  <2>5. SensorTrue'
    BY <1>7, <2>2, <2>3 DEF Read, SensorTrue, TypeOK, host, Listed
  <2>6. RowsTrue'
    BY <1>7 DEF Read, RowsTrue, host
  <2> QED
    BY <1>7, <1>h, <2>4, <2>5, <2>6 DEF Read
<1>8. CASE ReportPid
  <2>1. PICK odd \in SUBSET (asked \cap {"status"}) : Report(odd)
    BY <1>8 DEF ReportPid
  <2>2. odd \in SUBSET Facets
    BY DEF Facets
  <2>3. pid # 0 /\ pid \in targets /\ pid \in Pids
    BY <2>1 DEF Report, TypeOK
  <2>4. census \in moments
    BY <2>1 DEF Report, SensorTrue, TypeOK
  <2>5. /\ Gains(odd) \subseteq Parts
        /\ Losses(odd) \subseteq Measured \cup {"status_threads"}
        /\ \A x \in Losses(odd) : ~Readable(x) \/ x \in odd
    BY <2>2, <2>3, PidsAssumption, LossesNamed
  <2>6. \A x \in Parts :
          /\ Told(x) \in Readings
          /\ Readable(x) => Told(x) \in Nat \ {0} /\ <<pid, Told(x)>> \in lived
          /\ x \in Census => Told(x) = census[pid]
    BY <2>3, PidsAssumption, ToldIsTrue
  <2>7. Measured \subseteq asked /\ asked \subseteq Facets /\ Facets \subseteq Parts
    BY AsksAssumption DEF Measured, TypeOK, Parts
  <2>8. \A x \in Gains(odd) : Readable(x)
    BY DEF Gains, Facts
  <2>9. \A r \in rows' \ rows :
          /\ r \in [pid : targets, part : Parts, born : Nat \ {0}]
          /\ <<r.pid, r.born>> \in lived
          /\ r.part \in Census => census[r.pid] = r.born
    BY <2>1, <2>3, <2>5, <2>6, <2>8 DEF Report
  <2>10. \A u \in unreadable' \ unreadable :
          /\ u \in [pid : Pids, facet : asked \cup {"proc", "status_threads"},
                    errno : {Gone, Refused}]
          /\ u.facet \in Census /\ u.errno = Gone => census[u.pid] = 0
    <3>1. ASSUME NEW x \in Losses(odd)
          PROVE  LET e == IF Readable(x) THEN Refused ELSE Told(x)
                 IN  /\ x \in asked \cup {"proc", "status_threads"} /\ x \in Parts
                     /\ e \in {Gone, Refused}
                     /\ x \in Census /\ e = Gone => census[pid] = 0
      <4>1. x \in asked \cup {"status_threads"} /\ x \in Parts
        BY <2>5, <2>7, <3>1 DEF Parts
      <4>2. x \in Census => Told(x) = census[pid]
        BY <2>6, <4>1
      <4> QED
        BY <4>1, <4>2 DEF Readable, Gone, Refused
    <3> QED
      BY <2>1, <2>3, <3>1 DEF Report
  <2>11. TypeOK'
    BY <2>1, <2>9, <2>10 DEF Report, TypeOK, host, HostTypeOK, Readings, Gone
  <2>12. SensorTrue'
    BY <2>1 DEF Report, SensorTrue, host, Listed
  <2>13. RowsTrue'
    BY <2>1, <2>4, <2>9, <2>10 DEF Report, RowsTrue, host
  <2> QED
    BY <2>1, <1>h, <2>11, <2>12, <2>13 DEF Report
<1>9. CASE AllRead
  <2>1. TypeOK'
    BY <1>9 DEF AllRead, TypeOK, host, HostTypeOK
  <2>2. SensorTrue' /\ RowsTrue'
    BY <1>9 DEF AllRead, SensorTrue, RowsTrue, host, Listed
  <2> QED
    BY <1>9, <1>h, <2>1, <2>2 DEF AllRead
<1>10. CASE Environment
  <2>1. /\ HostTrue' /\ lived \subseteq lived' /\ moments \subseteq moments'
        /\ UNCHANGED sensor
    BY <1>10, HostStep DEF Environment
  <2>2. moments' \subseteq [Pids -> Nat]
    BY <1>10, <2>1 DEF Environment, HostTrue, HostTypeOK, TypeOK
  <2>3. TypeOK'
    BY <2>1, <2>2 DEF TypeOK, HostTrue, sensor
  <2>4. SensorTrue' /\ RowsTrue'
    BY <2>1 DEF sensor, SensorTrue, RowsTrue, Listed
  <2> QED
    BY <2>1, <2>3, <2>4
<1>11. CASE UNCHANGED vars
  BY <1>11, <1>h DEF vars, host, sensor, TypeOK, HostTypeOK, SensorTrue, RowsTrue, Listed
<1> QED
  BY <1>1, <1>2, <1>3, <1>4, <1>5, <1>6, <1>7, <1>8, <1>9, <1>10, <1>11
     DEF Next, SensorNext

-----------------------------------------------------------------------------

\* What the host does and what a read gives moves no row.
Quiet == UNCHANGED <<phase, asked, scope, named, timebase, census, parents, targets,
                     todo, pid, rows, unreadable, errors>>

LEMMA QuietStep == Answers /\ Quiet => Answers'
<1> SUFFICES ASSUME Answers, Quiet PROVE Answers'
  OBVIOUS
<1>1. /\ Reported' = Reported /\ Measured' = Measured /\ Listed(census)' = Listed(census)
      /\ \A p : InSubtrees(p)' <=> InSubtrees(p)
  BY DEF Quiet, Reported, Measured, Listed, InSubtrees
<1>2. /\ \A p, x : RowsOf(p, x)' = RowsOf(p, x) /\ BlamesOf(p, x)' = BlamesOf(p, x)
      /\ \A f : Lost(f)' <=> Lost(f)
  BY DEF Quiet, RowsOf, BlamesOf, Lost
<1>3. \A p, x : Answered(p, x)' <=> Answered(p, x)
  BY <1>2 DEF Answered, AtMostOne
<1>4. Placed' /\ Single'
  BY <1>1 DEF Answers, Placed, Single, Quiet
<1>5. Complete'
  BY <1>1, <1>2, <1>3 DEF Answers, Complete, Quiet
<1>6. Selected => Selected'
  BY <1>1, <1>2 DEF Selected, Quiet
<1>7. LossTold'
  BY <1>1, <1>2, <1>6 DEF Answers, LossTold, CensusLost, Quiet
<1> QED
  BY <1>4, <1>5, <1>7 DEF Answers, Quiet

\* The pid being read is through: one row or one U row per measured facet, and
\* per thread count of a STAT row.
LEMMA ReportStep == IInv /\ ReportPid => Answers'
<1> SUFFICES ASSUME IInv, ReportPid PROVE Answers'
  OBVIOUS
<1> USE DEF IInv, Answers
<1>1. PICK odd \in SUBSET (asked \cap {"status"}) : Report(odd)
  BY DEF ReportPid
<1>2. /\ pid # 0 /\ pid' = 0 /\ phase = "reads"
      /\ UNCHANGED <<phase, asked, scope, named, timebase, census, parents, targets,
                     todo, errors>>
  BY <1>1 DEF Report, Truth, SensorTrue
<1> DEFINE Row(x)   == [pid |-> pid, part |-> x, born |-> Told(x)]
           Blame(x) == [pid |-> pid, facet |-> x,
                        errno |-> IF Readable(x) THEN Refused ELSE Told(x)]
<1>3. /\ rows' = rows \cup {Row(x) : x \in Gains(odd)}
      /\ unreadable' = unreadable \cup {Blame(x) : x \in Losses(odd)}
  BY <1>1 DEF Report
<1>p. PICK p : p = pid
  OBVIOUS
<1>4. \A x : /\ Row(x).pid = p /\ Row(x).part = x
             /\ Blame(x).pid = p /\ Blame(x).facet = x
  BY <1>p
<1> HIDE DEF Row, Blame
<1>5. /\ p \in targets \ todo /\ p \notin Reported /\ Reported' = Reported \cup {p}
  BY <1>2, <1>p, PidsAssumption DEF Placed, Truth, TypeOK, Reported
<1>6. Measured' = Measured /\ Listed(census)' = Listed(census)
  BY <1>2 DEF Measured, Listed
<1>7. Losses(odd) \subseteq Measured \cup {"status_threads"}
  BY <1>2, LossesNamed DEF Truth, Facets
<1>8. Gains(odd) \subseteq Measured \cup DOMAIN RowOf
  BY DEF Gains, Facts, Extras
<1>9. /\ \A r \in rows : r.pid # p
      /\ scope = "roots" => p \in Listed(census)
  BY <1>2, <1>5, PidsAssumption DEF Placed, LossTold, CensusLost, Selected, InSubtrees
<1>10. \A u \in unreadable : u.pid # p
  BY <1>5, <1>9 DEF Placed
<1>11. Placed'
  <2>1. \A r \in rows' : r.pid \in Reported' /\ r.part \in Measured' \cup DOMAIN RowOf
    BY <1>3, <1>4, <1>5, <1>6, <1>8 DEF Placed
  <2>2. \A u \in unreadable' :
          \/ u.pid \in Reported' /\ u.facet \in Measured' \cup {"status_threads"}
          \/ u.pid \in named \ Listed(census)' /\ u.facet = "proc" /\ scope = "roots"
    BY <1>3, <1>4, <1>5, <1>6, <1>7 DEF Placed
  <2> QED
    BY <1>2, <2>1, <2>2 DEF Placed
<1>12. Single'
  BY <1>3, <1>4, <1>9, <1>10 DEF Single
<1>13. \A q, x : q # p => RowsOf(q, x)' = RowsOf(q, x) /\ BlamesOf(q, x)' = BlamesOf(q, x)
  BY <1>3, <1>4 DEF RowsOf, BlamesOf
<1>14. \A x : /\ RowsOf(p, x)' = {Row(y) : y \in Gains(odd) \cap {x}}
             /\ BlamesOf(p, x)' = {Blame(y) : y \in Losses(odd) \cap {x}}
  BY <1>3, <1>4, <1>9, <1>10 DEF RowsOf, BlamesOf
<1>15. ASSUME NEW x, x \in Gains(odd) \cup Losses(odd) PROVE Answered(p, x)'
  <2>1. x \in Gains(odd) <=> x \notin Losses(odd)
    BY <1>15 DEF Losses
  <2>2. AtMostOne(RowsOf(p, x))' /\ AtMostOne(BlamesOf(p, x))'
    BY <1>14 DEF AtMostOne
  <2>3. /\ RowsOf(p, x)' = {} <=> x \notin Gains(odd)
        /\ BlamesOf(p, x)' = {} <=> x \notin Losses(odd)
    BY <1>14
  <2> QED
    BY <2>1, <2>2, <2>3 DEF Answered
<1>16. \A q, x : q # p /\ Answered(q, x) => Answered(q, x)'
  BY <1>13 DEF Answered, AtMostOne
<1>17. Complete'
  <2> SUFFICES ASSUME NEW q \in Reported'
               PROVE  /\ \A f \in Measured : Answered(q, f)'
                      /\ RowsOf(q, "status")' # {} => Answered(q, "status_threads")'
    BY <1>6 DEF Complete
  <2>1. CASE q # p
    BY <1>2, <1>5, <1>13, <1>16, <2>1 DEF Complete
  <2>2. CASE q = p
    <3>1. Measured \subseteq Gains(odd) \cup Losses(odd)
      BY DEF Losses
    <3>2. "status" \in Gains(odd) => "status_threads" \in Gains(odd) \cup Losses(odd)
      BY DEF Gains, Losses, Extras, RowOf, Facts
    <3>3. RowsOf(p, "status")' # {} => "status" \in Gains(odd)
      BY <1>14
    <3> QED
      BY <1>15, <2>2, <3>1, <3>2, <3>3
  <2> QED
    BY <2>1, <2>2
<1>18. Selected => Selected'
  <2>1. \A q \in named \ Listed(census) :
          scope = "roots" => BlamesOf(q, "proc")' = BlamesOf(q, "proc")
    BY <1>9, <1>13
  <2>2. \A q : InSubtrees(q)' <=> InSubtrees(q)
    BY <1>2 DEF InSubtrees, Listed
  <2> QED
    BY <1>2, <1>6, <2>1, <2>2 DEF Selected
<1>19. LossTold'
  BY <1>2, <1>6, <1>18 DEF LossTold, CensusLost, Lost
<1> QED
  BY <1>2, <1>11, <1>12, <1>17, <1>19

\* The scope is taken from the census.
LEMMA CensusStep == IInv /\ ReadCensus => Answers'
<1> SUFFICES ASSUME IInv, ReadCensus PROVE Answers'
  OBVIOUS
<1> USE DEF IInv, Answers
<1>1. /\ phase = "census" /\ rows' = {} /\ pid' = 0 /\ census' = born /\ todo' = targets'
      /\ phase' = IF scope = "roots" THEN "select" ELSE "reads"
      /\ UNCHANGED <<asked, scope, named, timebase, errors>>
  BY DEF ReadCensus, Truth, SensorTrue
<1>2. Listed(census)' = Living /\ Measured' = Measured /\ Reported' = {}
  BY <1>1 DEF Listed, Living, Measured, Reported
<1>3. \A u \in unreadable' : /\ u.pid \in named \ Living /\ u.facet = "proc"
                            /\ u.errno = Gone /\ scope = "roots"
  BY DEF ReadCensus
<1>4. Single'
  BY <1>1 DEF Single, ReadCensus
<1>5. Placed'
  BY <1>1, <1>2, <1>3 DEF Placed
<1>6. Complete'
  BY <1>2 DEF Complete
<1>7. /\ scope = "host" => targets' = Living
      /\ scope = "pids" => targets' = named
      /\ scope = "roots" => targets' = named \cap Living
  BY DEF ReadCensus
<1>8. scope = "roots" => \A p \in targets' : InSubtrees(p)'
  BY <1>1, <1>2, <1>7 DEF InSubtrees
<1>9. scope = "roots" => \A p \in named \ Living : BlamesOf(p, "proc")' # {}
  <2> SUFFICES ASSUME scope = "roots", NEW p \in named \ Living
               PROVE  \E u \in unreadable' : u.pid = p /\ u.facet = "proc"
    BY DEF BlamesOf
  <2>1. [pid |-> p, facet |-> "proc", errno |-> Gone] \in unreadable'
    BY DEF ReadCensus
  <2> QED
    BY <2>1
<1>10. Selected'
  BY <1>1, <1>2, <1>7, <1>8, <1>9 DEF Selected
<1>11. LossTold'
  BY <1>1, <1>2, <1>10 DEF LossTold, CensusLost, Lost
<1> QED
  BY <1>1, <1>4, <1>5, <1>6, <1>11

\* A visited pid's children join the subtree it belongs to.
LEMMA VisitStep == ASSUME IInv, NEW p \in Pids, Visit(p) PROVE Answers'
<1> USE DEF IInv, Answers
<1> DEFINE kids == {c \in Listed(census) : parents[c] = p} \ targets
<1>1. /\ phase = "select" /\ p \in todo /\ pid = 0
      /\ targets' = targets \cup kids /\ todo' = (todo \ {p}) \cup kids
      /\ UNCHANGED <<phase, asked, scope, named, timebase, census, parents, pid, rows,
                     unreadable, errors>>
  BY DEF Visit, Truth, SensorTrue
<1>2. /\ Listed(census)' = Listed(census) /\ Measured' = Measured
      /\ \A q : InSubtrees(q)' <=> InSubtrees(q)
      /\ \A q, x : BlamesOf(q, x)' = BlamesOf(q, x)
  BY <1>1 DEF Listed, Measured, InSubtrees, BlamesOf
<1>3. Placed' /\ Single' /\ Complete'
  BY <1>1, <1>2 DEF Placed, Single, Complete
<1>4. Selected => Selected'
  <2> SUFFICES ASSUME Selected PROVE Selected'
    OBVIOUS
  <2>1. scope = "roots"
    BY <1>1 DEF Placed
  <2>2. InSubtrees(p)
    BY <1>1, <2>1 DEF Selected, Truth, TypeOK
  <2>3. \A q \in kids : InSubtrees(q)
    BY <2>2 DEF InSubtrees
  <2>4. \A q \in targets' : InSubtrees(q)'
    BY <1>1, <1>2, <2>1, <2>3 DEF Selected
  <2>5. \A c \in Listed(census) :
          parents[c] \in targets' => c \in targets' \/ parents[c] \in todo'
    BY <1>1, <2>1 DEF Selected
  <2>6. named' \cap Listed(census)' \subseteq targets'
    BY <1>1, <1>2, <2>1 DEF Selected
  <2>7. \A q \in named' \ Listed(census)' : BlamesOf(q, "proc")' # {}
    BY <1>1, <1>2, <2>1 DEF Selected
  <2>8. \A c \in Listed(census)' :
          parents'[c] \in targets' =>
            c \in targets' \/ (phase' = "select" /\ parents'[c] \in todo')
    <3>1. phase' = "select" /\ parents' = parents /\ Listed(census)' = Listed(census)
      BY <1>1, <1>2
    <3> HIDE DEF kids
    <3> QED
      BY <2>5, <3>1
  <2> HIDE DEF kids
  <2> QED
    BY <1>1, <2>1, <2>4, <2>6, <2>7, <2>8 DEF Selected
<1>5. LossTold'
  BY <1>1, <1>2, <1>4 DEF LossTold, CensusLost, Lost
<1> QED
  BY <1>1, <1>3, <1>5

LEMMA AnswerStep == IInv /\ [Next]_vars => Answers'
<1> SUFFICES ASSUME IInv, [Next]_vars PROVE Answers'
  OBVIOUS
<1> USE DEF IInv, Answers
<1>1. CASE Timebase
  <2>1. /\ phase = "timebase" /\ phase' = "census" /\ pid = 0 /\ pid' = 0
        /\ rows' = {} /\ unreadable' = {} /\ targets' = {}
        /\ UNCHANGED <<asked, scope, named, todo>>
    BY <1>1 DEF Timebase, Truth, SensorTrue, Placed
  <2>2. Placed' /\ Single' /\ Complete'
    BY <2>1 DEF Placed, Single, Complete
  <2>3. errors' = IF timebase' \/ "cpu_time" \notin asked THEN {}
                  ELSE {[source |-> "mach_timebase_info", facet |-> "cpu_time"]}
    BY <1>1 DEF Timebase, Blames
  <2>4. \A f \in asked' : Lost(f)' <=> f \notin Measured'
    <3>1. CASE timebase' \/ "cpu_time" \notin asked
      BY <2>1, <2>3, <3>1 DEF Lost, Measured
    <3>2. CASE ~timebase' /\ "cpu_time" \in asked
      <4> DEFINE e == [source |-> "mach_timebase_info", facet |-> "cpu_time"]
      <4>e. errors' = {e} /\ e.facet = "cpu_time"
        BY <2>3, <3>2
      <4>1. \A f : Lost(f)' <=> f = "cpu_time"
        <5> HIDE DEF e
        <5> QED
          BY <4>e DEF Lost
      <4> QED
        BY <2>1, <3>2, <4>1 DEF Measured
    <3> QED
      BY <3>1, <3>2
  <2>5. LossTold'
    BY <2>1, <2>4 DEF LossTold
  <2> QED
    BY <2>1, <2>2, <2>5
<1>2. CASE CensusFails
  <2>1. /\ phase = "census" /\ phase' = "done" /\ rows' = {} /\ unreadable' = {}
        /\ targets' = {} /\ todo' = {} /\ pid' = 0
        /\ UNCHANGED <<asked, scope, named>>
    BY <1>2 DEF CensusFails, Truth, SensorTrue, Placed, TypeOK
  <2>2. \A f \in asked : [source |-> "kern_proc_all", facet |-> f] \in errors'
    BY <1>2 DEF CensusFails, Blames
  <2>3. CensusLost'
    BY <2>1, <2>2 DEF CensusLost, Lost
  <2> QED
    BY <2>1, <2>3 DEF Placed, Single, Complete, Reported, LossTold
<1>3. CASE ReadCensus
  BY <1>3, CensusStep
<1>4. ASSUME NEW p \in Pids, Visit(p) PROVE Answers'
  BY <1>4, VisitStep
<1>5. CASE AllVisited
  <2>1. /\ phase = "select" /\ phase' = "reads" /\ todo = {} /\ todo' = targets /\ pid = 0
        /\ UNCHANGED <<asked, scope, named, timebase, census, parents, targets, pid,
                       rows, unreadable, errors>>
    BY <1>5 DEF AllVisited, Truth, SensorTrue
  <2>2. /\ Listed(census)' = Listed(census) /\ Measured' = Measured /\ Reported' = {}
        /\ \A q : InSubtrees(q)' <=> InSubtrees(q)
        /\ \A q, x : BlamesOf(q, x)' = BlamesOf(q, x)
    BY <2>1 DEF Listed, Measured, Reported, InSubtrees, BlamesOf
  <2>3. Placed' /\ Single' /\ Complete'
    BY <2>1, <2>2 DEF Placed, Single, Complete
  <2>4. Selected => Selected'
    BY <2>1, <2>2 DEF Selected
  <2>5. LossTold'
    BY <2>1, <2>2, <2>4 DEF LossTold, CensusLost, Lost
  <2> QED
    BY <2>1, <2>3, <2>5
<1>6. ASSUME NEW p \in Pids, BeginPid(p) PROVE Answers'
  <2>1. /\ p # 0 /\ pid = 0 /\ p \in todo /\ pid' = p /\ todo' = todo \ {p}
        /\ phase = "reads"
        /\ UNCHANGED <<phase, asked, scope, named, timebase, census, parents, targets,
                       rows, unreadable, errors>>
    BY <1>6, PidsAssumption DEF BeginPid
  <2>2. /\ Listed(census)' = Listed(census) /\ Measured' = Measured /\ Reported' = Reported
        /\ \A q : InSubtrees(q)' <=> InSubtrees(q)
        /\ \A q, x : RowsOf(q, x)' = RowsOf(q, x) /\ BlamesOf(q, x)' = BlamesOf(q, x)
    BY <2>1, PidsAssumption
       DEF Listed, Measured, Reported, InSubtrees, RowsOf, BlamesOf, Truth, TypeOK
  <2>3. \A q, x : Answered(q, x)' <=> Answered(q, x)
    BY <2>2 DEF Answered, AtMostOne
  <2>4. Placed' /\ Single'
    BY <2>1, <2>2 DEF Placed, Single
  <2>5. Complete'
    BY <2>1, <2>2, <2>3 DEF Complete
  <2>6. Selected => Selected'
    <3> SUFFICES ASSUME Selected PROVE Selected'
      OBVIOUS
    <3>1. scope = "roots" =>
            \A c \in Listed(census) : parents[c] \in targets => c \in targets
      BY <2>1 DEF Selected
    <3> QED
      BY <2>1, <2>2, <3>1 DEF Selected
  <2>7. LossTold'
    BY <2>1, <2>2, <2>6 DEF LossTold, CensusLost, Lost
  <2> QED
    BY <2>1, <2>4, <2>5, <2>7
<1>7. CASE \E f \in Reads : Read(f)
  BY <1>7, QuietStep DEF Read, Quiet
<1>8. CASE ReportPid
  BY <1>8, ReportStep
<1>9. CASE AllRead
  <2>1. /\ phase = "reads" /\ phase' = "done" /\ pid = 0 /\ todo = {}
        /\ UNCHANGED <<asked, scope, named, timebase, census, parents, targets, todo,
                       pid, rows, unreadable, errors>>
    BY <1>9 DEF AllRead
  <2>2. /\ Listed(census)' = Listed(census) /\ Measured' = Measured /\ Reported' = Reported
        /\ \A q : InSubtrees(q)' <=> InSubtrees(q)
        /\ \A q, x : RowsOf(q, x)' = RowsOf(q, x) /\ BlamesOf(q, x)' = BlamesOf(q, x)
    BY <2>1 DEF Listed, Measured, Reported, InSubtrees, RowsOf, BlamesOf
  <2>3. \A q, x : Answered(q, x)' <=> Answered(q, x)
    BY <2>2 DEF Answered, AtMostOne
  <2>4. Placed' /\ Single'
    BY <2>1, <2>2 DEF Placed, Single
  <2>5. Complete'
    BY <2>1, <2>2, <2>3 DEF Complete
  <2>6. Selected => Selected'
    <3> SUFFICES ASSUME Selected PROVE Selected'
      OBVIOUS
    <3>1. scope = "roots" =>
            \A c \in Listed(census) : parents[c] \in targets => c \in targets
      BY <2>1 DEF Selected
    <3> QED
      BY <2>1, <2>2, <3>1 DEF Selected
  <2>7. LossTold'
    BY <2>1, <2>2, <2>6 DEF LossTold, CensusLost, Lost
  <2> QED
    BY <2>1, <2>4, <2>5, <2>7
<1>10. CASE Environment
  BY <1>10, QuietStep DEF Environment, sensor, Quiet
<1>11. CASE UNCHANGED vars
  BY <1>11, QuietStep DEF vars, sensor, Quiet
<1> QED
  BY <1>1, <1>2, <1>3, <1>4, <1>5, <1>6, <1>7, <1>8, <1>9, <1>10, <1>11
     DEF Next, SensorNext

LEMMA Inductive == Spec => []IInv
<1>1. Init => IInv
  <2> SUFFICES ASSUME Init PROVE IInv
    OBVIOUS
  <2>1. Placed /\ Single /\ Complete /\ LossTold
    BY DEF Init, Placed, Single, Complete, LossTold
  <2>2. scope = "host" => named = {}
    BY DEF Init
  <2> QED
    BY <2>1, <2>2, InitTruth DEF IInv, Answers
<1>2. IInv /\ [Next]_vars => IInv'
  BY TruthStep, AnswerStep DEF IInv
<1> QED
  BY <1>1, <1>2, PTL DEF Spec

-----------------------------------------------------------------------------

\* Every reachable state of a darwin snapshot is well typed.
THEOREM TypeCorrect == Spec => []TypeOK
<1>1. IInv => TypeOK
  BY DEF IInv, Truth
<1> QED
  BY <1>1, Inductive, PTL

\* What the census tells is true of one instant of the ask, of all pids, and
\* every fact is of a process that bore its pid during it (snapshot).
THEOREM FactsProved == Spec => []FactsAreTheirs
<1>1. IInv => FactsAreTheirs
  <2> SUFFICES ASSUME Truth PROVE FactsAreTheirs
    BY DEF IInv
  <2>1. CASE rows = {} /\ unreadable = {}
    BY <2>1 DEF FactsAreTheirs, Truth, HostTrue
  <2>2. CASE census \in moments
    BY <2>2 DEF FactsAreTheirs, Truth, RowsTrue
  <2> QED
    BY <2>1, <2>2 DEF Truth, RowsTrue
<1> QED
  BY <1>1, Inductive, PTL

\* Every asked facet of every pid in scope is told or blamed, once, unless its
\* source was lost and said so (snapshot, select_pids).
THEOREM AnsweredProved == Spec => []EveryAskAnswered
<1>1. IInv => EveryAskAnswered
  <2> SUFFICES ASSUME IInv, Done, NEW p \in Pids
               PROVE  /\ \A f \in asked :
                           IF Lost(f) THEN RowsOf(p, f) = {} /\ (f # "proc" => BlamesOf(p, f) = {})
                           ELSE InScope(p) => Answered(p, f)
                      /\ RowsOf(p, "status") # {} => Answered(p, "status_threads")
                      /\ p \in named => p \in targets \/ Lost("proc") \/ BlamesOf(p, "proc") # {}
                                         \/ \A f \in asked : Lost(f)
                      /\ (\E x \in Parts : RowsOf(p, x) # {}) => InScope(p)
    BY DEF EveryAskAnswered
  <2> USE DEF IInv, Truth, Answers, Done
  <2>1. CASE CensusLost
    BY <2>1 DEF CensusLost, RowsOf, BlamesOf
  <2>2. CASE ~CensusLost
    <3>1. Selected /\ \A f \in asked : Lost(f) <=> f \notin Measured
      BY <2>2 DEF LossTold
    <3>2. pid = 0 /\ todo = {} /\ Reported = targets
      BY PidsAssumption DEF Placed, SensorTrue, Reported, TypeOK
    <3>3. p \in targets <=> InScope(p)
      <4>1. scope = "roots" => (InSubtrees(p) => p \in targets)
        <5> SUFFICES ASSUME scope = "roots", InSubtrees(p) PROVE p \in targets
          OBVIOUS
        <5>1. /\ targets \in SUBSET Pids
              /\ named \cap Listed(census) \subseteq targets
              /\ \A c \in Listed(census) : parents[c] \in targets => c \in targets
          BY <3>1 DEF Selected, TypeOK
        <5> QED
          BY <5>1 DEF InSubtrees
      <4>2. scope = "roots" => (p \in targets => InSubtrees(p))
        BY <3>1 DEF Selected
      <4>3. scope \in {"host", "pids", "roots"}
        BY DEF TypeOK
      <4> QED
        BY <3>1, <4>1, <4>2, <4>3 DEF Selected, InScope
    <3>4. \A x : RowsOf(p, x) # {} => p \in targets /\ x \in Measured \cup DOMAIN RowOf
      BY <3>2 DEF Placed, RowsOf
    <3>5. \A x : BlamesOf(p, x) # {} => x \in Measured \cup {"status_threads", "proc"}
      BY DEF Placed, BlamesOf
    <3>6. ASSUME NEW f \in asked, Lost(f)
          PROVE  RowsOf(p, f) = {} /\ (f # "proc" => BlamesOf(p, f) = {})
      <4>1. f \notin Measured /\ f \in Facets
        BY <3>1, <3>6, AsksAssumption DEF TypeOK
      <4> QED
        BY <3>4, <3>5, <4>1 DEF Facets, RowOf
    <3>7. ASSUME NEW f \in asked, ~Lost(f), InScope(p) PROVE Answered(p, f)
      BY <3>1, <3>2, <3>3, <3>7 DEF Complete
    <3>8. RowsOf(p, "status") # {} => Answered(p, "status_threads")
      BY <3>2, <3>4 DEF Complete
    <3>9. p \in named => p \in targets \/ BlamesOf(p, "proc") # {}
      BY <3>1 DEF Selected, TypeOK
    <3> QED
      BY <3>3, <3>4, <3>6, <3>7, <3>8, <3>9
  <2> QED
    BY <2>1, <2>2
<1> QED
  BY <1>1, Inductive, PTL

=============================================================================
