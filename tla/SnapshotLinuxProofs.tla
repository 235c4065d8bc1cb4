------------------------ MODULE SnapshotLinuxProofs ------------------------
(***************************************************************************)
(* What the facets of processes promise, for any pids, asks and number of  *)
(* host steps.                                                             *)
(***************************************************************************)
EXTENDS SnapshotLinux, TLAPS

\* The history remembers what is there.
HostTrue ==
  /\ HostTypeOK
  /\ \A p \in Living : <<p, born[p]>> \in lived
  /\ Dead \subseteq vacant

HostMoves == lived \subseteq lived' /\ vacant \subseteq vacant'

\* A reading says of a pid what was the case when it was read, and the files
\* of the pid being read that are done with are read of it.
ReadingsTrue ==
  /\ \A f \in Files :
       /\ got[f].born \notin {Gone, Refused} => <<got[f].of, got[f].born>> \in lived
       /\ got[f].born = Gone => got[f].of \in vacant \cup {0}
       /\ got[f].of = 0 => got[f].born = Gone
  /\ pid # 0 => \A f \in FilesNeeded \ unread : got[f].of = pid

\* Rows and blame are true of their pids.
RowsTrue ==
  /\ RowsAreTheirs
  /\ \A u \in unreadable : u.errno = Gone => u.pid \in vacant

Truth == TypeOK /\ HostTrue /\ ReadingsTrue /\ RowsTrue

\* The pids that are through, and what there is about whom: facts are about
\* these, blame too unless it was laid on a root's subtree.
Reported == targets \ (todo \cup {pid})

Placed ==
  /\ pid # 0 => phase = "reads" /\ pid \notin todo
  /\ phase \in {"collect", "constants"} => rows = {} /\ todo = targets
  /\ phase = "collect" => unreadable = {} /\ targets = {}
  /\ phase \in {"collect", "constants"} => errors = {}
  /\ phase = "done" => todo = {}
  /\ \A r \in rows : r.pid \in Reported /\ r.facet \in Measured
  /\ \A u \in unreadable : \/ u.pid \in Reported /\ u.facet \in Measured
                           \/ u.pid \in Roots /\ u.facet = "proc"

\* A facet or a (pid, facet) is told or blamed, and no pid twice.
Single ==
  /\ \A r, t \in rows : r.pid = t.pid /\ r.facet = t.facet => r = t
  /\ \A u, v \in unreadable : u.pid = v.pid /\ u.facet = v.facet => u = v

Told(p, f) ==
  \/ RowsOf(p, f) # {} /\ (BlamesOf(p, f) = {} \/ (f = "proc" /\ p \in Roots))
  \/ RowsOf(p, f) = {} /\ BlamesOf(p, f) # {}

Answered ==
  /\ \A p \in Reported, f \in Measured : Told(p, f)
  /\ scope = "host" => named = {}
  /\ phase # "collect" => \A p \in named \ targets :
                            p \in Roots /\ BlamesOf(p, "proc") # {}

\* Either the pids could not be listed, and every facet is lost, or exactly
\* the facets that a lost constant costs are.
LossTold ==
  \/ phase = "done" /\ rows = {} /\ unreadable = {} /\ targets = {} /\ scope = "host"
  \/ /\ \A e \in errors : e.source \in Constants \ known /\ e.facet \in Costs[e.source]
     /\ phase \in {"reads", "done"} => \A f \in asked \ Measured : Lost(f)

Answers == Placed /\ Single /\ Answered /\ LossTold /\ SharedFileIsOneInstant

IInv == Truth /\ Answers

-----------------------------------------------------------------------------

\* Every step of the host keeps what its history says.
LEMMA HostStep == HostTrue /\ HostNext => HostTrue' /\ HostMoves
<1> SUFFICES ASSUME HostTrue, HostNext PROVE HostTrue' /\ HostMoves
  OBVIOUS
<1>1. Remember /\ born' \in [Pids -> Nat]
  BY DEF HostNext, Start, Exit, HostTrue, HostTypeOK
<1>2. Living' \subseteq Pids /\ Dead' \subseteq Pids
  BY DEF Living, Dead
<1>3. HostTypeOK'
  BY <1>1, <1>2, MaxEventsAssumption DEF Remember, HostTypeOK, HostTrue
<1>4. \A p \in Living' : <<p, born'[p]>> \in lived'
  BY <1>1 DEF Remember
<1>5. Dead' \subseteq vacant' /\ HostMoves
  BY <1>1 DEF Remember, HostMoves
<1> QED
  BY <1>3, <1>4, <1>5 DEF HostTrue

\* Every measured facet is read from a file that is needed.
LEMMA MeasuredIsRead ==
  ASSUME TypeOK, NEW f \in Measured
  PROVE  \E file \in FilesNeeded : ReadingOf(f) = got[file]
<1>1. f \in asked /\ asked \subseteq Facets
  BY AsksAssumption DEF TypeOK, Measured
<1>2. CASE f \in StatFacets
  BY <1>1, <1>2 DEF StatFacets, ReadingOf, HomeFile, FilesNeeded, Files
<1>3. CASE f = "mem"
  BY <1>1, <1>3 DEF ReadingOf, HomeFile, FilesNeeded, Files
<1>4. CASE f \in {"uid", "cwd", "argv"}
  BY <1>1, <1>4 DEF ReadingOf, HomeFile, FilesNeeded, Files
<1> QED
  BY <1>1, <1>2, <1>3, <1>4 DEF Facets, StatFacets

\* A read file of a pid is of that pid, and a facet's reading well typed.
LEMMA ReadingOfPid ==
  ASSUME IInv, pid # 0, unread = {}, NEW f \in Measured
  PROVE  /\ ReadingOf(f) \in Readings
         /\ ReadingOf(f).of = pid
         /\ Readable(f) => <<pid, ReadingOf(f).born>> \in lived
                           /\ ReadingOf(f).born \in Nat \ {0}
         /\ ReadingOf(f).born = Gone => pid \in vacant
<1>1. PICK file \in FilesNeeded : ReadingOf(f) = got[file]
  BY MeasuredIsRead DEF IInv, Truth
<1>2. file \in Files
  BY DEF FilesNeeded
<1>3. got[file] \in Readings
  BY <1>2 DEF IInv, Truth, TypeOK
<1>4. got[file].of = pid
  BY <1>1 DEF IInv, Truth, ReadingsTrue
<1>5. Readable(f) => <<pid, got[file].born>> \in lived /\ got[file].born \in Nat \ {0}
  BY <1>1, <1>2, <1>3, <1>4 DEF IInv, Truth, ReadingsTrue, Readable, Readings, Gone, Refused
<1>6. got[file].born = Gone => pid \in vacant
  BY <1>2, <1>4 DEF IInv, Truth, ReadingsTrue
<1> QED
  BY <1>1, <1>3, <1>4, <1>5, <1>6

LEMMA InitTruth == Init => Truth
<1> SUFFICES ASSUME Init PROVE Truth
  OBVIOUS
<1>1. HostTrue
  BY MaxEventsAssumption DEF Init, HostInit, HostTrue, HostTypeOK, Living, Dead
<1>2. TypeOK
  BY <1>1 DEF Init, TypeOK, HostTrue, Readings, NotRead, Gone, Facets, Files
<1>3. ReadingsTrue /\ RowsTrue
  BY DEF Init, ReadingsTrue, NotRead, RowsTrue, RowsAreTheirs, Gone
<1> QED
  BY <1>1, <1>2, <1>3 DEF Truth

\* Every step keeps what is said true.
LEMMA TruthStep == IInv /\ [Next]_vars => Truth'
<1> SUFFICES ASSUME IInv, [Next]_vars PROVE Truth'
  OBVIOUS
<1> USE DEF IInv, Truth, Answers
<1>s. ASSUME UNCHANGED host, TypeOK', ReadingsTrue', RowsTrue' PROVE Truth'
  BY <1>s DEF host, HostTrue, HostTypeOK, Living, Dead
<1>1. ASSUME NEW pids \in SUBSET Pids, NEW blamed \in SUBSET Pids,
             blamed \ pids \subseteq vacant, CollectTo(pids, blamed)
      PROVE  Truth'
  <2>0. unreadable' \subseteq [pid : Pids, facet : Facets, errno : {Gone, Refused}]
    BY <1>1 DEF CollectTo, Facets
  <2>1. TypeOK'
    BY <1>1, <2>0 DEF CollectTo, TypeOK, host, HostTypeOK, Placed
  <2>2. ReadingsTrue'
    BY <1>1 DEF CollectTo, ReadingsTrue, host, FilesNeeded, Measured
  <2>3. RowsTrue'
    BY <1>1 DEF CollectTo, RowsTrue, RowsAreTheirs, host, Gone, Refused
  <2> QED
    BY <1>1, <1>s, <2>1, <2>2, <2>3 DEF CollectTo
<1>2. CASE CollectHost
  BY <1>1, <1>2 DEF CollectHost, HostTrue, HostTypeOK
<1>3. CASE CollectPids
  BY <1>1, <1>3 DEF CollectPids, TypeOK
<1>4. CASE CollectRoots
  <2>1. PICK blamed \in SUBSET named, pids \in SUBSET {e[1] : e \in lived} :
          blamed \ pids \subseteq vacant /\ CollectTo(pids, blamed)
    BY <1>4 DEF CollectRoots
  <2>2. blamed \subseteq Pids /\ pids \subseteq Pids
    BY DEF TypeOK, HostTypeOK
  <2> QED
    BY <1>1, <2>1, <2>2
<1>5. CASE CollectFails
  <2>1. TypeOK'
    BY <1>5, AsksAssumption DEF CollectFails, TypeOK, host, HostTypeOK, Sources
  <2>2. ReadingsTrue' /\ RowsTrue'
    BY <1>5 DEF CollectFails, ReadingsTrue, RowsTrue, RowsAreTheirs, host,
                FilesNeeded, Measured
  <2> QED
    BY <1>5, <1>s, <2>1, <2>2 DEF CollectFails
<1>6. CASE ReadConstants
  <2>1. pid = 0
    BY <1>6 DEF ReadConstants, Placed
  <2>2. \A c \in Constants : Costs[c] \subseteq Facets
    BY DEF Constants, Costs, Facets
  <2>3. known' \subseteq Constants /\ errors' \subseteq [source : Sources, facet : Facets]
    BY <1>6, <2>2 DEF ReadConstants, TypeOK, Constants, Sources
  <2>4. TypeOK'
    BY <1>6, <2>3 DEF ReadConstants, TypeOK, host, HostTypeOK
  <2>5. ReadingsTrue' /\ RowsTrue'
    BY <1>6, <2>1 DEF ReadConstants, ReadingsTrue, RowsTrue, RowsAreTheirs, host
  <2> QED
    BY <1>6, <1>s, <2>4, <2>5 DEF ReadConstants
<1>7. ASSUME NEW p \in Pids, BeginPid(p) PROVE Truth'
  <2>1. TypeOK'
    BY <1>7 DEF BeginPid, TypeOK, host, HostTypeOK, FilesNeeded, NotRead, Readings, Gone
  <2>2. ReadingsTrue'
    BY <1>7 DEF BeginPid, ReadingsTrue, NotRead, Gone, FilesNeeded, Measured
  <2>3. RowsTrue'
    BY <1>7 DEF BeginPid, RowsTrue, RowsAreTheirs, host
  <2> QED
    BY <1>7, <1>s, <2>1, <2>2, <2>3 DEF BeginPid
<1>8. ASSUME NEW f \in Files, ReadFile(f) PROVE Truth'
  <2>1. PICK b \in Nat \cup {Refused} :
          /\ got' = [got EXCEPT ![f] = [of |-> pid, born |-> b]]
          /\ b # Refused => b = born[pid]
    BY <1>8 DEF ReadFile, TypeOK, HostTypeOK
  <2>2. pid \in Pids
    BY <1>8 DEF ReadFile, TypeOK
  <2>3. /\ b \notin {Gone, Refused} => <<pid, b>> \in lived
        /\ b = Gone => pid \in vacant
    BY <2>1, <2>2 DEF HostTrue, Living, Dead, Gone, Refused
  <2>4. TypeOK'
    BY <1>8, <2>1, <2>2 DEF ReadFile, TypeOK, host, HostTypeOK, Readings
  <2>5. ReadingsTrue'
    BY <1>8, <2>1, <2>2, <2>3, PidsAssumption
       DEF ReadFile, ReadingsTrue, TypeOK, host, FilesNeeded, Measured
  <2>6. RowsTrue'
    BY <1>8 DEF ReadFile, RowsTrue, RowsAreTheirs, host
  <2> QED
    BY <1>8, <1>s, <2>4, <2>5, <2>6 DEF ReadFile
<1>9. CASE ReportPid
  <2>1. \A f \in Measured :
          /\ ReadingOf(f) \in Readings
          /\ ReadingOf(f).of = pid
          /\ Readable(f) => <<pid, ReadingOf(f).born>> \in lived
                            /\ ReadingOf(f).born \in Nat \ {0}
          /\ ReadingOf(f).born = Gone => pid \in vacant
    BY <1>9, ReadingOfPid DEF ReportPid
  <2>2. pid \in Pids /\ Measured \subseteq Facets
    BY <1>9, AsksAssumption DEF ReportPid, TypeOK, Measured
  <2>3. \A r \in RowsFrom(Measured) :
          /\ r \in [pid : Pids, facet : Facets, of : Pids, born : Nat \ {0}]
          /\ r.of = r.pid /\ <<r.pid, r.born>> \in lived
    BY <2>1, <2>2 DEF RowsFrom
  <2>4. \A u \in BlameFrom(Measured) :
          /\ u \in [pid : Pids, facet : Facets, errno : {Gone, Refused}]
          /\ u.errno = Gone => u.pid \in vacant
    <3>1. SUFFICES ASSUME NEW f \in Measured, ~Readable(f)
                   PROVE  /\ ReadingOf(f).born \in {Gone, Refused}
                          /\ ReadingOf(f).born = Gone => pid \in vacant
      BY <2>2 DEF BlameFrom
    <3> QED
      BY <2>1, <3>1 DEF Readable
  <2>5. TypeOK'
    BY <1>9, <2>3, <2>4 DEF ReportPid, EndPid, TypeOK, host, HostTypeOK
  <2>6. RowsTrue'
    BY <1>9, <2>3, <2>4 DEF ReportPid, EndPid, RowsTrue, RowsAreTheirs, host
  <2>7. ReadingsTrue'
    BY <1>9 DEF ReportPid, EndPid, ReadingsTrue, host
  <2> QED
    BY <1>9, <1>s, <2>5, <2>6, <2>7 DEF ReportPid, EndPid
<1>10. CASE AllRead
  BY <1>10, <1>s DEF AllRead, TypeOK, HostTypeOK, host, ReadingsTrue, RowsTrue,
                     RowsAreTheirs, FilesNeeded, Measured
<1>11. CASE Environment
  <2>1. HostTrue' /\ HostMoves /\ UNCHANGED sensor
    BY <1>11, HostStep DEF Environment
  <2>2. TypeOK'
    BY <2>1 DEF TypeOK, HostTrue, sensor
  <2>3. ReadingsTrue' /\ RowsTrue'
    BY <2>1 DEF HostMoves, sensor, ReadingsTrue, RowsTrue, RowsAreTheirs,
                FilesNeeded, Measured
  <2> QED
    BY <2>1, <2>2, <2>3
<1>12. CASE UNCHANGED vars
  BY <1>12 DEF vars, host, sensor, TypeOK, HostTrue, HostTypeOK, Living, Dead,
               ReadingsTrue, RowsTrue, RowsAreTheirs, FilesNeeded, Measured
<1> QED
  BY <1>2, <1>3, <1>4, <1>5, <1>6, <1>7, <1>8, <1>9, <1>10, <1>11, <1>12
     DEF Next, SensorNext

-----------------------------------------------------------------------------

\* What the host does and what a file gives moves no row.
Quiet == UNCHANGED <<phase, asked, scope, named, known, targets, todo, pid, rows,
                     unreadable, errors>>

LEMMA QuietStep == Answers /\ Quiet => Answers'
<1> SUFFICES ASSUME Answers, Quiet PROVE Answers'
  OBVIOUS
<1>1. Reported' = Reported /\ Measured' = Measured /\ Roots' = Roots
  BY DEF Quiet, Reported, Measured, Roots
<1>2. /\ \A p, f : RowsOf(p, f)' = RowsOf(p, f) /\ BlamesOf(p, f)' = BlamesOf(p, f)
      /\ \A f : Lost(f)' = Lost(f)
  BY DEF Quiet, RowsOf, BlamesOf, Lost
<1>3. Placed'
  BY <1>1 DEF Answers, Placed, Quiet
<1>4. Single'
  BY DEF Answers, Single, Quiet
<1>5. Answered'
  BY <1>1, <1>2 DEF Answers, Answered, Told, Quiet
<1>6. LossTold'
  BY <1>1, <1>2 DEF Answers, LossTold, Quiet
<1>7. SharedFileIsOneInstant'
  BY <1>1, <1>2 DEF Answers, SharedFileIsOneInstant, Quiet
<1> QED
  BY <1>3, <1>4, <1>5, <1>6, <1>7 DEF Answers

\* The pid being read is reported: one row or one U row per measured facet.
LEMMA ReportStep == IInv /\ ReportPid => Answers'
<1> SUFFICES ASSUME IInv, ReportPid PROVE Answers'
  OBVIOUS
<1> USE DEF IInv, Answers
<1>1. /\ pid # 0 /\ unread = {} /\ pid' = 0
      /\ rows' = rows \cup RowsFrom(Measured)
      /\ unreadable' = unreadable \cup BlameFrom(Measured)
      /\ UNCHANGED <<phase, asked, scope, named, known, targets, todo, errors>>
  BY DEF ReportPid, EndPid
<1>p. PICK p : p = pid
  OBVIOUS
<1>2. Measured' = Measured /\ Roots' = Roots
  BY <1>1 DEF Measured, Roots
<1>3. p \in targets \ todo /\ p \notin Reported /\ Reported' = Reported \cup {p}
  BY <1>1, <1>p, PidsAssumption DEF Placed, Truth, TypeOK, Reported
<1>4. phase = "reads"
  BY <1>1 DEF Placed
<1>5. \A r \in rows : r.pid # p
  BY <1>3 DEF Placed
<1>6. \A r \in RowsFrom(Measured) : r.pid = p /\ r.facet \in Measured
  BY <1>p DEF RowsFrom
<1>7. \A u \in BlameFrom(Measured) : u.pid = p /\ u.facet \in Measured
  BY <1>p DEF BlameFrom
<1>8. Placed'
  <2>1. \A r \in rows' : r.pid \in Reported' /\ r.facet \in Measured'
    BY <1>1, <1>2, <1>3, <1>6 DEF Placed
  <2>2. \A u \in unreadable' : \/ u.pid \in Reported' /\ u.facet \in Measured'
                               \/ u.pid \in Roots' /\ u.facet = "proc"
    <3>1. \A u \in unreadable : \/ u.pid \in Reported' /\ u.facet \in Measured'
                                \/ u.pid \in Roots' /\ u.facet = "proc"
      BY <1>2, <1>3 DEF Placed
    <3>2. \A u \in BlameFrom(Measured) : u.pid \in Reported' /\ u.facet \in Measured'
      BY <1>2, <1>3, <1>7
    <3> QED
      BY <1>1, <3>1, <3>2
  <2> QED
    BY <1>1, <1>4, <2>1, <2>2 DEF Placed
<1>9. Single'
  <2>1. \A r, t \in RowsFrom(Measured) : r.facet = t.facet => r = t
    BY DEF RowsFrom
  <2>2. \A u, v \in BlameFrom(Measured) : u.facet = v.facet => u = v
    BY DEF BlameFrom
  <2>3. \A u \in unreadable, v \in BlameFrom(Measured) :
          ~(u.pid = v.pid /\ u.facet = v.facet)
    BY DEF BlameFrom
  <2> QED
    BY <1>1, <1>5, <1>6, <1>7, <2>1, <2>2, <2>3 DEF Single
<1>10. \A q, f : q # p => RowsOf(q, f)' = RowsOf(q, f) /\ BlamesOf(q, f)' = BlamesOf(q, f)
  BY <1>1, <1>6, <1>7 DEF RowsOf, BlamesOf
<1>11. \A q, f : BlamesOf(q, f) \subseteq BlamesOf(q, f)'
  BY <1>1 DEF BlamesOf
<1>12. ASSUME NEW f \in Measured, Readable(f)
       PROVE  /\ BlamesOf(p, f)' = BlamesOf(p, f)
              /\ RowsOf(p, f)' = {[pid |-> p, facet |-> f, of |-> ReadingOf(f).of,
                                     born |-> ReadingOf(f).born]}
  <2>1. \A u \in BlameFrom(Measured) : u.facet # f
    BY <1>12, <1>p DEF BlameFrom
  <2>2. BlamesOf(p, f)' = BlamesOf(p, f)
    BY <1>1, <2>1 DEF BlamesOf
  <2> DEFINE r == [pid |-> p, facet |-> f, of |-> ReadingOf(f).of,
                   born |-> ReadingOf(f).born]
  <2>3. r \in RowsFrom(Measured)
    BY <1>12, <1>p DEF RowsFrom
  <2>4. \A t \in RowsFrom(Measured) : t.facet = f => t = r
    BY <1>p DEF RowsFrom
  <2>5. RowsOf(p, f)' = {t \in rows \cup RowsFrom(Measured) : t.pid = p /\ t.facet = f}
    BY <1>1 DEF RowsOf
  <2> HIDE DEF r
  <2>6. r.pid = p /\ r.facet = f
    BY DEF r
  <2>7. RowsOf(p, f)' = {r}
    BY <1>5, <2>3, <2>4, <2>5, <2>6
  <2> QED
    BY <2>2, <2>7 DEF r
<1>13. ASSUME NEW f \in Measured, ~Readable(f)
       PROVE  RowsOf(p, f)' = {} /\ BlamesOf(p, f)' # {}
  <2>1. \A t \in RowsFrom(Measured) : t.facet # f
    BY <1>13 DEF RowsFrom
  <2>2. RowsOf(p, f)' = {}
    BY <1>1, <1>5, <2>1 DEF RowsOf
  <2>3. BlamesOf(p, f)' # {}
    <3>1. CASE \E u \in unreadable : u.pid = p /\ u.facet = f
      BY <1>1, <3>1 DEF BlamesOf
    <3>2. CASE \A u \in unreadable : ~(u.pid = p /\ u.facet = f)
      <4> DEFINE u == [pid |-> p, facet |-> f, errno |-> ReadingOf(f).born]
      <4>1. u \in BlameFrom(Measured)
        BY <1>13, <3>2, <1>p DEF BlameFrom
      <4>2. u.pid = p /\ u.facet = f
        OBVIOUS
      <4> QED
        BY <1>1, <4>1, <4>2 DEF BlamesOf
    <3> QED
      BY <3>1, <3>2
  <2> QED
    BY <2>2, <2>3
<1>14. \A f \in Measured : BlamesOf(p, f) = {} \/ (f = "proc" /\ p \in Roots)
  BY <1>3 DEF Placed, BlamesOf
<1>15. Answered'
  <2>1. ASSUME NEW q \in Reported', NEW f \in Measured' PROVE Told(q, f)'
    <3>1. CASE q = p
      BY <1>2, <1>12, <1>13, <1>14, <2>1, <3>1 DEF Told
    <3>2. CASE q # p
      BY <1>2, <1>3, <1>10, <2>1, <3>2 DEF Told, Answered
    <3> QED
      BY <3>1, <3>2
  <2>2. \A q \in named' \ targets' : q \in Roots' /\ BlamesOf(q, "proc")' # {}
    BY <1>1, <1>2, <1>4, <1>11 DEF Answered
  <2> QED
    BY <1>1, <2>1, <2>2 DEF Answered
<1>16. LossTold'
  BY <1>1, <1>2, <1>4 DEF LossTold, Lost
<1>17. SharedFileIsOneInstant'
  <2> SUFFICES ASSUME NEW q \in Pids,
                      NEW f \in Measured \cap (StatFacets \cup {"mem"}),
                      NEW g \in Measured \cap (StatFacets \cup {"mem"}),
                      asked \cap StatFacets # {}, RowsOf(q, f)' # {}
               PROVE  /\ RowsOf(q, g)' # {}
                      /\ \A r \in RowsOf(q, f)', t \in RowsOf(q, g)' :
                           r.of = t.of /\ r.born = t.born
    BY <1>1, <1>2 DEF SharedFileIsOneInstant
  <2>1. CASE q # p
    BY <1>10, <2>1 DEF SharedFileIsOneInstant
  <2>2. CASE q = p
    <3>1. ReadingOf(f) = got["stat"] /\ ReadingOf(g) = got["stat"]
      BY DEF ReadingOf, HomeFile, StatFacets, FilesNeeded
    <3>2. Readable(f) /\ Readable(g)
      BY <1>13, <2>2, <3>1 DEF Readable
    <3>3. /\ RowsOf(q, f)' = {[pid |-> p, facet |-> f, of |-> got["stat"].of,
                                born |-> got["stat"].born]}
          /\ RowsOf(q, g)' = {[pid |-> p, facet |-> g, of |-> got["stat"].of,
                                born |-> got["stat"].born]}
      BY <1>12, <2>2, <3>1, <3>2
    <3> QED
      BY <3>3
  <2> QED
    BY <2>1, <2>2
<1> QED
  BY <1>8, <1>9, <1>15, <1>16, <1>17

LEMMA AnswerStep == IInv /\ [Next]_vars => Answers'
<1> SUFFICES ASSUME IInv, [Next]_vars PROVE Answers'
  OBVIOUS
<1> USE DEF IInv, Answers
<1>1. ASSUME NEW pids, NEW blamed, blamed \subseteq named, CollectTo(pids, blamed),
             blamed = {} \/ scope = "roots",
             scope # "host" => named \subseteq pids \cup blamed
      PROVE  Answers'
  <2>1. /\ phase = "collect" /\ phase' = "constants" /\ rows' = {} /\ errors' = {}
        /\ targets' = pids /\ todo' = pids /\ pid' = 0
        /\ UNCHANGED <<asked, scope, named, known>>
    BY <1>1 DEF CollectTo, Placed
  <2>2. \A u \in unreadable' : u.pid \in blamed /\ u.facet = "proc"
    BY <1>1 DEF CollectTo
  <2>3. Roots' = Roots /\ blamed \subseteq Roots
    BY <1>1, <2>1 DEF Roots
  <2>4. Placed'
    BY <2>1, <2>2, <2>3 DEF Placed
  <2>5. Single'
    BY <1>1, <2>1 DEF CollectTo, Single
  <2>6. \A p \in blamed : BlamesOf(p, "proc")' # {}
    <3>1. SUFFICES ASSUME NEW p \in blamed
                   PROVE  \E u \in unreadable' : u.pid = p /\ u.facet = "proc"
      BY DEF BlamesOf
    <3> DEFINE u == [pid |-> p, facet |-> "proc",
                     errno |-> IF p \in pids THEN Refused ELSE Gone]
    <3>2. u \in unreadable'
      BY <1>1 DEF CollectTo
    <3> QED
      BY <3>2
  <2>7. Answered'
    BY <1>1, <2>1, <2>3, <2>6 DEF Answered, Reported
  <2>8. LossTold'
    BY <2>1 DEF LossTold
  <2>9. SharedFileIsOneInstant'
    BY <2>1 DEF SharedFileIsOneInstant, RowsOf
  <2> QED
    BY <2>4, <2>5, <2>7, <2>8, <2>9
<1>2. CASE CollectHost
  BY <1>1, <1>2 DEF CollectHost
<1>3. CASE CollectPids
  BY <1>1, <1>3 DEF CollectPids
<1>4. CASE CollectRoots
  BY <1>1, <1>4 DEF CollectRoots
<1>5. CASE CollectFails
  <2>1. /\ phase = "collect" /\ phase' = "done" /\ rows' = {} /\ unreadable' = {}
        /\ todo' = targets' /\ pid' = 0 /\ scope' = "host" /\ named' = {}
    BY <1>5 DEF CollectFails, Placed, Answered
  <2>2. targets' = {}
    BY <1>5 DEF CollectFails, Placed
  <2> QED
    BY <2>1, <2>2 DEF Placed, Single, Answered, Reported, LossTold,
                      SharedFileIsOneInstant, RowsOf
<1>6. CASE ReadConstants
  <2>1. /\ phase = "constants" /\ phase' = "reads" /\ pid' = 0 /\ rows' = {}
        /\ todo' = targets'
        /\ UNCHANGED <<asked, scope, named, targets, unreadable>>
    BY <1>6 DEF ReadConstants, Placed
  <2>2. Roots' = Roots
    BY <2>1 DEF Roots
  <2>3. Reported = {} /\ Reported' = {}
    BY <1>6, <2>1 DEF ReadConstants, Placed, Reported
  <2>4. Placed'
    BY <2>1, <2>2, <2>3 DEF Placed
  <2>5. Single'
    BY <2>1 DEF Single
  <2>6. Answered'
    BY <2>1, <2>2, <2>3 DEF Answered, BlamesOf
  <2>7. SharedFileIsOneInstant'
    BY <2>1 DEF SharedFileIsOneInstant, RowsOf
  <2>8. LossTold'
    <3> DEFINE needed == {c \in Constants : Costs[c] \cap asked # {}}
    <3>1. PICK failed \in SUBSET needed :
            /\ known' = needed \ failed
            /\ errors' = errors \cup UNION {{[source |-> c, facet |-> f] :
                                          f \in Costs[c] \cap asked} : c \in failed}
      BY <1>6 DEF ReadConstants
    <3>2. errors = {}
      BY <2>1 DEF Placed
    <3>3. \A e \in errors' : e.source \in Constants \ known' /\ e.facet \in Costs[e.source]
      BY <3>1, <3>2
    <3>4. ASSUME NEW f \in asked', f \notin Measured' PROVE Lost(f)'
      <4>1. PICK c \in Constants : f \in Costs[c] /\ c \notin known'
        BY <3>4 DEF Measured
      <4>2. c \in failed /\ f \in Costs[c] \cap asked
        BY <2>1, <3>1, <4>1
      <4>3. [source |-> c, facet |-> f] \in errors'
        BY <3>1, <4>2
      <4> QED
        BY <4>3 DEF Lost
    <3> QED
      BY <3>3, <3>4 DEF LossTold
  <2> QED
    BY <2>4, <2>5, <2>6, <2>7, <2>8
<1>7. ASSUME NEW p \in Pids, BeginPid(p) PROVE Answers'
  <2>1. /\ p # 0 /\ pid = 0 /\ p \in todo /\ pid' = p /\ todo' = todo \ {p}
        /\ UNCHANGED <<phase, asked, scope, named, known, targets, rows, unreadable,
                       errors>>
        /\ phase = "reads"
    BY <1>7, PidsAssumption DEF BeginPid
  <2>2. Reported' = Reported /\ Measured' = Measured /\ Roots' = Roots
    BY <2>1, PidsAssumption DEF Reported, Measured, Roots, Truth, TypeOK
  <2>3. Placed'
    BY <2>1, <2>2 DEF Placed
  <2>4. Single'
    BY <2>1 DEF Single
  <2>5. \A r, f : RowsOf(r, f)' = RowsOf(r, f) /\ BlamesOf(r, f)' = BlamesOf(r, f)
    BY <2>1 DEF RowsOf, BlamesOf
  <2>6. Answered'
    BY <2>1, <2>2, <2>5 DEF Answered, Told
  <2>7. LossTold'
    BY <2>1, <2>2 DEF LossTold, Lost
  <2>8. SharedFileIsOneInstant'
    BY <2>1, <2>2, <2>5 DEF SharedFileIsOneInstant
  <2> QED
    BY <2>3, <2>4, <2>6, <2>7, <2>8
<1>8. CASE \E f \in Files : ReadFile(f)
  BY <1>8, QuietStep DEF ReadFile, Quiet
<1>9. CASE ReportPid
  BY <1>9, ReportStep
<1>10. CASE AllRead
  <2>1. /\ phase = "reads" /\ phase' = "done" /\ pid = 0 /\ todo = {}
        /\ UNCHANGED <<asked, scope, named, known, targets, todo, pid, rows,
                       unreadable, errors>>
    BY <1>10 DEF AllRead
  <2>2. Reported' = Reported /\ Measured' = Measured /\ Roots' = Roots
    BY <2>1 DEF Reported, Measured, Roots
  <2>3. \A r, f : RowsOf(r, f)' = RowsOf(r, f) /\ BlamesOf(r, f)' = BlamesOf(r, f)
    BY <2>1 DEF RowsOf, BlamesOf
  <2>4. Placed'
    BY <2>1, <2>2 DEF Placed
  <2>5. Single'
    BY <2>1 DEF Single
  <2>6. Answered'
    BY <2>1, <2>2, <2>3 DEF Answered, Told
  <2>7. LossTold'
    BY <2>1, <2>2 DEF LossTold, Lost
  <2>8. SharedFileIsOneInstant'
    BY <2>1, <2>2, <2>3 DEF SharedFileIsOneInstant
  <2> QED
    BY <2>4, <2>5, <2>6, <2>7, <2>8
<1>11. CASE Environment
  BY <1>11, QuietStep DEF Environment, sensor, Quiet
<1>12. CASE UNCHANGED vars
  BY <1>12, QuietStep DEF vars, sensor, Quiet
<1> QED
  BY <1>2, <1>3, <1>4, <1>5, <1>6, <1>7, <1>8, <1>9, <1>10, <1>11, <1>12
     DEF Next, SensorNext

LEMMA InitAnswers == Init => Answers
<1> SUFFICES ASSUME Init PROVE Answers
  OBVIOUS
<1>1. Placed /\ Single /\ LossTold
  BY DEF Init, Placed, Single, LossTold
<1>2. Answered /\ SharedFileIsOneInstant
  BY DEF Init, Answered, Reported, SharedFileIsOneInstant, RowsOf
<1> QED
  BY <1>1, <1>2 DEF Answers

LEMMA Inductive == Spec => []IInv
<1>1. Init => IInv
  BY InitTruth, InitAnswers DEF IInv
<1>2. IInv /\ [Next]_vars => IInv'
  BY TruthStep, AnswerStep DEF IInv
<1> QED
  BY <1>1, <1>2, PTL DEF Spec

-----------------------------------------------------------------------------

\* Every reachable state of a snapshot is well typed.
THEOREM TypeCorrect == Spec => []TypeOK
<1>1. IInv => TypeOK
  BY DEF IInv, Truth
<1> QED
  BY <1>1, Inductive, PTL

\* A fact is of a process that bore its pid during the ask (snapshot).
THEOREM TheirsProved == Spec => []RowsAreTheirs
<1>1. IInv => RowsAreTheirs
  BY DEF IInv, Truth, RowsTrue
<1> QED
  BY <1>1, Inductive, PTL

\* foldStartTimeReading calls a pid absent only if it named no process at some
\* instant, and gives the identity of no process that was not there.
THEOREM IdentityProved == Spec => []IdentityIsTrue
<1>1. IInv => IdentityIsTrue
  <2> SUFFICES ASSUME IInv, NEW p \in Pids
               PROVE  /\ Identity(p).kind = "absent" => p \in vacant
                      /\ \A r \in Identity(p).rows : <<p, r.born>> \in lived
    BY DEF IdentityIsTrue
  <2>1. \A r \in StartRows(p) : <<p, r.born>> \in lived
    BY DEF IInv, Truth, RowsTrue, RowsAreTheirs, StartRows
  <2>2. \A u \in StartBlame(p) : u.errno = Gone => p \in vacant
    BY DEF IInv, Truth, RowsTrue, StartBlame
  <2> QED
    BY <2>1, <2>2 DEF Identity
<1> QED
  BY <1>1, Inductive, PTL

\* A lost host constant is one E row, no U row and no made-up fact.
LEMMA LostIsQuiet ==
  ASSUME IInv, NEW f \in Facets, Lost(f), NEW p \in Pids
  PROVE  RowsOf(p, f) = {} /\ BlamesOf(p, f) = {}
<1> USE DEF IInv, Answers
<1>1. CASE rows = {} /\ unreadable = {}
  BY <1>1 DEF RowsOf, BlamesOf
<1>2. CASE \A e \in errors : e.source \in Constants \ known /\ e.facet \in Costs[e.source]
  <2>1. f \notin Measured /\ f # "proc"
    BY <1>2 DEF Lost, Measured, Costs, Constants
  <2> QED
    BY <2>1 DEF Placed, RowsOf, BlamesOf
<1> QED
  BY <1>1, <1>2 DEF LossTold

\* Every asked facet of every pid is told or blamed, once (snapshot, normalize).
THEOREM AnsweredProved == Spec => []EveryAskAnswered
<1>1. IInv => EveryAskAnswered
  <2> SUFFICES ASSUME IInv, Done, NEW p \in targets \cup named, NEW f \in asked
               PROVE  /\ AtMostOne(RowsOf(p, f)) /\ AtMostOne(BlamesOf(p, f))
                      /\ Lost(f) => RowsOf(p, f) = {} /\ BlamesOf(p, f) = {}
                      /\ \/ Lost(f) \/ Told(p, f)
                         \/ p \in Roots \ targets /\ BlamesOf(p, "proc") # {}
    BY DEF EveryAskAnswered, Told
  <2> USE DEF IInv, Truth, Answers, Done
  <2>1. AtMostOne(RowsOf(p, f)) /\ AtMostOne(BlamesOf(p, f))
    BY DEF Single, AtMostOne, RowsOf, BlamesOf
  <2>2. Lost(f) => RowsOf(p, f) = {} /\ BlamesOf(p, f) = {}
    BY LostIsQuiet, AsksAssumption DEF TypeOK
  <2>3. CASE p \in targets
    <3>1. \A g \in asked \ Measured : Lost(g)
      BY <2>3 DEF LossTold
    <3>2. p \in Reported
      BY <2>3, PidsAssumption DEF Placed, Reported, TypeOK
    <3> QED
      BY <2>1, <2>2, <3>1, <3>2 DEF Answered
  <2>4. CASE p \in named \ targets
    BY <2>1, <2>2, <2>4 DEF Answered
  <2> QED
    BY <2>3, <2>4
<1> QED
  BY <1>1, Inductive, PTL

\* Facets that share a file are told of one instant, or lost together.
THEOREM InstantProved == Spec => []SharedFileIsOneInstant
<1>1. IInv => SharedFileIsOneInstant
  BY DEF IInv, Answers
<1> QED
  BY <1>1, Inductive, PTL

=============================================================================
