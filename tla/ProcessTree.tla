---------------------------- MODULE ProcessTree ----------------------------
(***************************************************************************)
(* The process tree `snapshot --roots` walks on linux: processes, their    *)
(* threads, and which thread each process is a child of.  None of it is    *)
(* osfacts code; it is what /proc/<pid>/task/<tid>/children shows while    *)
(* processes fork, threads come and go, and orphans are adopted.           *)
(***************************************************************************)
EXTENDS Integers, FiniteSets

CONSTANTS
  Pids,      \* process ids the host may use
  Tids,      \* names of the threads a process may have
  MainTid,   \* the thread a process starts with
  MaxEvents  \* bound on host steps in one behaviour

ASSUME PidsAssumption == Pids \subseteq Nat \ {0} /\ IsFiniteSet(Pids)
ASSUME TidsAssumption == MainTid \in Tids
ASSUME MaxEventsAssumption == MaxEvents \in Nat

VARIABLES
  threads,  \* threads[p]: p's live threads; a process with none is dead
  parent,   \* parent[p]: the <<pid, tid>> whose children file lists p
  events,   \* host steps taken
  begot,    \* <<p, c>>: c was p's child at some instant of the walk
  kept      \* <<p, c>>: c was a child of one and the same thread of p, and
            \* both lived, at every instant so far

tree == <<threads, parent, events, begot, kept>>

Outside == <<0, 0>>  \* init: the parent nobody asks about

Alive == {p \in Pids : threads[p] # {}}
Edges == {e \in Pids \X Pids : e[2] \in Alive /\ parent[e[2]][1] = e[1]}

ChildrenOf(p, t) == {c \in Alive : parent[c] = <<p, t>>}

\* d[2] is in every set that holds d[1]'s children in E and theirs.
Descent(E) ==
  {d \in Pids \X Pids :
     \A S \in SUBSET Pids :
       (\A e \in E : e[1] \in S \cup {d[1]} => e[2] \in S) => d[2] \in S}

TreeTypeOK ==
  /\ threads \in [Pids -> SUBSET Tids]
  /\ parent \in [Pids -> (Pids \X Tids) \cup {Outside}]
  /\ events \in 0..MaxEvents
  /\ begot \subseteq Pids \X Pids
  /\ kept \subseteq Pids \X Pids

\* A parent is a live thread, and its pid the lower one.  osfacts compares no
\* two pids, so a tree whose pids have wrapped is one of these under other
\* names.  Pids may be reused during the walk, and first threads may end.
TreeInit ==
  /\ threads \in [Pids -> {{}} \cup {T \in SUBSET Tids : MainTid \in T}]
  /\ parent \in [Pids -> (Pids \X Tids) \cup {Outside}]
  /\ \A p \in Pids :
       /\ p \notin Alive => parent[p] = Outside
       /\ parent[p] # Outside =>
            parent[p][1] < p /\ parent[p][2] \in threads[parent[p][1]]
  /\ events = 0
  /\ begot = Edges
  /\ kept = Edges

Remember ==
  /\ events' = events + 1
  /\ begot' = begot \cup Edges'
  /\ kept' = {e \in kept \cap Edges' : parent'[e[2]] = parent[e[2]]}

Fork(p, t, c) ==
  /\ t \in threads[p]
  /\ c \notin Alive
  /\ threads' = [threads EXCEPT ![c] = {MainTid}]
  /\ parent' = [parent EXCEPT ![c] = <<p, t>>]
  /\ Remember

StartThread(p, t) ==
  /\ p \in Alive
  /\ t \notin threads[p]
  /\ threads' = [threads EXCEPT ![p] = @ \cup {t}]
  /\ UNCHANGED parent
  /\ Remember

Moved(old, new) == [c \in Pids |-> IF parent[c] = old THEN new ELSE parent[c]]

\* A thread's children pass to another thread of its process.
EndThread(p, t) ==
  /\ t \in threads[p]
  /\ \E heir \in threads[p] \ {t} : parent' = Moved(<<p, t>>, <<p, heir>>)
  /\ threads' = [threads EXCEPT ![p] = @ \ {t}]
  /\ Remember

\* Who may adopt p's children: init, or an ancestor that is a subreaper.
Reapers(p) ==
  {Outside} \cup {r \in Pids \X Tids :
                    /\ r[1] # p
                    /\ r[2] \in threads[r[1]]
                    /\ <<r[1], p>> \in Descent(Edges)}

Exit(p) ==
  /\ p \in Alive
  /\ threads' = [threads EXCEPT ![p] = {}]
  /\ \E heir \in Reapers(p) :
       parent' = [c \in Pids |-> IF c = p THEN Outside
                                 ELSE IF parent[c][1] = p THEN heir
                                 ELSE parent[c]]
  /\ Remember

TreeNext ==
  /\ events < MaxEvents
  /\ \/ \E p \in Pids, t \in Tids :
          StartThread(p, t) \/ EndThread(p, t) \/ \E c \in Pids : Fork(p, t, c)
     \/ \E p \in Pids : Exit(p)

=============================================================================
