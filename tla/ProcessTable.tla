---------------------------- MODULE ProcessTable ----------------------------
(***************************************************************************)
(* The pids a snapshot asks about, and which process each one names at any *)
(* instant: processes exit, and pids are given to new ones.  None of it is *)
(* osfacts code.                                                           *)
(***************************************************************************)
EXTENDS Integers, FiniteSets

CONSTANTS
  Pids,      \* process ids the host may use
  MaxEvents  \* bound on host steps in one behaviour

ASSUME PidsAssumption == Pids \subseteq Nat \ {0} /\ IsFiniteSet(Pids)
ASSUME MaxEventsAssumption == MaxEvents \in Nat

VARIABLES
  born,    \* born[p]: when the process that p names was born; 0: no process
  events,  \* host steps taken
  lived,   \* <<p, b>>: the process of p born at b lived at some instant
  vacant   \* pids that named no process at some instant

host == <<born, events, lived, vacant>>

Living == {p \in Pids : born[p] # 0}
Dead   == Pids \ Living

HostTypeOK ==
  /\ born \in [Pids -> Nat]
  /\ events \in 0..MaxEvents
  /\ lived \subseteq Pids \X Nat
  /\ vacant \subseteq Pids

HostInit ==
  /\ born \in [Pids -> {0, 1}]
  /\ events = 0
  /\ lived = {<<p, born[p]>> : p \in Living}
  /\ vacant = Dead

Remember ==
  /\ events < MaxEvents
  /\ events' = events + 1
  /\ lived' = lived \cup {<<p, born'[p]>> : p \in Living'}
  /\ vacant' = vacant \cup Dead'

Start(p) ==
  /\ p \in Dead
  /\ born' = [born EXCEPT ![p] = events + 2]
  /\ Remember

Exit(p) ==
  /\ p \in Living
  /\ born' = [born EXCEPT ![p] = 0]
  /\ Remember

HostNext == \E p \in Pids : Start(p) \/ Exit(p)

=============================================================================
