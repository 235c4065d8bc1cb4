------------------------- MODULE UnixSocketsProofs -------------------------
(***************************************************************************)
(* Facts about the moving host and its histories that the sensors' proofs  *)
(* rest on, and induction over the naturals in a form every prover takes:  *)
(* the library's takes an operator, and this one a set.                    *)
(***************************************************************************)
EXTENDS UnixSockets, TLAPS, WellFoundedInduction

Below == {ss \in Nat \X Nat : ss[1] < ss[2]}

LEMMA BelowIsWellFounded == IsWellFoundedOn(Below, Nat)
<1>1. OpToRel(<, Nat) = Below
  BY Zenon DEF OpToRel, Below
<1> QED
  BY NatLessThanWellFounded, <1>1, Zenon

\* A set of naturals that has 0, and every successor up to n of a member, has
\* all the naturals up to n.
LEMMA UpTo ==
  ASSUME NEW n \in Nat, NEW S, 0 \in S, \A m \in 0..(n - 1) : m \in S => m + 1 \in S
  PROVE  0..n \subseteq S
<1> DEFINE T == (0..n) \ S
<1> SUFFICES ASSUME T # {} PROVE FALSE
  OBVIOUS
<1>1. PICK x \in T : \A y \in T : <<y, x>> \notin Below
  <2>1. T \subseteq Nat
    OBVIOUS
  <2> QED
    BY <2>1, BelowIsWellFounded, WFMin, Zenon
<1>2. x \in 1..n /\ x \notin S
  OBVIOUS
<1>3. x - 1 \notin T
  <2>1. \A y, z \in Nat : y < z => <<y, z>> \in Below
    BY DEF Below
  <2>2. x - 1 \in Nat /\ x \in Nat /\ x - 1 < x
    BY <1>2
  <2>3. <<x - 1, x>> \in Below
    BY <2>1, <2>2
  <2> QED
    BY <1>1, <2>3
<1>4. x - 1 \in 0..(n - 1) /\ x - 1 \in S /\ (x - 1) + 1 = x
  BY <1>2, <1>3
<1> QED
  BY <1>2, <1>4

\* The histories agree with the present: what is held now was held, what was
\* steady is still inspectable, what lasted is still bound.
HistoryOK ==
  /\ Held \subseteq ever
  /\ steady \subseteq Inspectable
  /\ Bound \subseteq sighted
  /\ lasting \subseteq Bound
  /\ Bound = {} => gap
  /\ \A p \in Pids \ alive : fds[p] = {}
  /\ \A p \in Pids, i \in Inodes : <<p, i>> \in steady => i \in lasting

\* The histories only gather instants: what was ever true stays so, what was
\* always true can only stop being so.
HistoryMoves ==
  /\ ever \subseteq ever'
  /\ sighted \subseteq sighted'
  /\ steady' \subseteq steady
  /\ lasting' \subseteq lasting
  /\ gap => gap'

\* The host starts well typed, with histories of one instant.
LEMMA HostInitOK == HostInit => HostTypeOK /\ HistoryOK
<1> SUFFICES ASSUME HostInit PROVE HostTypeOK /\ HistoryOK
  OBVIOUS
<1>1. HostTypeOK
  BY MaxEventsAssumption DEF HostInit, HostTypeOK, Bound, Held, Inspectable
<1>2. HistoryOK
  <2>1. gap = (Bound = {})
    BY DEF HostInit
  <2>2. /\ ever = Held
        /\ steady = Inspectable
        /\ sighted = Bound
        /\ lasting = Bound
    BY DEF HostInit
  <2>3. \A p \in Pids, i \in Inodes : <<p, i>> \in steady => i \in lasting
    BY <2>2 DEF Inspectable, Held, Bound
  <2>4. Bound = {} => gap
    BY <2>1, Zenon
  <2> QED
    BY <2>2, <2>3, <2>4 DEF HistoryOK, HostInit
<1> QED
  BY <1>1, <1>2

\* Every host step keeps the types and extends the histories.
LEMMA HostStepOK ==
  HostTypeOK /\ HistoryOK /\ HostNext => HostTypeOK' /\ HistoryOK' /\ HistoryMoves
<1> SUFFICES ASSUME HostTypeOK, HistoryOK, HostNext
             PROVE  HostTypeOK' /\ HistoryOK' /\ HistoryMoves
  OBVIOUS
<1>1. /\ Remember
      /\ alive' \subseteq Pids
      /\ fds' \in [Pids -> SUBSET Inodes]
      /\ inflight' \subseteq Inodes
      /\ denied' \subseteq alive'
      /\ used' \subseteq Inodes
      /\ \A p \in Pids \ alive' : fds'[p] = {}
  <2> USE DEF HostTypeOK, HistoryOK
  <2>1. CASE \E p \in Pids, i \in Inodes : Bind(p, i)
    BY <2>1 DEF Bind
  <2>2. CASE \E p \in Pids, i \in Inodes : Close(p, i)
    BY <2>2 DEF Close
  <2>3. CASE \E p \in Pids, i \in Inodes : Send(p, i)
    BY <2>3 DEF Send
  <2>4. CASE \E p \in Pids, i \in Inodes : Receive(p, i)
    BY <2>4 DEF Receive
  <2>5. CASE \E p, c \in Pids : Fork(p, c)
    BY <2>5 DEF Fork
  <2>6. CASE \E p \in Pids : Exit(p)
    BY <2>6 DEF Exit
  <2>7. CASE \E p \in Pids : Recredential(p)
    BY <2>7 DEF Recredential
  <2> QED
    BY <2>1, <2>2, <2>3, <2>4, <2>5, <2>6, <2>7 DEF HostNext
<1>2. Bound' \subseteq Inodes /\ Held' \subseteq Pids \X Inodes
      /\ Inspectable' \subseteq Held'
  BY <1>1 DEF Bound, Held, Inspectable
<1>3. HostTypeOK'
  BY <1>1, <1>2, MaxEventsAssumption DEF HostTypeOK, Remember
<1>4. HistoryMoves
  BY <1>1 DEF HistoryMoves, Remember
<1>5. \A p \in Pids, i \in Inodes :
        <<p, i>> \in steady' => i \in lasting'
  BY <1>1 DEF HistoryOK, Remember, Inspectable, Held, Bound
<1>6. /\ Held' \subseteq ever'
      /\ steady' \subseteq Inspectable'
      /\ Bound' \subseteq sighted'
      /\ lasting' \subseteq Bound'
      /\ Bound' = {} => gap'
  BY <1>1 DEF Remember
<1>7. HistoryOK'
  BY <1>1, <1>5, <1>6 DEF HistoryOK
<1> QED
  BY <1>3, <1>4, <1>7

\* A step of osfacts is not a step of the host.
LEMMA HostStutterOK ==
  HostTypeOK /\ HistoryOK /\ UNCHANGED env => HostTypeOK' /\ HistoryOK'
BY DEF HostTypeOK, HistoryOK, env, Held, Inspectable, Bound

=============================================================================
