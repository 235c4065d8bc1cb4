------------------------- MODULE SubtreeWalkProofs -------------------------
(***************************************************************************)
(* What the --roots walk promises, for any number of processes, threads,   *)
(* roots and host steps.                                                   *)
(***************************************************************************)
EXTENDS SubtreeWalk, TLAPS

\* Who has a parent has a live thread for one.
ParentLives == \A c \in Pids :
  parent[c] # Outside =>
    parent[c] \in Pids \X Tids /\ parent[c][2] \in threads[parent[c][1]]

TreeInv ==
  /\ TreeTypeOK
  /\ ParentLives
  /\ Edges \subseteq begot
  /\ kept \subseteq Edges

\* What one step of the host leaves of the edges it is remembered by.
TreeMoves ==
  /\ begot \subseteq begot'
  /\ kept' \subseteq kept
  /\ \A e \in kept' : parent'[e[2]] = parent[e[2]]

\* Where the walk is, in terms of what it has met.
Progress ==
  /\ \A p \in Pids : listed[p] <= 1
  /\ InOut \subseteq seen
  /\ seen \subseteq InOut \cup unreadable
  /\ q \subseteq InOut
  /\ \A n \in 1..next - 1 : asked[n] \in seen
  /\ phase \in {"walk", "tasks"} => next <= Len(asked) /\ Root \in seen
  /\ phase \in {"roots", "done"} => q = {}
  /\ phase = "done" => next > Len(asked)

\* Children are met as children of what is listed.
Begotten ==
  /\ \A c \in InOut \ Roots : \E p \in InOut : <<p, c>> \in begot
  /\ phase = "tasks" =>
       pid \in InOut /\ \A c \in kids : <<pid, c>> \in begot

\* While nothing was blamed or refused: a listed pid that is not to be read
\* any more has its lasting children listed, and those of the pid being read
\* are read or below a thread still to be read.
Whole ==
  unreadable = {} /\ ~refused =>
    /\ \A e \in kept :
         e[1] \in InOut \ q /\ (phase = "tasks" => e[1] # pid) => e[2] \in seen
    /\ phase = "tasks" =>
         \A e \in kept :
           e[1] = pid => parent[e[2]][2] \in tasks \/ e[2] \in kids

IInv == TypeOK /\ TreeInv /\ Progress /\ Begotten /\ Whole

-----------------------------------------------------------------------------

\* Every step of the host keeps what is known of the tree and its history.
LEMMA TreeStep == TreeInv /\ TreeNext => TreeInv' /\ TreeMoves
<1> SUFFICES ASSUME TreeInv, TreeNext PROVE TreeInv' /\ TreeMoves
  OBVIOUS
<1> USE DEF TreeInv
<1>0. Outside \notin Pids \X Tids
  BY PidsAssumption DEF Outside
<1>1. Remember /\ threads' \in [Pids -> SUBSET Tids]
        /\ parent' \in [Pids -> (Pids \X Tids) \cup {Outside}] /\ ParentLives'
  <2>1. CASE \E p \in Pids, t \in Tids : StartThread(p, t)
    BY <2>1 DEF StartThread, TreeTypeOK, ParentLives
  <2>2. CASE \E p \in Pids, t \in Tids, c \in Pids : Fork(p, t, c)
    <3>1. PICK p \in Pids, t \in Tids, c \in Pids : Fork(p, t, c)
      BY <2>2
    <3>2. threads[c] = {}
      BY <3>1 DEF Fork, Alive
    <3> QED
      BY <3>1, <3>2, TidsAssumption, <1>0 DEF Fork, TreeTypeOK, ParentLives
  <2>3. CASE \E p \in Pids, t \in Tids : EndThread(p, t)
    <3>1. PICK p \in Pids, t \in Tids : EndThread(p, t)
      BY <2>3
    <3>2. PICK heir \in threads[p] \ {t} : parent' = Moved(<<p, t>>, <<p, heir>>)
      BY <3>1 DEF EndThread
    <3>3. heir \in Tids
      BY <3>2 DEF TreeTypeOK
    <3> QED
      BY <3>1, <3>2, <3>3, <1>0 DEF EndThread, Moved, TreeTypeOK, ParentLives
  <2>4. CASE \E p \in Pids : Exit(p)
    <3>1. PICK p \in Pids : Exit(p)
      BY <2>4
    <3>2. PICK heir \in Reapers(p) :
            parent' = [c \in Pids |-> IF c = p THEN Outside
                                      ELSE IF parent[c][1] = p THEN heir
                                      ELSE parent[c]]
      BY <3>1 DEF Exit
    <3>3. heir = Outside \/ (heir \in Pids \X Tids /\ heir[1] # p
                               /\ heir[2] \in threads[heir[1]])
      BY <3>2 DEF Reapers
    <3>4. Remember /\ threads' \in [Pids -> SUBSET Tids]
      BY <3>1 DEF Exit, TreeTypeOK
    <3>5. parent' \in [Pids -> (Pids \X Tids) \cup {Outside}]
      BY <3>2, <3>3 DEF TreeTypeOK
    <3>6. ParentLives'
      <4> SUFFICES ASSUME NEW c \in Pids, parent'[c] # Outside
                   PROVE  parent'[c] \in Pids \X Tids
                            /\ parent'[c][2] \in threads'[parent'[c][1]]
        BY DEF ParentLives
      <4>1. \A r \in Pids : r # p => threads'[r] = threads[r]
        BY <3>1 DEF Exit, TreeTypeOK
      <4>2. CASE parent[c][1] = p
        BY <3>2, <3>3, <4>1, <4>2
      <4>3. CASE parent[c][1] # p
        <5>1. parent'[c] = parent[c]
          BY <3>2, <4>3
        <5>2. parent[c] \in Pids \X Tids /\ parent[c][2] \in threads[parent[c][1]]
          BY <5>1 DEF ParentLives
        <5> QED
          BY <4>1, <4>3, <5>1, <5>2
      <4> QED
        BY <4>2, <4>3
    <3> QED
      BY <3>4, <3>5, <3>6
  <2> QED
    BY <2>1, <2>2, <2>3, <2>4 DEF TreeNext
<1>2. Edges' \subseteq Pids \X Pids
  BY DEF Edges
<1>3. TreeTypeOK' /\ TreeMoves /\ Edges' \subseteq begot' /\ kept' \subseteq Edges'
  BY <1>1, <1>2, MaxEventsAssumption DEF TreeNext, Remember, TreeTypeOK, TreeMoves
<1> QED
  BY <1>1, <1>3

\* A step of the walker leaves the tree as it is.
LEMMA TreeStutter == TreeInv /\ UNCHANGED tree => TreeInv'
BY DEF TreeInv, TreeTypeOK, ParentLives, Edges, Alive, tree

\* The inductive invariant holds initially.
LEMMA InitInv == Init => IInv
<1> SUFFICES ASSUME Init PROVE IInv
  OBVIOUS
<1>1. TreeTypeOK
  BY MaxEventsAssumption DEF Init, TreeInit, TreeTypeOK, Edges
<1>2. ParentLives
  BY <1>1 DEF Init, TreeInit, TreeTypeOK, ParentLives
<1>3. TreeInv
  BY <1>1, <1>2 DEF Init, TreeInit, TreeInv
<1>4. asked \in Seq(Pids) /\ Len(asked) \in Nat
  BY RootsAssumption DEF Init
<1>5. TypeOK
  <2>1. next \in 1..Len(asked) + 1
    BY <1>4 DEF Init
  <2> QED
    BY <1>1, <1>4, <2>1 DEF Init, TypeOK
<1>6. Progress /\ Begotten /\ Whole
  BY <1>4 DEF Init, Progress, Begotten, Whole, InOut
<1> QED
  BY <1>3, <1>5, <1>6 DEF IInv

\* The steps over the root list.
LEMMA RootsKeep ==
  ASSUME IInv, SkipRoot \/ MissingRoot \/ EnterRoot \/ AllRoots \/ RootWalked
  PROVE  IInv'
<1> USE DEF IInv
<1>1. TreeInv' /\ Roots' = Roots /\ next \in Nat /\ Len(asked) \in Nat
  BY TreeStutter DEF SkipRoot, MissingRoot, EnterRoot, AllRoots, RootWalked,
     tree, Roots, TypeOK
<1>2. AtRoot => Root \in Pids
  BY <1>1 DEF TypeOK, AtRoot, Root
<1>3. CASE SkipRoot
  <2>1. TypeOK'
    BY <1>1, <1>2, <1>3 DEF SkipRoot, AtRoot, TypeOK, TreeInv
  <2>2. \A n \in 1..next' - 1 : asked'[n] \in seen'
    BY <1>1, <1>3 DEF SkipRoot, AtRoot, Root, Progress
  <2>3. Progress'
    BY <1>2, <1>3, <2>2 DEF SkipRoot, AtRoot, Progress, InOut
  <2>4. Begotten' /\ Whole'
    BY <1>1, <1>3 DEF SkipRoot, AtRoot, Begotten, Whole, InOut, tree
  <2> QED
    BY <1>1, <2>1, <2>2, <2>3, <2>4
<1>4. CASE MissingRoot
  <2>1. TypeOK'
    BY <1>1, <1>2, <1>4 DEF MissingRoot, AtRoot, TypeOK, TreeInv
  <2>2. \A n \in 1..next' - 1 : asked'[n] \in seen'
    BY <1>1, <1>4 DEF MissingRoot, AtRoot, Root, Progress
  <2>3. Progress'
    BY <1>2, <1>4, <2>2 DEF MissingRoot, AtRoot, Progress, InOut
  <2>4. Begotten' /\ Whole'
    BY <1>1, <1>4 DEF MissingRoot, AtRoot, Begotten, Whole, InOut, tree
  <2> QED
    BY <1>1, <2>1, <2>2, <2>3, <2>4
<1>5. CASE EnterRoot
  <2>1. InOut' = InOut \cup {Root} /\ Root \notin InOut /\ Root \in Roots
    BY <1>1, <1>2, <1>5 DEF EnterRoot, AtRoot, InOut, TypeOK, Progress, Root, Roots
  <2>2. TypeOK'
    BY <1>1, <1>2, <1>5 DEF EnterRoot, TypeOK, TreeInv
  <2>3. Progress'
    BY <1>1, <1>2, <1>5, <2>1 DEF EnterRoot, AtRoot, Root, TypeOK, Progress, InOut
  <2>4. Begotten'
    BY <1>1, <1>5, <2>1 DEF EnterRoot, Begotten, tree
  <2>5. Whole'
    BY <1>5, <2>1 DEF EnterRoot, AtRoot, Whole, Progress, tree
  <2> QED
    BY <1>1, <2>2, <2>3, <2>4, <2>5
<1>6. CASE AllRoots
  BY <1>1, <1>6 DEF AllRoots, TypeOK, Progress, Begotten, Whole, InOut, tree,
     TreeInv
<1>7. CASE RootWalked
  <2>1. TypeOK'
    BY <1>1, <1>7 DEF RootWalked, TypeOK, Progress, TreeInv
  <2>2. Progress'
    <3>1. next' = next + 1 /\ asked' = asked /\ seen' = seen /\ asked[next] \in seen
      BY <1>7 DEF RootWalked, Progress, Root
    <3>2. \A n \in 1..next' - 1 : asked'[n] \in seen'
      BY <1>1, <3>1 DEF Progress
    <3> QED
      BY <1>7, <3>2 DEF RootWalked, Progress, InOut
  <2>3. Begotten' /\ Whole'
    BY <1>1, <1>7 DEF RootWalked, Begotten, Whole, InOut, tree
  <2> QED
    BY <1>1, <2>1, <2>2, <2>3
<1> QED
  BY <1>3, <1>4, <1>5, <1>6, <1>7

\* The steps of descend and children_of.
LEMMA DescendKeeps ==
  ASSUME IInv,
         \/ \E p \in Pids : OpenTasks(p) \/ NoTasks(p)
         \/ \E t \in Tids : ReadTask(t) \/ TaskRefused(t)
         \/ ListingFails \/ Absorb
  PROVE  IInv'
<1> USE DEF IInv
<1>1. TreeInv' /\ Roots' = Roots /\ next \in Nat /\ Len(asked) \in Nat
  BY TreeStutter DEF OpenTasks, NoTasks, ReadTask, TaskRefused, ListingFails,
     Absorb, tree, Roots, TypeOK
<1>2. \A e \in kept : /\ e \in Pids \X Pids
                      /\ e[2] \in Alive
                      /\ parent[e[2]] = <<e[1], parent[e[2]][2]>>
                      /\ parent[e[2]][2] \in threads[e[1]]
  <2> SUFFICES ASSUME NEW e \in kept
               PROVE  /\ e \in Pids \X Pids
                      /\ e[2] \in Alive
                      /\ parent[e[2]] = <<e[1], parent[e[2]][2]>>
                      /\ parent[e[2]][2] \in threads[e[1]]
    OBVIOUS
  <2>1. e \in Pids \X Pids /\ e[2] \in Alive /\ parent[e[2]][1] = e[1]
    BY DEF TreeInv, Edges
  <2>2. parent[e[2]] # Outside
    BY <2>1, PidsAssumption DEF Outside
  <2> QED
    BY <2>1, <2>2 DEF TreeInv, ParentLives
<1>3. CASE \E p \in Pids : OpenTasks(p)
  <2>1. PICK p \in Pids : OpenTasks(p)
    BY <1>3
  <2>2. TypeOK' /\ Progress' /\ Begotten'
    BY <1>1, <2>1 DEF OpenTasks, TypeOK, TreeInv, TreeTypeOK, Progress, Begotten,
       InOut, Root, tree
  <2>3. Whole'
    BY <1>2, <2>1 DEF OpenTasks, Whole, Progress, InOut, tree
  <2> QED
    BY <1>1, <2>2, <2>3
<1>4. CASE \E p \in Pids : NoTasks(p)
  <2>1. PICK p \in Pids : NoTasks(p)
    BY <1>4
  <2>2. TypeOK' /\ Progress' /\ Begotten'
    BY <1>1, <2>1 DEF NoTasks, TypeOK, TreeInv, Progress, Begotten, InOut, Root,
       tree
  <2>3. Whole'
    BY <1>2, <2>1 DEF NoTasks, Whole, Alive, InOut, tree, TypeOK
  <2> QED
    BY <1>1, <2>2, <2>3
<1>5. CASE \E t \in Tids : ReadTask(t)
  <2>1. PICK t \in Tids : ReadTask(t)
    BY <1>5
  <2>2. \A c \in ChildrenOf(pid, t) : <<pid, c>> \in begot
    BY <2>1 DEF ChildrenOf, TreeInv, Edges, Alive, Begotten, InOut, ReadTask
  <2>3. TypeOK' /\ Progress' /\ Begotten'
    BY <1>1, <2>1, <2>2 DEF ReadTask, TypeOK, TreeInv, Progress, Begotten, InOut,
       Root, tree, ChildrenOf, Alive
  <2>4. Whole'
    BY <1>2, <2>1 DEF ReadTask, Whole, ChildrenOf, InOut, tree
  <2> QED
    BY <1>1, <2>3, <2>4
<1>6. CASE \E t \in Tids : TaskRefused(t)
  BY <1>1, <1>6 DEF TaskRefused, TypeOK, TreeInv, Progress, Begotten, Whole,
     InOut, Root, tree
<1>7. CASE ListingFails
  <2>1. next \in 1..Len(asked) /\ Root \in Pids /\ Root \in seen
    BY <1>1, <1>7 DEF ListingFails, TypeOK, Progress, Root
  <2>2. TypeOK'
    BY <1>1, <1>7, <2>1 DEF ListingFails, TypeOK, TreeInv
  <2>3. \A n \in 1..next' - 1 : asked'[n] \in seen'
    BY <1>1, <1>7, <2>1 DEF ListingFails, Progress, Root
  <2>4. Progress'
    BY <1>7, <2>3 DEF ListingFails, Progress, InOut
  <2>5. Begotten' /\ Whole'
    BY <1>1, <1>7 DEF ListingFails, Begotten, Whole, InOut, tree
  <2> QED
    BY <1>1, <2>2, <2>4, <2>5
<1>8. CASE Absorb
  <2>1. InOut' = InOut \cup (kids \ seen)
    BY <1>8 DEF Absorb, InOut, TypeOK, Progress
  <2>2. TypeOK'
    BY <1>1, <1>8 DEF Absorb, TypeOK, TreeInv
  <2>3. Progress'
    BY <1>1, <1>8, <2>1 DEF Absorb, TypeOK, Progress, Root, InOut
  <2>4. Begotten'
    BY <1>1, <1>8, <2>1 DEF Absorb, Begotten, tree
  <2>5. Whole'
    BY <1>8, <2>1 DEF Absorb, Whole, tree
  <2> QED
    BY <1>1, <2>2, <2>3, <2>4, <2>5
<1> QED
  BY <1>3, <1>4, <1>5, <1>6, <1>7, <1>8

\* The invariant, for every instance.
THEOREM Invariance == Spec => []IInv
<1>1. IInv /\ [Next]_vars => IInv'
  <2> SUFFICES ASSUME IInv, [Next]_vars PROVE IInv'
    OBVIOUS
  <2>1. CASE WalkNext
    BY <2>1, RootsKeep, DescendKeeps DEF WalkNext
  <2>2. CASE Environment
    <3>1. TreeInv' /\ TreeMoves
      BY <2>2, TreeStep DEF Environment, IInv
    <3>2. TypeOK' /\ Progress'
      BY <2>2, <3>1 DEF Environment, walker, IInv, TypeOK, TreeInv, Progress,
         InOut, Root
    <3>3. Begotten'
      BY <2>2, <3>1 DEF Environment, walker, IInv, Begotten, InOut, Roots,
         TreeMoves
    <3>4. Whole'
      BY <2>2, <3>1 DEF Environment, walker, IInv, Whole, InOut, TreeMoves
    <3> QED
      BY <3>1, <3>2, <3>3, <3>4 DEF IInv
  <2>3. CASE UNCHANGED vars
    <3>1. TreeInv'
      BY <2>3, TreeStutter DEF vars, IInv
    <3> QED
      BY <2>3, <3>1 DEF vars, walker, tree, IInv, TypeOK, TreeInv, Progress,
         Begotten, Whole, InOut, Root, Roots
  <2> QED
    BY <2>1, <2>2, <2>3 DEF Next
<1> QED
  BY <1>1, InitInv, PTL DEF Spec

\* Every variable keeps its type: `next` never runs past the root list and
\* what is walked are process ids.
THEOREM TypeCorrect == Spec => []TypeOK
BY Invariance, PTL DEF IInv

\* No pid is walked or listed twice, whatever roots are asked for
\* (linux.rs:376, 416).
THEOREM TwiceProved == Spec => []NoPidTwice
<1>1. IInv => NoPidTwice
  BY DEF IInv, Progress, NoPidTwice
<1> QED
  BY <1>1, Invariance, PTL

\* Every root is walked or blamed (linux.rs:379-386).
THEOREM RootsProved == Spec => []EveryRootAnswered
<1>1. IInv => EveryRootAnswered
  <2> SUFFICES ASSUME IInv, Done, NEW n \in 1..Len(asked)
               PROVE  asked[n] \in InOut \cup unreadable
    BY DEF EveryRootAnswered, Roots
  <2>1. n \in 1..next - 1
    BY DEF IInv, TypeOK, Progress, Done
  <2> QED
    BY <2>1 DEF IInv, Progress
<1> QED
  BY <1>1, Invariance, PTL

\* Each asked root is walked or blamed, and no pid is listed twice (subtree).
THEOREM RootsOnceProved == Spec => []RootsAnsweredOnce
BY TwiceProved, RootsProved, PTL DEF RootsAnsweredOnce

\* Nobody is listed who was not met as a child of the listed
\* (linux.rs:412-423).
THEOREM BegottenProved == Spec => []ListedWasBegotten
<1>1. IInv => ListedWasBegotten
  BY DEF IInv, Begotten, ListedWasBegotten
<1> QED
  BY <1>1, Invariance, PTL

\* A walk that blamed nobody, and to which nothing was refused, has every
\* process that was tied to a root throughout (linux.rs:424-448).
THEOREM WholeProved == Spec => []WholeUnlessRefused
<1>1. IInv => WholeUnlessRefused
  <2> SUFFICES ASSUME IInv, Done, unreadable = {}, ~refused,
                      NEW d \in Descent(kept), d[1] \in Roots
               PROVE  d[2] \in InOut
    BY DEF WholeUnlessRefused, SubtreeWhole
  <2>1. seen = InOut
    BY DEF IInv, Progress
  <2>2. d[1] \in InOut
    <3>1. PICK n \in 1..Len(asked) : d[1] = asked[n]
      BY DEF Roots
    <3>2. n \in 1..next - 1
      BY DEF IInv, TypeOK, Progress, Done
    <3> QED
      BY <2>1, <3>1, <3>2 DEF IInv, Progress
  <2>3. \A e \in kept : e[1] \in InOut => e[2] \in InOut
    BY <2>1 DEF IInv, Whole, Progress, Done
  <2>4. InOut \in SUBSET Pids
    BY DEF InOut
  <2> QED
    BY <2>2, <2>3, <2>4 DEF Descent
<1> QED
  BY <1>1, Invariance, PTL

\* However long the host goes on, the walk has so much to do and every step
\* leaves less of it (linux.rs:412-423): the roots are a finite list and what
\* is met is a finite set of pids that only grows.
THEOREM RunsOutProved == Spec => WorkRunsOut
<1>1. IInv /\ [Next]_vars
        => [IF UNCHANGED tree THEN Closer ELSE UNCHANGED walker]_vars
  <2> SUFFICES ASSUME IInv, Next
               PROVE  IF UNCHANGED tree THEN Closer ELSE UNCHANGED walker
    BY DEF vars
  <2> USE DEF IInv
  <2>1. CASE Environment
    <3>1. events' = events + 1 /\ events \in Nat
      <4>1. events' = events + 1
        BY <2>1 DEF Environment, TreeNext, StartThread, EndThread, Fork, Exit, Remember
      <4> QED
        BY <4>1, MaxEventsAssumption DEF TypeOK, TreeTypeOK
    <3>2. ~UNCHANGED tree
      BY <3>1 DEF tree
    <3> QED
      BY <2>1, <3>2 DEF Environment
  <2>2. CASE SkipRoot \/ MissingRoot \/ ListingFails \/ RootWalked
    <3>1. next' = next + 1 /\ next \in Nat /\ UNCHANGED tree
      BY <2>2 DEF SkipRoot, MissingRoot, ListingFails, RootWalked, TypeOK
    <3> QED
      BY <3>1 DEF Closer
  <2>3. CASE EnterRoot
    <3>1. Root \in Pids \ seen /\ seen' = seen \cup {Root} /\ next' = next
      BY <2>3 DEF EnterRoot, Alive
    <3> QED
      BY <2>3, <3>1 DEF EnterRoot, Closer, Shrinks
  <2>4. CASE AllRoots
    BY <2>4 DEF AllRoots, Closer, Done
  <2>5. CASE \E p \in Pids : OpenTasks(p) \/ NoTasks(p)
    BY <2>5 DEF OpenTasks, NoTasks, Closer, Shrinks
  <2>6. CASE \E t \in Tids : ReadTask(t) \/ TaskRefused(t)
    BY <2>6 DEF ReadTask, TaskRefused, Closer, Shrinks
  <2>7. CASE Absorb
    <3>1. CASE kids \subseteq seen
      BY <2>7, <3>1 DEF Absorb, Closer
    <3>2. CASE ~(kids \subseteq seen)
      <4>1. Shrinks(Pids \ seen', Pids \ seen)
        BY <2>7, <3>2 DEF Absorb, Shrinks, TypeOK
      <4> QED
        BY <2>7, <4>1 DEF Absorb, Closer
    <3> QED
      BY <3>1, <3>2
  <2> QED
    BY <2>1, <2>2, <2>3, <2>4, <2>5, <2>6, <2>7 DEF Next, WalkNext
<1> QED
  BY <1>1, Invariance, PTL DEF Spec, WorkRunsOut

=============================================================================
