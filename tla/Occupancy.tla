----------------------------- MODULE Occupancy -----------------------------
(***************************************************************************)
(* What one `osfacts socket-holders PATH` document promises, with no word  *)
(* on how a platform finds it out: while the host keeps moving, one answer *)
(* is given, once, and it is true of the ask.  Both sensors, linux.rs and  *)
(* darwin.rs, are shown to implement it.                                   *)
(***************************************************************************)
EXTENDS UnixSockets

CONSTANTS
  ProvesAbsence,   \* the platform can read a table of bound sockets
  MayBeUnclaimed   \* ... and so may see a socket whose holder it cannot

ASSUME SensorAssumption ==
  ProvesAbsence \in BOOLEAN /\ MayBeUnclaimed \in BOOLEAN

VARIABLE answer

\* The three answers a caller must keep apart, plus the holders themselves.
Asking     == [kind |-> "asking", pids |-> {}]
Nobody     == [kind |-> "none", pids |-> {}]
Unclaimed  == [kind |-> "unclaimed", pids |-> {}]
Blind      == [kind |-> "blind", pids |-> {}]
Claimed(S) == [kind |-> "claimed", pids |-> S]

Answers == {Asking, Nobody, Unclaimed, Blind}
             \cup {Claimed(S) : S \in (SUBSET Pids) \ {{}}}

EverHeld(p) == \E i \in Inodes : <<p, i>> \in ever

\* An answer is true of the ask: nobody was there for the whole of it; or
\* something was bound at some instant of it; or each pid was a holder then.
TrueOfAsk(a) ==
  \/ a = Nobody /\ ProvesAbsence /\ lasting = {}
  \/ a = Unclaimed /\ MayBeUnclaimed /\ sighted # {}
  \/ \E S \in (SUBSET Pids) \ {{}} :
       a = Claimed(S) /\ \A p \in S : EverHeld(p)
  \/ a = Blind

OccupancyInit == HostInit /\ answer = Asking

Answer ==
  /\ answer = Asking
  /\ \E a \in Answers : TrueOfAsk(a) /\ answer' = a
  /\ UNCHANGED env

OccupancyNext == Answer \/ (HostNext /\ UNCHANGED answer)

OccupancySpec == OccupancyInit /\ [][OccupancyNext]_<<env, answer>>

=============================================================================
