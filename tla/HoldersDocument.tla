-------------------------- MODULE HoldersDocument --------------------------
(***************************************************************************)
(* The `socket-holders` document of src/src/schema.rs, after `normalize`:  *)
(* rows sorted and deduplicated, so each block is a set.                   *)
(***************************************************************************)
EXTENDS Integers

CONSTANTS
  Pids,     \* pids a row may carry
  Sources   \* names of the OS sources an `E socket_holders` row may blame

Document == [claimed: SUBSET Pids,     \* H claimed <pid>
             unclaimed: BOOLEAN,       \* H unclaimed -
             procs: SUBSET Pids,       \* P <pid> ...
             unreadable: SUBSET Pids,  \* U <pid> proc ...
             errors: SUBSET Sources]   \* E <source> socket_holders ...

EmptyDocument == [claimed |-> {}, unclaimed |-> FALSE, procs |-> {},
                  unreadable |-> {}, errors |-> {}]

BlindDocument(source) == [EmptyDocument EXCEPT !.errors = {source}]

HasFacts(doc) ==
  doc.claimed # {} \/ doc.unclaimed \/ doc.procs # {} \/ doc.unreadable # {}

ExitCode(doc) == IF doc.errors = {} \/ HasFacts(doc) THEN 0 ELSE 1

=============================================================================
