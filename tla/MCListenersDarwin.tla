------------------------- MODULE MCListenersDarwin -------------------------
(* ListenersDarwin for TLC: on one port a dual-stack listener and one of      *)
(* IPv4 alone, and a connection that was accepted from the latter.            *)
EXTENDS ListenersDarwin

MCSocketOf ==
  [i \in Inodes |->
     [port   |-> 1,
      family |-> IF i = 3 THEN "inet" ELSE "inet6",
      vflag  |-> IF i = 1 THEN {"v4", "v6"} ELSE {"v4"}]]

=============================================================================
