----------------------- MODULE MCSocketHoldersLinux -----------------------
(* SocketHoldersLinux for TLC: inodes are numbers and hash by their parity. *)
EXTENDS SocketHoldersLinux

MCBucketOf == [i \in Inodes |-> i % (LastBucket + 1)]

=============================================================================
