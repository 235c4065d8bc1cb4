--------------------------- MODULE MCSnapshotLinux ---------------------------
(* Asks that need every file, that share stat, that need statm, or no stat. *)
EXTENDS SnapshotLinux

MCAsks == {Facets \ {"cwd", "uid"}, {"start_time"}, {"mem", "argv"},
           {"mem", "cpu_time"}, {"uid", "cwd"}}

=============================================================================
