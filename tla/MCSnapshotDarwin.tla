-------------------------- MODULE MCSnapshotDarwin --------------------------
(* SnapshotDarwin for TLC: asks that between them name every facet, and no   *)
(* facet apart from the one its read or its timebase is shared with.         *)
EXTENDS SnapshotDarwin

MCAsks == {{"proc", "status"}, {"mem", "cpu_time"}, {"start_time", "argv"},
           {"uid", "cwd"}}

=============================================================================
