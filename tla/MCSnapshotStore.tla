--------------------------- MODULE MCSnapshotStore ---------------------------
(* Two workers, two keys and two values to model-check SnapshotStore with. *)
EXTENDS SnapshotStore

\* A local run, an update run of all tests, the same in CI, and plain CI.
Modes ==
  { [update |-> FALSE, ci |-> FALSE, full |-> TRUE],
    [update |-> TRUE,  ci |-> FALSE, full |-> TRUE],
    [update |-> TRUE,  ci |-> TRUE,  full |-> TRUE],
    [update |-> FALSE, ci |-> TRUE,  full |-> FALSE] }
=============================================================================
