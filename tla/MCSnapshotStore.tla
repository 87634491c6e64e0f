--------------------------- MODULE MCSnapshotStore ---------------------------
(* Instances of SnapshotStore for TLC.                                     *)
EXTENDS SnapshotStore, TLC

\* Contents are compared only with each other.
DocSymmetry == Permutations(Docs)

CrashFaults == {"crash", "lost_file"}

\* Everything that leaves a disk which a start-up must sort out, short of a
\* write that failed under a process that lived on and of lost writes.
DamageFaults == FaultKinds \ {"io_error", "power"}

AllFaults == FaultKinds

TornLineFaults == {"crash", "torn_line"}

IoErrorFaults == {"io_error"}
==============================================================================
