----------------------------- MODULE MCArchiveApi -----------------------------
(* Instances of ArchiveApi for TLC.                                        *)
EXTENDS ArchiveApi, TLC

\* Requests are compared only with each other; not used with liveness.
RequestSymmetry == Permutations(Requests)

AllDisruptions == DisruptionKinds

\* The clock only goes forward.
Forward == DisruptionKinds \ {"clock_back"}

NoDisruptions == {}
==============================================================================
