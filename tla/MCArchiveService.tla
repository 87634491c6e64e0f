-------------------------- MODULE MCArchiveService --------------------------
(* An instance of ArchiveService for TLC: a request, its repetition by the  *)
(* same client, and a stranger's.                                           *)
EXTENDS ArchiveService, TLC

CONSTANTS attempt, retry, other, c1, c2

MCRequests == {attempt, retry, other}
MCContent == [r \in MCRequests |-> IF r = other THEN c2 ELSE c1]
MCDocs == [sip : MCRequests, anchor : 0 .. 3]
MCFaults == {"crash", "torn_file"}

\* The two attempts of one client are alike.
AttemptSymmetry == Permutations({attempt, retry})
==============================================================================
