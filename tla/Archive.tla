------------------------------- MODULE Archive -------------------------------
(***************************************************************************)
(* What the archive promises, with no journal, no files and no requests:   *)
(* an append-only sequence of archival packages.  A package that was kept  *)
(* is never lost, replaced or reordered, and a running service answers     *)
(* reads from exactly what was kept, one package late at most (the one     *)
(* being ingested).                                                        *)
(***************************************************************************)
EXTENDS Naturals, Sequences

CONSTANT Packages   \* the exact bytes a snapshot id can stand for

VARIABLES
    kept,     \* every package accepted, in sequence order
    served,   \* what a running service answers reads from
    up        \* whether a service is running

vars == <<kept, served, up>>

Init ==
    /\ kept = <<>>
    /\ served = <<>>
    /\ up = FALSE

\* A package is accepted: it takes the next sequence number for good.
Ingest(p) ==
    /\ up
    /\ served = kept
    /\ kept' = Append(kept, p)
    /\ UNCHANGED <<served, up>>

\* Reads see everything that was kept.
Publish ==
    /\ up
    /\ served' = kept
    /\ UNCHANGED <<kept, up>>

\* The service stops or crashes; what was kept stays.
Stop ==
    /\ up
    /\ up' = FALSE
    /\ served' = <<>>
    /\ UNCHANGED kept

\* The service starts again and serves all that was kept.
Start ==
    /\ ~up
    /\ up' = TRUE
    /\ served' = kept
    /\ UNCHANGED kept

Next ==
    \/ \E p \in Packages : Ingest(p)
    \/ Publish
    \/ Stop
    \/ Start

Spec == Init /\ [][Next]_vars
==============================================================================
