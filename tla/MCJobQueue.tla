----------------------------- MODULE MCJobQueue -----------------------------
(***************************************************************************)
(* Small instances of JobQueue.                                            *)
(***************************************************************************)
EXTENDS JobQueue

CONSTANTS j1, j2, o1, o2

\* Feed updates, and favicons: between them they differ in the pool they use and
\* in whether they are counted.
FeedFlags == [feed |-> TRUE, prio |-> FALSE]
IconFlags == [feed |-> FALSE, prio |-> TRUE]

TwoFlags == {FeedFlags, IconFlags}
=============================================================================
