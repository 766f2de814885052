--------------------------- MODULE MCJobListRace ----------------------------
(***************************************************************************)
(* A small instance of JobListRace: the main loop and one worker thread    *)
(* that frees cancelled jobs.                                              *)
(***************************************************************************)
EXTENDS JobListRace

CONSTANTS j1, j2, j3, j4, loop, worker, nil
=============================================================================
