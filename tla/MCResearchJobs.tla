--------------------------- MODULE MCResearchJobs ---------------------------
(***************************************************************************)
(* Finite instances of ResearchJobs for TLC.                               *)
(***************************************************************************)
EXTENDS ResearchJobs

CONSTANTS j1, j2, j3

TwoJobs   == {j1, j2}
ThreeJobs == {j1, j2, j3}
=============================================================================
