----------------------------- MODULE MCTrackerCalls -----------------------------
(***************************************************************************)
(* TrackerCalls with two trackers, for TLC.  Actors, threads and master    *)
(* keys are interchangeable; trackers are not.                             *)
(***************************************************************************)
EXTENDS TrackerCalls, TLC

CONSTANTS GitLab

MCBackends == {Redmine, GitLab}

MCSymmetry == Permutations(Actors) \cup Permutations(Portal) \cup Permutations(Callers) \cup Permutations(Keys)
===============================================================================
