--------------------------- MODULE MCDocsProposals ---------------------------
(***************************************************************************)
(* Model-checking instance of DocsProposals.                               *)
(***************************************************************************)
EXTENDS DocsProposals, TLC

\* Threads, callers and repositories are interchangeable.
Symmetry == Permutations(Threads) \cup Permutations(Actors) \cup Permutations(Repos)
===============================================================================
