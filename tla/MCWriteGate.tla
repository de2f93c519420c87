------------------------------ MODULE MCWriteGate ------------------------------
(***************************************************************************)
(* Model-checking instance of WriteGate.                                   *)
(***************************************************************************)
EXTENDS WriteGate, TLC

\* Every request over the given principals, tools and arguments.
AllRequests == [principal : Principals, tool : Tools, args : Args]

\* Safety only, and no definition names a principal, tool, argument or thread.
Symmetry ==
  Permutations(Principals) \cup Permutations(Tools)
    \cup Permutations(Args) \cup Permutations(Threads)
===============================================================================
