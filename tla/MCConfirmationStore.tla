------------------------- MODULE MCConfirmationStore -------------------------
(***************************************************************************)
(* Model-checking instances of ConfirmationStore.                          *)
(***************************************************************************)
EXTENDS ConfirmationStore, TLC

\* Every request over the given principals, tools and arguments.
AllRequests == [principal : Principals, tool : Tools, args : Args]

\* Principals, tools, arguments and threads are interchangeable: no definition
\* names one of them, and the runs that use the symmetry check safety only.
Symmetry ==
  Permutations(Principals) \cup Permutations(Tools)
    \cup Permutations(Args) \cup Permutations(Threads)
===============================================================================
