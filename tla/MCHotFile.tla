------------------------------- MODULE MCHotFile -------------------------------
(***************************************************************************)
(* Model-checking instance of HotFile: no symmetry, since it checks        *)
(* liveness too.                                                           *)
(***************************************************************************)
EXTENDS HotFile
===============================================================================
