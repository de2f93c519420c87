----------------------------- MODULE MCDocsCorpus -----------------------------
(***************************************************************************)
(* Model-checking instance of DocsCorpus.                                  *)
(***************************************************************************)
EXTENDS DocsCorpus, TLC

CONSTANTS p1, p2, s1, s2

\* One project to begin with; an edit moves it, removes it or adds the other.
OneServed == p1 :> s1 @@ p2 :> NoSpec
===============================================================================
