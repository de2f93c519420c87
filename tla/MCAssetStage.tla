------------------------------ MODULE MCAssetStage ------------------------------
(***************************************************************************)
(* Model-checking instance of AssetStage: one actor with two tokens, so    *)
(* that the quota, which is the actor's, and the ownership, which is the   *)
(* token's, differ.                                                        *)
(***************************************************************************)
EXTENDS AssetStage, TLC

CONSTANTS Actors, Seats

AllPrincipals == [actor : Actors, seat : Seats]

\* Safety only; no definition names a thread, an actor or a seat.
Symmetry == Permutations(Threads) \cup Permutations(Actors) \cup Permutations(Seats)
===============================================================================
