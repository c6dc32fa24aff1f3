--------------------------- MODULE MCChainConsensus ---------------------------
(* A block tree with a fork at every height for ChainConsensus. *)
EXTENDS ChainConsensus, TLC

CONSTANTS v1, v2, v3, v4, g, a1, b1, a2, b2, a3

MCParent == a1 :> g @@ b1 :> g @@ a2 :> a1 @@ b2 :> b1 @@ a3 :> a2
MCNumber == g :> 0 @@ a1 :> 1 @@ b1 :> 1 @@ a2 :> 2 @@ b2 :> 2 @@ a3 :> 3

\* Honest validators are interchangeable here: nothing depends on who proposes.
HonestSymmetry == Permutations({v1, v2, v3})
=============================================================================
