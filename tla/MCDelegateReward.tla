-------------------------- MODULE MCDelegateReward --------------------------
(* An instance of DelegateReward for TLC.                                   *)
EXTENDS DelegateReward

Symmetry == Permutations(Delegators)

=============================================================================
