----------------------------- MODULE MCStaking -----------------------------
(* Instances of Staking for TLC.                                            *)
EXTENDS Staking, TLC

OnePlan == {1 :> 1 @@ 2 :> 2}

GenesisPlans == <<2, 1>>

=============================================================================
