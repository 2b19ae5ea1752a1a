----------------------------- MODULE MCStaking -----------------------------
(* Instances of Staking.                                                   *)
EXTENDS Staking
=============================================================================
