---------------------------- MODULE MCBlockLoop ----------------------------
(* The instance of BlockLoop that TLC checks.                              *)
EXTENDS BlockLoop
=============================================================================
