---------------------------- MODULE MCHubPush ----------------------------
(* The instance of HubPush that TLC checks. *)
EXTENDS HubPush
=============================================================================
