---------------------------- MODULE MCHubMirror ----------------------------
(* HubMirror for TLC.                                                      *)
EXTENDS HubMirror
=============================================================================
