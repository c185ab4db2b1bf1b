----------------------------- MODULE NodeSetupMC ----------------------------
(* NodeSetup with the values of its constants for TLC.                      *)
EXTENDS NodeSetup

CONSTANTS m1, m2
=============================================================================
