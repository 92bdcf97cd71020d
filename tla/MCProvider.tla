------------------------------ MODULE MCProvider ------------------------------
(***************************************************************************)
(* An instance of Provider for TLC.                                        *)
(***************************************************************************)
EXTENDS Provider, MCClusterController
=============================================================================
