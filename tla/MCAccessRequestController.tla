--------------------- MODULE MCAccessRequestController ---------------------
(***************************************************************************)
(* Instances of AccessRequestController for TLC.                           *)
(***************************************************************************)
EXTENDS AccessRequestController, TLC

CONSTANTS c1, c2, r1
=============================================================================
