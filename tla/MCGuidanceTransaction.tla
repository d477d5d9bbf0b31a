------------------------ MODULE MCGuidanceTransaction ------------------------
(***************************************************************************)
(* Instances of GuidanceTransaction for TLC.                               *)
(***************************************************************************)
EXTENDS GuidanceTransaction

=============================================================================
