------------------------- MODULE MCOfficialCapture --------------------------
(* Instances of OfficialCapture for TLC. *)
EXTENDS OfficialCapture
=============================================================================
