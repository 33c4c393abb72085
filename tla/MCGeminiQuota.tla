--------------------------- MODULE MCGeminiQuota ----------------------------
(***************************************************************************)
(* Instances of GeminiQuota for TLC.                                       *)
(***************************************************************************)
EXTENDS GeminiQuota

CONSTANTS c1, c2, c3, c4
=============================================================================
