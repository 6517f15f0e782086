--------------------------- MODULE MCUhubctlParser ---------------------------
(***************************************************************************)
(* UhubctlParser on every output of a few lines.                           *)
(***************************************************************************)
EXTENDS UhubctlParser
===============================================================================
