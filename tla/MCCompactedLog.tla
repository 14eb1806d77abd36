--------------------------- MODULE MCCompactedLog ---------------------------
(***************************************************************************)
(* Logs of up to three entries of two terms and two commands, for TLC.     *)
(***************************************************************************)
EXTENDS CompactedLog

CONSTANTS c1, c2

=============================================================================
