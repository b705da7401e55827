--------------------------- MODULE MCStatsUpload ---------------------------
(* TLC instance of StatsUpload: every constant is a number given in the cfg. *)
EXTENDS StatsUpload
=============================================================================
