------------------------- MODULE MCActivityManager -------------------------
(* TLC instance of ActivityManager: three activities may exist at once, one   *)
(* of them below the current one.                                             *)
EXTENDS ActivityManager
MCInstances == 1..3
=============================================================================
