--------------------------- MODULE MCBookmarkSync ---------------------------
(* Small instances of BookmarkSync for TLC. *)
EXTENDS BookmarkSync, TLC

CONSTANTS p1, p2

=============================================================================
