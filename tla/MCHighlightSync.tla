--------------------------- MODULE MCHighlightSync ---------------------------
(* Small instances of HighlightSync for TLC. *)
EXTENDS HighlightSync, TLC

CONSTANTS p1, p2

=============================================================================
