------------------------- MODULE MCReadingStatsStore -------------------------
(* Small instances of ReadingStatsStore for TLC. *)
EXTENDS ReadingStatsStore, TLC

CONSTANTS b1, b2, b3

\* A hand-made JSON: one book more than the cap, no totals, and one book three
\* times: once while it has its place, and once when it has lost it.
Json(k, secs, last) ==
  [key |-> k,
   val |-> [known |-> TRUE, secs |-> secs, sess |-> 1, fin |-> 1, last |-> last]]
MCLegacyBooks == <<Json(b1, 1, 2), Json(b2, 2, 1), Json(b2, 3, 2), Json(b3, 1, 2), Json(b2, 3, 2)>>
MCLegacyTotals == [secs |-> 0, sess |-> 0]

\* A card with no older firmware's JSON, and one with it.
NewCard == Init /\ legacy = "none"
ToImport == Init /\ legacy # "none"

NewCardSpec == NewCard /\ [][Next]_vars

\* On the card with the JSON, a slot may go bad between calls before the first
\* update; in a run to generation 3 two updates follow it.
RotOneSlot ==
  /\ LiveMeta(file).seq = 1
  /\ \A i \in Used(LiveMeta(file).dir) : file.slot[LiveMeta(file).dir[i].slot].sound
  /\ RotSlot
RotNext == Next \/ RotOneSlot
ImportSpec == ToImport /\ [][RotNext]_vars

BookSymmetry == Permutations(Books)

=============================================================================
