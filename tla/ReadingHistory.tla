---------------------------- MODULE ReadingHistory ----------------------------
(***************************************************************************)
(* The reading history as a value, and the arithmetic one update does to   *)
(* it (ReadingStatsStore's applySession, applyFinish, takeOut and eviction *)
(* order).  Shared by the abstract history (StatsHistory) and by the store *)
(* that keeps it in a slot file (ReadingStatsStore).  Titles, authors,     *)
(* pages, progress and the day buckets are left out.                       *)
(***************************************************************************)
EXTENDS Naturals, FiniteSets

CONSTANTS
  Books,        \* document ids (KOReader hashes)
  NoKey,        \* the all-zero document id of an unused directory entry
  Cap,          \* kMaxBooks: books the history keeps
  SessionSecs,  \* lengths a session may have, in seconds
  Epochs        \* wall-clock times; 0 is "clock unknown"

ASSUME BooksAssumption == NoKey \notin Books
ASSUME CapAssumption == Cap \in Nat \ {0}
ASSUME InputAssumption == SessionSecs \subseteq Nat /\ Epochs \subseteq Nat

Smaller(a, b) == IF a < b THEN a ELSE b
Larger(a, b) == IF a < b THEN b ELSE a

-----------------------------------------------------------------------------
(* A book's figures, the totals and the requests.                          *)

BookVal == [known : BOOLEAN, secs : Nat, sess : Nat, fin : Nat, last : Nat]
NewBook == [known |-> FALSE, secs |-> 0, sess |-> 0, fin |-> 0, last |-> 0]

Totals == [secs : Nat, sess : Nat]
NoTotals == [secs |-> 0, sess |-> 0]

History == [books : [Books -> BookVal], totals : Totals]
EmptyHistory == [books |-> [b \in Books |-> NewBook], totals |-> NoTotals]

NoReq == [op |-> "none", key |-> NoKey, secs |-> 0, at |-> 0]
Requests ==
       [op : {"session"}, key : Books, secs : SessionSecs, at : Epochs]
  \cup [op : {"finish"}, key : Books, secs : {0}, at : Epochs]
  \cup [op : {"remove"}, key : Books, secs : {0}, at : {0}]
  \cup [op : {"summary"}, key : {NoKey}, secs : {0}, at : {0}]

Replies == {"none", "Done", "NotFound", "Failed"}

-----------------------------------------------------------------------------
(* The arithmetic of one update.                                           *)

\* applySession / applyFinish: the book after the request.
Merged(book, r) ==
  IF r.op = "session"
  THEN [book EXCEPT !.known = TRUE,
                    !.secs = @ + r.secs,
                    !.sess = @ + (IF r.secs > 0 THEN 1 ELSE 0),
                    !.last = IF r.at # 0 THEN r.at ELSE @]
  ELSE [book EXCEPT !.known = TRUE,
                    !.fin = @ + 1,
                    !.last = Larger(@, r.at)]

\* applySession: what the request adds to the totals (a finish adds nothing).
Added(totals, r) ==
  [secs |-> totals.secs + r.secs,
   sess |-> totals.sess + (IF r.op = "session" /\ r.secs > 0 THEN 1 ELSE 0)]

\* takeOut: a removed book's figures leave the totals, never below zero.
TakenOut(totals, book) ==
  [secs |-> totals.secs - Smaller(totals.secs, book.secs),
   sess |-> totals.sess - Smaller(totals.sess, book.sess)]

\* The eviction order: least recently read, then less time.
EvictsBefore(a, b) ==
  \/ a.last < b.last
  \/ a.last = b.last /\ a.secs < b.secs

=============================================================================
