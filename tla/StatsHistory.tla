----------------------------- MODULE StatsHistory -----------------------------
(***************************************************************************)
(* What ReadingStatsStore promises its callers, without files: a reading   *)
(* history that every update changes completely or not at all, whatever    *)
(* the card or the power does.                                             *)
(***************************************************************************)
EXTENDS ReadingHistory

VARIABLES
  hist,   \* the reading history
  req,    \* the request being served, NoReq when none is
  reply   \* the last answer given to a caller

vars == <<hist, req, reply>>

-----------------------------------------------------------------------------
(* A whole request as one atomic change of the history.                    *)

Known(h) == {b \in Books : h.books[b].known}

Victims(h) ==
  {b \in Known(h) : \A c \in Known(h) : ~EvictsBefore(h.books[c], h.books[b])}

Put(h, r) ==
  [books  |-> [h.books EXCEPT ![r.key] = Merged(@, r)],
   totals |-> Added(h.totals, r)]

Without(h, b) == [h EXCEPT !.books[b] = NewBook]

\* The histories an update may leave.  Eviction keeps the evicted book's time
\* in the totals; removal takes it out.
Effects(h, r) ==
  CASE r.op = "remove" ->
         IF h.books[r.key].known
         THEN {[Without(h, r.key) EXCEPT
                  !.totals = TakenOut(@, h.books[r.key])]}
         ELSE {h}
    [] r.op \in {"session", "finish"} ->
         IF h.books[r.key].known
         THEN {Put(h, r)}
         ELSE IF r.op = "session" /\ r.secs = 0 THEN {h}
         ELSE IF Cardinality(Known(h)) < Cap THEN {Put(h, r)}
         ELSE {Put(Without(h, v), r) : v \in Victims(h)}
    [] OTHER -> {h}

-----------------------------------------------------------------------------

Init ==
  /\ hist = EmptyHistory
  /\ req = NoReq
  /\ reply = "none"

Ask(r) ==
  /\ req = NoReq
  /\ req' = r
  /\ reply' = "none"
  /\ UNCHANGED hist

\* Done is answered in the step that makes the update durable.
AnswerDone ==
  /\ req # NoReq
  /\ req' = NoReq /\ reply' = "Done"
  /\ hist' \in Effects(hist, req)

AnswerNotFound ==
  /\ req.op = "remove"
  /\ req' = NoReq /\ reply' = "NotFound"
  /\ ~hist.books[req.key].known
  /\ UNCHANGED hist

\* A failed call applies its update completely or not at all.
AnswerFailed ==
  /\ req # NoReq
  /\ req' = NoReq /\ reply' = "Failed"
  /\ hist' = hist \/ hist' \in Effects(hist, req)

\* So does a power cut.
PowerCut ==
  /\ req' = NoReq /\ reply' = "none"
  /\ \/ hist' = hist
     \/ req # NoReq /\ hist' \in Effects(hist, req)

\* The one-off import of the older firmware's file, into an empty history.
Import ==
  /\ UNCHANGED <<req, reply>>
  /\ hist = EmptyHistory
  /\ hist' \in History

\* The card loses what it holds of one book alone; its time, finishes and date
\* are kept elsewhere too.
Lose(b) ==
  /\ req = NoReq
  /\ hist.books[b].known
  /\ hist' = [hist EXCEPT !.books[b].sess = 0]
  /\ UNCHANGED <<req, reply>>

Next ==
  \/ \E r \in Requests : Ask(r)
  \/ AnswerDone
  \/ AnswerNotFound
  \/ AnswerFailed
  \/ PowerCut
  \/ Import

Spec == Init /\ [][Next]_vars

LossyNext == Next \/ \E b \in Books : Lose(b)
LossySpec == Init /\ [][LossyNext]_vars

=============================================================================
