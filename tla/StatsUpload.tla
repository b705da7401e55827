---------------------------- MODULE StatsUpload ----------------------------
(***************************************************************************)
(* The reading events of one book: stamped with the device's clock at each *)
(* page turn, queued on the card when the session ends, corrected and      *)
(* uploaded in batches at a sync (src/src/ReadingSessionTracker.cpp,       *)
(* src/lib/BookOrbitSync/BookOrbitStatsQueue.cpp, uploadQueuedStats of     *)
(* src/src/bookorbit/BookOrbitSyncExtras.cpp), over the clock of WallClock.*)
(***************************************************************************)
EXTENDS WallClock, Sequences

CONSTANTS BatchSize,  \* events of one request
          MaxQueued,  \* MAX_QUEUED_EVENTS
          MaxEvents   \* BOUND: page turns

ASSUME UploadAssumption == {BatchSize, MaxQueued, MaxEvents} \subseteq Nat \ {0}

VARIABLES
  pending,  \* the session's events, in RAM
  queue,    \* bookorbit_stats.bin
  ending,   \* a session has queued its events and not yet checkpointed
  upload,   \* the upload in progress
  accepted, \* history: <<true time, time the server was given>> of events still queued
  read      \* counter of the bound MaxEvents

vars == <<clockVars, pending, queue, ending, upload, accepted, read>>

\* An event; at (its true start) and syncs (the syncs since) are history.
Event == [start : Nat, era : Nat, at : Nat, syncs : Nat]
Idle == [on |-> FALSE, offset |-> 0, total |-> 0, instant |-> 0, previous |-> 0,
         sent |-> {}, refused |-> FALSE]

Smaller(a, b) == IF a <= b THEN a ELSE b
Larger(a, b) == IF a <= b THEN b ELSE a
Elements(s) == {s[i] : i \in DOMAIN s}

Init ==
  /\ ClockInit
  /\ pending = <<>> /\ queue = <<>> /\ ending = FALSE /\ upload = Idle
  /\ accepted = {} /\ read = 0

-----------------------------------------------------------------------------
(* Reading. *)

\* captureBookOrbitEvent for a page read for one tick.
TurnPage ==
  /\ ~ending /\ ~upload.on /\ read < MaxEvents
  /\ TimePasses
  /\ pending' = Append(pending,
       [start |-> IF clock' > 1 THEN clock' - 1 ELSE clock', era |-> state.era,
        at |-> real, syncs |-> 0])
  /\ read' = read + 1
  /\ UNCHANGED <<queue, ending, upload, accepted>>

AppendedAll == queue \o pending

\* appendBatch: beyond the cap the oldest are dropped.
Appended ==
  LET all == queue \o pending
      first == Larger(1, Len(all) - MaxQueued + 1)
  IN SubSeq(all, first, Len(all))

\* end() queues the events and then checkpoints the clock.
EndSession ==
  /\ ~ending /\ ~upload.on
  /\ queue' = Appended
  /\ pending' = <<>>
  /\ ending' = TRUE
  /\ UNCHANGED <<clockVars, upload, accepted, read>>

SaveTime ==
  /\ ending
  /\ Checkpoint
  /\ ending' = FALSE
  /\ UNCHANGED <<pending, queue, upload, accepted, read>>

-----------------------------------------------------------------------------
(* uploadQueuedStats. *)

BeginUpload ==
  /\ ~upload.on /\ pending = <<>> /\ ~ending
  /\ queue # <<>>
  /\ upload' = [Idle EXCEPT !.on = TRUE, !.total = Smaller(Len(queue), MaxQueued),
                            !.instant = IF IsPlausible(clock) THEN clock ELSE 0]
  /\ UNCHANGED <<clockVars, pending, queue, ending, accepted, read>>

CorrectedFreely(e, previous) ==
  LET shifted == e.start + CorrectionFor(e.era, e.start)
  IN IF upload.instant # 0 THEN Smaller(shifted, upload.instant) ELSE shifted

\* The time an event of a measured era is uploaded with.
Corrected(e, previous) ==
  LET shifted == e.start + CorrectionFor(e.era, e.start)
      capped == IF upload.instant # 0 THEN Smaller(shifted, upload.instant) ELSE shifted
  IN Larger(capped, previous)

Undatable(e) == ~Measured(e.era) /\ ~IsPlausible(e.start)

Uploaded(e, previous) == IF Measured(e.era) THEN Corrected(e, previous) ELSE e.start

\* The events of the batch, the stamps they leave one after the other, and
\* what is sent of them; place is an event's position in the queue.
Batch == SubSeq(queue, upload.offset + 1, Smaller(upload.offset + BatchSize, Len(queue)))
Stamps[i \in 0..Len(Batch)] ==
  IF i = 0 THEN upload.previous ELSE Uploaded(Batch[i], Stamps[i - 1])
Stamped == {[place |-> upload.offset + i, event |-> Batch[i], start |-> Stamps[i]] :
              i \in 1..Len(Batch)}
Datable == {x \in Stamped : ~Undatable(x.event)}

Continued(sent) ==
  [upload EXCEPT !.offset = @ + BatchSize, !.previous = Stamps[Len(Batch)],
                 !.sent = @ \cup sent]

\* A batch nothing of which can be dated is passed over without a request.
SkipBatch ==
  /\ upload.on /\ upload.offset < upload.total
  /\ Datable = {}
  /\ upload' = Continued({})
  /\ UNCHANGED <<clockVars, pending, queue, ending, accepted, read>>

Sending ==
  /\ upload.on /\ upload.offset < upload.total
  /\ Datable # {}
Received == {<<x.event.at, x.start>> : x \in Datable}

SendBatch ==
  /\ Sending
  /\ upload' = Continued(Datable)
  /\ accepted' = accepted \cup Received
  /\ UNCHANGED <<clockVars, pending, queue, ending, read>>

KeptAfterBatch == SubSeq(queue, upload.offset + BatchSize + 1, Len(queue))

\* The request fails, or its answer is lost: the whole queue is kept.
Kept == queue
FailedBatch ==
  /\ Sending
  /\ upload' = Idle
  /\ queue' = Kept
  /\ accepted' \in {accepted, accepted \cup Received}
  /\ UNCHANGED <<clockVars, pending, ending, read>>

\* The server answers that it has no such endpoint.
RefusedBatch ==
  /\ Sending
  /\ upload' = [Idle EXCEPT !.refused = TRUE]
  /\ queue' = <<>>
  /\ accepted' = {}
  /\ UNCHANGED <<clockVars, pending, ending, read>>

FinishUpload ==
  /\ upload.on /\ upload.offset >= upload.total
  /\ queue' = <<>>
  /\ upload' = Idle
  /\ accepted' = {}
  /\ UNCHANGED <<clockVars, pending, ending, read>>

-----------------------------------------------------------------------------
(* The clock's operations. *)

Resynced(s) == [i \in DOMAIN s |-> [s[i] EXCEPT !.syncs = @ + (IF s[i].era = state.era THEN 1 ELSE 0)]]
Sync ==
  /\ ~ending /\ ~upload.on
  /\ NtpSync
  /\ queue' = Resynced(queue)
  /\ pending' = Resynced(pending)
  /\ UNCHANGED <<ending, upload, accepted, read>>

Idling ==
  /\ ~ending /\ ~upload.on
  /\ \/ TimePasses
     \/ ApplyClientTime
  /\ UNCHANGED <<pending, queue, ending, upload, accepted, read>>

\* Only sleep lets the session end first; RAM is lost in every restart.
Restart ==
  /\ \/ /\ pending = <<>> /\ ~ending /\ ~upload.on
        /\ \E keepLp \in BOOLEAN : Sleep(keepLp)
     \/ Reset
     \/ \E erased \in BOOLEAN : PowerLoss(erased)
  /\ pending' = <<>>
  /\ ending' = FALSE
  /\ upload' = Idle
  /\ UNCHANGED <<queue, accepted, read>>

Next ==
  \/ TurnPage \/ EndSession \/ SaveTime
  \/ BeginUpload \/ SkipBatch \/ SendBatch \/ FailedBatch \/ RefusedBatch \/ FinishUpload
  \/ Sync \/ Idling \/ Restart

Spec == Init /\ [][Next]_vars

-----------------------------------------------------------------------------
TypeOK ==
  /\ ClockTypeOK
  /\ \A s \in {pending, queue} : Elements(s) \subseteq Event
  /\ Len(queue) <= MaxQueued
  /\ ending \in BOOLEAN
  /\ upload.on => upload.total = Len(queue)
  /\ read \in 0..MaxEvents

\* The uploads the next two properties speak of: this era's clock has been
\* measured, nothing has moved it inside an era, and no event has been through
\* more than one sync.
Trusted ==
  /\ ~stepped /\ Measured(state.era)
  /\ \A x \in upload.sent : x.event.syncs <= 1

\* Extras.cpp:39, "each event gets the correction WallClock measured for ITS
\* era": what the server is told of an event of a measured era is the truth up
\* to drift.
Dated ==
  Trusted => \A x \in upload.sent :
    Measured(x.event.era) => x.start - x.event.at \in -drift..drift

\* Extras.cpp:47, "the queue is chronological": the upload of a queue whose
\* events are of measured eras, but for a first few that nothing can date,
\* never goes back in time, across batches, eras and what restarts did to the
\* clock.
Correctable ==
  \A i \in DOMAIN queue :
    Measured(queue[i].era) \/ \A j \in 1..i : Undatable(queue[j])
Chronological ==
  Correctable =>
    \A x, y \in upload.sent : x.place < y.place => x.start <= y.start

\* An event leaves the queue once the server has it, when it can never be
\* dated, as one of the oldest of a queue over its cap, or when the server says
\* it takes none.
Held(s) == {s[i].at : i \in DOMAIN s}
KeptUntilSent ==
  [][ \A e \in Elements(queue) :
        e.at \notin Held(queue') =>
          \/ \E a \in accepted : a[1] = e.at
          \/ Undatable(e)
          \/ Len(queue') = MaxQueued
          \/ upload'.refused ]_vars

\* Extras.cpp:100, "Re-sending an accepted batch is harmless": the server is
\* never given two times for one event.
ResentUnchanged == \A a, b \in accepted : a[1] = b[1] => a[2] = b[2]
=============================================================================
