---------------------------- MODULE HighlightSync ----------------------------
(***************************************************************************)
(* One book's highlights on the device and on the BookOrbit server:        *)
(* syncHighlights (src/src/bookorbit/BookOrbitSyncExtras.cpp) over the     *)
(* highlight file (HighlightStore.cpp) and the record file with its upload *)
(* watermark (BookOrbitAnnotationStore.cpp), with the reader's own edits   *)
(* (EpubReaderActivity.cpp).  The server and its web page are external.    *)
(*                                                                         *)
(* A passage stands for a chapter, the words highlighted in it (taken to   *)
(* read the same on both sides) and the xpointers minted from them.  An    *)
(* identity is <<datetime, passage>>, as md5(datetime | pos0) is taken to  *)
(* be one-one.                                                             *)
(***************************************************************************)
EXTENDS Naturals, Sequences, FiniteSets, FiniteSetsExt, Subsequences

CONSTANTS
  Passages,     \* what may be highlighted
  Unfindable,   \* those whose words the device cannot find in the book
  Unplaceable,  \* those whose xpointer from the server names no chapter
  Batch,        \* BOOKORBIT_ANNOTATION_BATCH
  MaxKeys,      \* MAX_KEYS_PER_SYNC
  Capacity,     \* MAX_PER_BOOK
  WebDates,     \* datetimes of highlights made on the web
  MaxWeb,       \* bound on their number
  MaxEdits,     \* bound on the reader's edits
  MaxFaults,    \* bound on the number of faults
  Faults        \* which may happen: subset of FaultKinds

FaultKinds == {"request", "reply", "ack", "mint", "book", "put", "record",
               "save", "torn", "cut", "retain", "short", "power"}

ASSUME ConstantsAssumption ==
  /\ Unfindable \subseteq Passages /\ Unplaceable \subseteq Passages
  /\ Batch \in Nat \ {0} /\ MaxKeys \in Nat /\ Capacity \in Nat
  /\ WebDates \subseteq Nat \ {0}
  /\ MaxWeb \in Nat /\ MaxEdits \in Nat /\ MaxFaults \in Nat
  /\ Faults \subseteq FaultKinds

VARIABLES
  marks,   \* highlights.bin: whether it can be read, and its highlights
  recs,    \* bookorbit_annotations.bin: whether it is there, watermark, records
  now,     \* the device's clock
  server,  \* the server's highlights of this book
  pc,      \* the step the running sync is at
  s,       \* the running sync's locals
  faults,  \* the kinds of the faults there have been, in their order
  edits,   \* the reader's edits so far
  removed, \* history variable: passages the reader has removed a highlight of
  twice    \* history variable: passages highlighted more than once, here or there

vars == <<marks, recs, now, server, pc, s, faults, edits, removed, twice>>
device == <<marks, recs, now>>

-----------------------------------------------------------------------------
(* The files.                                                              *)

\* `own`, a history field: made by the reader.
Mark == [ts : Nat, p : Passages, own : BOOLEAN]
MarkFile == [readable : BOOLEAN, list : Seq(Mark)]
Holding(list) == [readable |-> TRUE, list |-> list]
TornFile == [readable |-> FALSE, list |-> <<>>]

Record == [ts : Nat, id : Nat, p : Passages]
RecordFile == [here : BOOLEAN, watermark : Nat, list : Seq(Record)]
Records(list) == {list[n] : n \in DOMAIN list}
NoRecordFile == [here |-> FALSE, watermark |-> 0, list |-> <<>>]
KeyOf(r) == <<r.id, r.p>>

Stamps(m) == {m[i].ts : i \in DOMAIN m}
RefOf(x) == <<x.ts, x.p>>
Refs(m) == {RefOf(m[i]) : i \in DOMAIN m}
Marked(m) == {m[i].p : i \in DOMAIN m}

\* HighlightStore::add: the clock, or the next second no highlight has.
StampOfClock(m, t) == t
Stamp(m, t) == CHOOSE u \in t .. t + Len(m) :
                 u \notin Stamps(m) /\ \A v \in t .. u - 1 : v \in Stamps(m)

\* BookOrbitAnnotationStore::put, advanceWatermark.
PutRecord(f, r) ==
  LET same == {i \in DOMAIN f.list : RefOf(f.list[i]) = RefOf(r)}
  IN [here |-> TRUE, watermark |-> f.watermark,
      list |-> IF same = {} THEN Append(f.list, r)
               ELSE [f.list EXCEPT ![Min(same)] = r]]
Advanced(f, t) ==
  IF f.here /\ t > f.watermark THEN [f EXCEPT !.watermark = t] ELSE f

-----------------------------------------------------------------------------
(* The server, as far as the device relies on it.                          *)

\* `key` is the identity the device would report, `delivered` whether the server
\* takes the device to hold the highlight; one made on the web is offered from
\* the request after the one that converted it.
Item == [p : Passages, key : Nat \X Passages, web : BOOLEAN, ready : BOOLEAN,
         delivered : BOOLEAN, state : {"live", "webDeleted", "deviceDeleted", "gone"}]

Waiting(i) == server[i].state = "live" /\ ~server[i].delivered

\* What the server offers in answer to a request: additions, then deletions.
Offer(i) == [item |-> i, p |-> server[i].p, key |-> server[i].key,
             deleted |-> server[i].state = "webDeleted"]
Offers ==
  LET all == [i \in DOMAIN server |-> Offer(i)]
  IN Picked(all, {i \in DOMAIN server : Waiting(i) /\ server[i].ready})
     \o Picked(all, {i \in DOMAIN server : server[i].state = "webDeleted" /\ server[i].delivered})

\* exchangeAnnotations: what the device takes of it.
Collected(incoming, offers) ==
  LET seen == {incoming[n].item : n \in DOMAIN incoming}
      fresh == Picked(offers, {n \in DOMAIN offers : offers[n].item \notin seen})
  IN SubSeq(incoming \o fresh, 1,
            Min({Len(incoming) + Len(fresh), Max({Batch, Len(incoming)})}))

\* The server after a request.  An entry it does not know is taken for the web
\* highlight of the same passage still waiting, or becomes an item of its own; a
\* delivered item missing from a complete key set was deleted on the device.
News(entries) ==
  {n \in DOMAIN entries :
     /\ \A i \in DOMAIN server : server[i].key # KeyOf(entries[n])
     /\ \A m \in 1 .. n - 1 : KeyOf(entries[m]) # KeyOf(entries[n])}
Linked(entries, i) ==
  {n \in News(entries) : Waiting(i) /\ server[i].p = entries[n].p}
Unlinked(entries) ==
  {n \in News(entries) : \A i \in DOMAIN server :
                           Linked(entries, i) # {} => n # Min(Linked(entries, i))}

Heard(entries, keys, complete, i) ==
  [server[i] EXCEPT
     !.ready = TRUE,
     !.delivered = @ \/ Linked(entries, i) # {} \/ server[i].key \in keys,
     !.key = IF Linked(entries, i) = {} THEN @ ELSE KeyOf(entries[Min(Linked(entries, i))]),
     !.state = IF /\ @ = "live" /\ complete
                  /\ server[i].delivered /\ server[i].key \notin keys THEN "deviceDeleted"
               ELSE @]
Made(r) == [p |-> r.p, key |-> KeyOf(r), web |-> FALSE, ready |-> TRUE,
            delivered |-> TRUE, state |-> "live"]

Received(entries, keys, complete) ==
  LET own == Picked(entries, Unlinked(entries))
  IN [i \in DOMAIN server |-> Heard(entries, keys, complete, i)]
     \o [n \in DOMAIN own |-> Made(own[n])]

\* The server after an acknowledgment.
Told(applied, deleted, i) ==
  IF i \in deleted THEN [server[i] EXCEPT !.state = "gone"]
  ELSE [server[i] EXCEPT !.delivered = @ \/ i \in applied]
Acknowledged(applied, deleted) == [i \in DOMAIN server |-> Told(applied, deleted, i)]

-----------------------------------------------------------------------------
(* The running sync.                                                       *)

Steps == {"idle", "mint", "exchange", "pull", "advance", "apply", "save", "cover", "ack"}

NoSync == [marks |-> <<>>, list |-> <<>>, before |-> FALSE, watermark |-> 0,
           next |-> 1, late |-> 1, respelt |-> FALSE, top |-> 0, incoming |-> <<>>, round |-> 0,
           more |-> FALSE, here |-> {}, newest |-> 0, applied |-> {}, dels |-> {}]

Return == pc' = "idle" /\ s' = NoSync
Goto(step) == pc' = step

Fault(kind) ==
  /\ kind \in Faults /\ Len(faults) < MaxFaults
  /\ faults' = Append(faults, kind)
NoFault == UNCHANGED faults

\* The record file is rewritten in place, so that little may be left of one whose
\* writing is cut off; its reader takes the records it finds.
Part(f) == {NoRecordFile} \cup {[f EXCEPT !.list = SubSeq(@, 1, n)] : n \in 0 .. Len(f.list)}

\* The power fails while f is written.
CutShort(f) == Fault("cut") /\ recs' \in Part(f) /\ Return

\* The card fails while f is written, which writeFile does not notice where only
\* close() fails; or put() reads less of the file than there is, or none of it.
ShortFile(f) == Fault("short") /\ recs' \in Part(f)
ShortPut(r) == Fault("short") /\ recs' \in UNION {Part(PutRecord(f, r)) : f \in Part(recs)}

Init ==
  /\ marks = Holding(<<>>)
  /\ recs = NoRecordFile
  /\ now = 1
  /\ server = <<>>
  /\ pc = "idle" /\ s = NoSync
  /\ faults = <<>> /\ edits = 0 /\ removed = {} /\ twice = {}

\* Highlights that cannot be read do not sync.
Begin ==
  /\ pc = "idle"
  /\ marks.readable
  /\ s' = [NoSync EXCEPT !.marks = marks.list, !.list = recs.list, !.before = recs.here,
                         !.watermark = recs.watermark, !.late = recs.watermark + 1]
  /\ Goto("mint")
  /\ NoFault
  /\ UNCHANGED <<device, server, edits, removed, twice>>

Unrecorded == {i \in DOMAIN s.marks : i >= s.next /\ RefOf(s.marks[i]) \notin Refs(s.list)}

\* One not newer than the watermark takes an identity above it.
IdentityFromTime(m) == m.ts
Identity(m) == IF m.ts > s.watermark THEN m.ts ELSE s.late

Mint ==
  /\ pc = "mint"
  /\ Unrecorded # {}
  /\ LET m == s.marks[Min(Unrecorded)]
         r == [ts |-> m.ts, id |-> Identity(m), p |-> m.p]
         passed == [s EXCEPT !.next = Min(Unrecorded) + 1]
         minted == [passed EXCEPT !.late = IF m.ts > s.watermark THEN @ ELSE @ + 1]
         put == [minted EXCEPT !.list = Append(@, r), !.respelt = TRUE]
     IN \/ /\ m.p \notin Unfindable
           /\ \/ recs' = PutRecord(recs, r) /\ s' = put /\ NoFault
              \/ recs' = recs /\ s' = minted /\ Fault("put")
              \/ ShortPut(r) /\ (s' = put \/ (r \notin Records(recs'.list) /\ s' = minted))
              \/ recs' = recs /\ s' = passed /\ Fault("mint")
           /\ Goto("mint")
        \/ m.p \notin Unfindable /\ CutShort(PutRecord(recs, r))
        \/ /\ m.p \in Unfindable
           /\ s' = passed
           /\ NoFault
           /\ UNCHANGED <<recs, pc>>
        \/ /\ Fault("book")
           /\ s' = [s EXCEPT !.next = Len(s.marks) + 1]
           /\ UNCHANGED <<recs, pc>>
  /\ UNCHANGED <<marks, now, server, edits, removed, twice>>

\* The wording minted from is saved, and the records of highlights deleted here
\* go, unless the file cannot be read or written.
KeptAll(list) == list
Kept(list) == Picked(list, {n \in DOMAIN list : RefOf(list[n]) \in Refs(s.marks)})
Retain ==
  /\ pc = "mint"
  /\ Unrecorded = {}
  /\ LET kept == [recs EXCEPT !.list = Kept(@)]
         trimmed == [s EXCEPT !.list = Kept(@)]
     IN \/ /\ \/ recs' = kept /\ s' = (IF recs.here THEN trimmed ELSE s) /\ NoFault
              \/ recs' = recs /\ recs.here /\ trimmed # s /\ s' = s /\ Fault("retain")
              \/ /\ kept # recs /\ ShortFile(kept)
                 /\ s' = trimmed \/ (recs' # kept /\ s' = s)
           /\ Goto("exchange")
           /\ UNCHANGED marks
        \/ kept # recs /\ CutShort(kept) /\ UNCHANGED marks
        \/ /\ s.respelt
           /\ marks' = TornFile
           /\ Fault("torn")
           /\ Return
           /\ UNCHANGED recs
  /\ UNCHANGED <<now, server, edits, removed, twice>>

-----------------------------------------------------------------------------
(* The exchange.                                                           *)

\* Of the records those of highlights that are here.
Outgoing ==
  LET newer == Picked(s.list, {n \in DOMAIN s.list : /\ s.list[n].id > s.watermark
                                                     /\ RefOf(s.list[n]) \in Refs(s.marks)})
  IN SubSeq(newer, 1, Min({Len(newer), Batch}))

KeysCompleteAnyway == s.before /\ Len(s.list) <= MaxKeys
KeysComplete == s.before /\ Len(s.list) <= MaxKeys /\ Len(s.list) >= Len(s.marks)

Exchange ==
  /\ pc = "exchange"
  /\ LET keys == IF KeysComplete THEN {KeyOf(s.list[n]) : n \in DOMAIN s.list} ELSE {}
         next == Received(Outgoing, keys, KeysComplete)
     IN \/ /\ server' = next
           /\ s' = [s EXCEPT !.incoming = Collected(<<>>, Offers),
                             !.top = Max({0} \cup {Outgoing[n].id : n \in DOMAIN Outgoing})]
           /\ Goto("pull")
           /\ NoFault
        \/ server' = server /\ Fault("request") /\ Return
        \/ server' = next /\ Fault("reply") /\ Return
  /\ UNCHANGED <<device, edits, removed, twice>>

PullDue == Len(s.incoming) < Batch /\ s.round < 2 /\ (s.round = 0 \/ s.more)
Pull ==
  /\ pc = "pull"
  /\ PullDue
  /\ \/ /\ server' = Received(<<>>, {}, FALSE)
        /\ \E more \in BOOLEAN :
             s' = [s EXCEPT !.incoming = Collected(@, Offers), !.round = @ + 1, !.more = more]
        /\ UNCHANGED pc
        /\ NoFault
     \/ /\ server' \in {server, Received(<<>>, {}, FALSE)}
        /\ Fault("request")
        /\ Goto("advance")
        /\ UNCHANGED s
  /\ UNCHANGED <<device, edits, removed, twice>>

Advance ==
  /\ \/ pc = "pull" /\ ~PullDue
     \/ pc = "advance"
  /\ LET advanced == Advanced(recs, s.top)
     IN \/ /\ \/ recs' = advanced /\ NoFault
              \/ advanced # recs /\ recs' = recs /\ Fault("put")
              \/ advanced # recs /\ ShortFile(advanced)
           /\ IF s.incoming = <<>> THEN Return
              ELSE /\ Goto("apply")
                   /\ s' = [s EXCEPT !.next = 1, !.round = 0, !.more = FALSE]
        \/ advanced # recs /\ CutShort(advanced)
  /\ UNCHANGED <<marks, now, server, edits, removed, twice>>

-----------------------------------------------------------------------------
(* Applying the server's changes.                                          *)

Applying == pc = "apply" /\ s.next <= Len(s.incoming)
TheChange == s.incoming[s.next]

\* The timestamp of the highlight a deletion names, if it names one.
Gone ==
  LET named == {n \in DOMAIN s.list : KeyOf(s.list[n]) = TheChange.key}
  IN IF named = {} THEN {} ELSE {s.list[Min(named)].ts}

ApplyDelete ==
  /\ Applying
  /\ TheChange.deleted
  /\ s' = [s EXCEPT !.marks = Picked(@, {i \in DOMAIN @ : @[i].ts \notin Gone}),
                    !.dels = @ \cup {TheChange.item},
                    !.next = @ + 1]
  /\ NoFault
  /\ UNCHANGED <<device, server, pc, edits, removed, twice>>

\* Matched on chapter and words.
PresentByKey(p) == \E n \in DOMAIN s.list : KeyOf(s.list[n]) = TheChange.key
Present(p) == p \in Marked(s.marks)

ApplyPresent ==
  /\ Applying
  /\ ~TheChange.deleted
  /\ TheChange.p \notin Unplaceable
  /\ Present(TheChange.p)
  /\ s' = [s EXCEPT !.applied = @ \cup {TheChange.item},
                    !.newest = Max({@, TheChange.key[1]}),
                    !.next = @ + 1]
  /\ NoFault
  /\ UNCHANGED <<device, server, pc, edits, removed, twice>>

\* Recorded under the server's datetime; that the record is not written is not
\* noticed.
ApplyAdd ==
  /\ Applying
  /\ ~TheChange.deleted
  /\ TheChange.p \notin Unplaceable
  /\ ~Present(TheChange.p)
  /\ Len(s.marks) < Capacity
  /\ LET ts == Stamp(s.marks, now)
         r == [ts |-> ts, id |-> TheChange.key[1], p |-> TheChange.p]
         added == [s EXCEPT !.marks = Append(@, [ts |-> ts, p |-> TheChange.p, own |-> FALSE]),
                            !.list = Append(@, r),
                            !.here = @ \cup {ts},
                            !.applied = @ \cup {TheChange.item},
                            !.newest = Max({@, TheChange.key[1]}),
                            !.next = @ + 1]
     IN /\ \/ recs' = PutRecord(recs, r) /\ NoFault /\ s' = added /\ UNCHANGED pc
           \/ recs' = recs /\ Fault("record") /\ s' = added /\ UNCHANGED pc
           \/ ShortPut(r) /\ s' = added /\ UNCHANGED pc
           \/ CutShort(PutRecord(recs, r))
  /\ UNCHANGED <<marks, now, server, edits, removed, twice>>

\* Cannot be placed, or there is no room: not acknowledged, and offered again.
ApplyLater ==
  /\ Applying
  /\ ~TheChange.deleted
  /\ \/ TheChange.p \in Unplaceable
     \/ ~Present(TheChange.p) /\ Len(s.marks) >= Capacity
  /\ s' = [s EXCEPT !.next = @ + 1]
  /\ NoFault
  /\ UNCHANGED <<device, server, pc, edits, removed, twice>>

\* HighlightStore::save(): a failure leaves everything unacknowledged.
AfterFailedSaveGoOn == Goto("cover") /\ UNCHANGED s
AfterFailedSave == Return
Save ==
  /\ pc = "apply"
  /\ s.next > Len(s.incoming)
  /\ \/ marks' = Holding(s.marks) /\ Goto("cover") /\ NoFault /\ UNCHANGED s
     \/ /\ s.marks # marks.list
        /\ \/ marks' = marks /\ Fault("save")
           \/ marks' = TornFile /\ Fault("torn")
        /\ AfterFailedSave
  /\ UNCHANGED <<recs, now, server, edits, removed, twice>>

\* What was received is covered by the watermark, unless records of this device
\* still wait to be uploaded.
LocalStillPending ==
  \E n \in DOMAIN s.list : s.list[n].id > recs.watermark /\ s.list[n].ts \notin s.here
Cover ==
  /\ pc = "cover"
  /\ LET covered == IF s.newest > 0 /\ ~LocalStillPending THEN Advanced(recs, s.newest) ELSE recs
     IN \/ /\ \/ recs' = covered /\ NoFault
              \/ covered # recs /\ recs' = recs /\ Fault("put")
              \/ covered # recs /\ ShortFile(covered)
           /\ IF s.applied = {} /\ s.dels = {} THEN Return ELSE Goto("ack") /\ UNCHANGED s
        \/ covered # recs /\ CutShort(covered)
  /\ UNCHANGED <<marks, now, server, edits, removed, twice>>

Ack ==
  /\ pc = "ack"
  /\ \/ server' = Acknowledged(s.applied, s.dels) /\ NoFault
     \/ server' = server /\ Fault("ack")
  /\ Return
  /\ UNCHANGED <<device, edits, removed, twice>>

-----------------------------------------------------------------------------
(* The reader, the web page and the power.                                 *)

\* An edit is saved at once.  One made where the file could not be read starts
\* from an empty list: the reader's screen does not look at what load() said.
Edit(m) ==
  /\ pc = "idle"
  /\ edits < MaxEdits
  /\ edits' = edits + 1
  /\ now' = now + 1
  /\ \/ marks' = Holding(m) /\ NoFault
     \/ marks' = TornFile /\ Fault("torn")
  /\ UNCHANGED <<recs, server, pc, s>>

Highlighted(p) ==
  twice' = twice \cup
    {q \in {p} : q \in Marked(marks.list) \/ \E i \in DOMAIN server : server[i].p = q}

MarkPassage(p) ==
  /\ Len(marks.list) < Capacity
  /\ Edit(Append(marks.list, [ts |-> Stamp(marks.list, now + 1), p |-> p, own |-> TRUE]))
  /\ Highlighted(p)
  /\ UNCHANGED removed

RemoveMark(i) ==
  /\ Edit(Picked(marks.list, DOMAIN marks.list \ {i}))
  /\ removed' = removed \cup {marks.list[i].p}
  /\ UNCHANGED twice

WebAdd(p, date) ==
  /\ Cardinality({i \in DOMAIN server : server[i].web}) < MaxWeb
  /\ \A i \in DOMAIN server : server[i].p # p \/ server[i].state \in {"gone", "deviceDeleted"}
  /\ server' = Append(server, [p |-> p, key |-> <<date, p>>, web |-> TRUE, ready |-> FALSE,
                               delivered |-> FALSE, state |-> "live"])
  /\ Highlighted(p)
  /\ UNCHANGED <<device, pc, s, faults, edits, removed>>

WebDelete(i) ==
  /\ server[i].state = "live"
  /\ server' = [server EXCEPT ![i].state = "webDeleted"]
  /\ UNCHANGED <<device, pc, s, faults, edits, removed, twice>>

PowerCut ==
  /\ pc # "idle"
  /\ Fault("power")
  /\ Return
  /\ UNCHANGED <<device, server, edits, removed, twice>>

Apply == ApplyDelete \/ ApplyPresent \/ ApplyAdd \/ ApplyLater
SyncStep == Begin \/ Mint \/ Retain \/ Exchange \/ Pull \/ Advance \/ Apply
            \/ Save \/ Cover \/ Ack
Reader ==
  \/ \E p \in Passages : MarkPassage(p)
  \/ \E i \in DOMAIN marks.list : RemoveMark(i)
Web ==
  \/ \E p \in Passages, date \in WebDates : WebAdd(p, date)
  \/ \E i \in DOMAIN server : WebDelete(i)

Next == SyncStep \/ Reader \/ Web \/ PowerCut

Spec == Init /\ [][Next]_vars
FairSpec == Spec /\ WF_vars(SyncStep)

-----------------------------------------------------------------------------
(* Properties.                                                             *)

TypeOK ==
  /\ marks \in MarkFile /\ Len(marks.list) <= Capacity
  /\ \A i, j \in DOMAIN marks.list : marks.list[i].ts = marks.list[j].ts => i = j
  /\ recs \in RecordFile /\ now \in Nat /\ server \in Seq(Item)
  /\ pc \in Steps /\ s.marks \in Seq(Mark) /\ s.list \in Seq(Record)
  /\ faults \in Seq(FaultKinds) /\ edits \in 0 .. MaxEdits /\ removed \cup twice \subseteq Passages

\* While retain() has not failed, nor the record file lost anything to a failing card,
\* the records a sync works with are of highlights that are here.  Where it has, that
\* of a deleted highlight stands in for a missing one where syncHighlights counts them,
\* and a deletion that names it takes away a highlight of the same second.
Kinds == {faults[n] : n \in DOMAIN faults}
Trimmed == Kinds \cap {"retain", "short"} = {}

\* The server loses no highlight as deleted on this device that its reader did
\* not remove: an incomplete key set never reads as a deletion.  (Where a passage was
\* highlighted on both sides the server may drop one of the two.)
DeletionsAreTheReaders ==
  Trimmed =>
    \A i \in DOMAIN server :
      server[i].state = "deviceDeleted" =>
        \/ server[i].p \in removed
        \/ \E j \in DOMAIN server : server[j].p = server[i].p /\ server[j].state # "deviceDeleted"

\* Between syncs, a record the watermark covers, and so is never sent again, is
\* of a passage the server knows.
CoveredIsKnown ==
  Trimmed /\ pc = "idle" =>
    \A n \in DOMAIN recs.list :
      recs.list[n].id <= recs.watermark =>
        \E i \in DOMAIN server : server[i].p = recs.list[n].p

\* What the device acknowledges as applied is in the file on its card.
AcknowledgedIsHere ==
  Trimmed /\ pc = "ack" => \A i \in s.applied : server[i].p \in Marked(marks.list)

\* A highlight is received once, however often it is offered again after a lost
\* answer, and not at all where the reader has made it too.
ReceivedOnce ==
  \A i, j \in DOMAIN marks.list :
    i < j /\ marks.list[i].p = marks.list[j].p => marks.list[j].own

\* Once neither side changes anything and no request fails, what the device shows
\* is on the server, and what the server has is on the device unless its file is
\* full; all unless one of its passages is without a record and cannot be found, which
\* keeps its key set from ever being complete.  Not held to it: passages
\* highlighted twice, and, where a record was lost, those the reader removed.
NeverComplete ==
  \E i \in DOMAIN marks.list :
    marks.list[i].p \in Unfindable /\ RefOf(marks.list[i]) \notin Refs(recs.list)
Exempt ==
  twice \cup IF Kinds \cap {"cut", "record", "short"} # {} THEN removed ELSE {}
Agree ==
  LET there == {server[i].p : i \in {j \in DOMAIN server : server[j].state = "live"}}
  IN \/ NeverComplete
     \/ /\ Marked(marks.list) \subseteq there \cup Exempt
        /\ Len(marks.list) < Capacity =>
             there \subseteq Marked(marks.list) \cup Exempt \cup Unplaceable
Converges == <>[](marks.readable => Agree)

=============================================================================
