---------------------------- MODULE BookmarkSync ----------------------------
(***************************************************************************)
(* One book's bookmarks on the device and on the BookOrbit server:         *)
(* syncBookmarks (src/src/bookorbit/BookOrbitSyncExtras.cpp) over the      *)
(* bookmark file (BookmarkStore.h) and the record file with its upload     *)
(* watermark (BookOrbitBookmarkStore.cpp).  The server and the person who  *)
(* uses the web page are external.                                         *)
(*                                                                         *)
(* A bookmark's place stands for its chapter, its position and the xpointer*)
(* minted from them; names and page numbers are left out.  Identities are  *)
(* <<datetime, place>> pairs, as md5(datetime|pos) is taken to be one-one. *)
(***************************************************************************)
EXTENDS Naturals, Sequences, FiniteSets, FiniteSetsExt, Subsequences

CONSTANTS
  Places,       \* places in the book a bookmark may mark
  Unplaceable,  \* those among them the device cannot resolve
  Batch,        \* BOOKORBIT_BOOKMARK_BATCH
  MaxKeys,      \* MAX_KEYS_PER_SYNC
  Capacity,     \* MAX_BOOKMARKS
  MaxWeb,       \* bound on the bookmarks made on the web
  MaxEdits,     \* bound on the reader's edits
  MaxFaults,    \* bound on the number of faults
  Faults,       \* which may happen: subset of FaultKinds
  ReAdds,       \* one may be made where the device has not heard of a deletion
  LateMarks     \* bookmarks may be made before the clock is set, or before their
                \* position is known

FaultKinds == {"request", "reply", "ack", "mint", "put", "retain", "record", "cut",
               "short", "open", "torn", "power", "cleared"}

ASSUME ConstantsAssumption ==
  /\ Unplaceable \subseteq Places
  /\ Batch \in Nat \ {0} /\ MaxKeys \in Nat /\ MaxEdits \in Nat /\ MaxFaults \in Nat
  /\ MaxWeb \in Nat /\ Capacity \in Nat
  /\ Faults \subseteq FaultKinds
  /\ ReAdds \in BOOLEAN /\ LateMarks \in BOOLEAN

VARIABLES
  marks,   \* bookmarks.bin
  recs,    \* bookorbit_bookmarks.bin: readable, watermark, records
  now,     \* the device's clock, in seconds; 0 until it is set
  server,  \* the server's bookmarks of this book
  pc,      \* the step the running sync is at
  s,       \* the running sync's locals
  faults,  \* faults so far
  edits,   \* the reader's edits so far
  removed, \* history variable: places the reader has removed a bookmark from
  lost     \* history variable: places whose record a write of recs lost

vars == <<marks, recs, now, server, pc, s, faults, edits, removed, lost>>
device == <<marks, recs, now>>

-----------------------------------------------------------------------------
(* The files.                                                              *)

\* ts = 0: made before bookmarks had timestamps, or while the clock was not set.  settled: its position in the
\* chapter is known (it is not while the chapter is still being paginated).
Mark == [ts : Nat, pos : Places, settled : BOOLEAN]
Record == [ts : Nat, id : Nat, pos : Places]
KeyOf(r) == <<r.id, r.pos>>
NoKey == <<>>

RecordFile == [here : BOOLEAN, watermark : Nat, list : Seq(Record)]
Records(list) == {list[n] : n \in DOMAIN list}
NoRecordFile == [here |-> FALSE, watermark |-> 0, list |-> <<>>]

Timestamps(m) == {m[i].ts : i \in DOMAIN m}
Syncable(m) == {i \in DOMAIN m : m[i].ts # 0 /\ m[i].settled}
SyncTimes(m) == {m[i].ts : i \in Syncable(m)}

\* uniqueTimestamp: the clock, or the next second no bookmark of the store has.
UniqueAmongAll(m, t) == t
UniqueTimestamp(m, t) ==
  CHOOSE u \in t .. t + Len(m) :
    IF t = 0 THEN u = 0
    ELSE u \notin Timestamps(m) /\ \A v \in t .. u - 1 : v \in Timestamps(m)

\* BookOrbitBookmarkStore::put.  Its limit, MAX_RECORDS, is above MAX_BOOKMARKS.
PutAlone(f, r) == [here |-> TRUE, watermark |-> f.watermark, list |-> <<r>>]
PutRecord(f, r) ==
  LET same == {i \in DOMAIN f.list : f.list[i].ts = r.ts /\ f.list[i].pos = r.pos}
  IN [here |-> TRUE, watermark |-> f.watermark,
      list |-> IF same = {} THEN Append(f.list, r)
               ELSE [f.list EXCEPT ![Min(same)] = r]]

\* BookOrbitBookmarkStore::advanceWatermark: never backwards.
Advanced(f, t) ==
  IF f.here /\ t > f.watermark THEN [f EXCEPT !.watermark = t] ELSE f

-----------------------------------------------------------------------------
(* The server, as far as the device relies on it: a sequence of items.     *)

\* A web bookmark has no key until the device acknowledges it; it is ready for
\* the device once a request has come in after it was made.
Item == [pos : Places, key : (Nat \X Places) \cup {NoKey}, web : BOOLEAN,
         ready : BOOLEAN,
         state : {"live", "parked", "webDeleted", "deviceDeleted", "gone"}]

Pending(i) == server[i].ready /\ server[i].state = "live" /\ server[i].key = NoKey
PendingDelete(i) == server[i].state = "webDeleted" /\ server[i].key # NoKey

\* What the server offers in answer to a request: additions, then deletions.
Offer(i) == [item |-> i, pos |-> server[i].pos, key |-> server[i].key,
             deleted |-> server[i].state = "webDeleted"]
Offers ==
  LET all == [i \in DOMAIN server |-> Offer(i)]
  IN Picked(all, {i \in DOMAIN server : Pending(i)})
     \o Picked(all, {i \in DOMAIN server : PendingDelete(i)})

\* collect(): what the device takes of it.
Collected(incoming, offers) ==
  LET seen == {incoming[n].item : n \in DOMAIN incoming}
      fresh == Picked(offers, {n \in DOMAIN offers : offers[n].item \notin seen})
  IN SubSeq(incoming \o fresh, 1,
            Min({Len(incoming) + Len(fresh), Max({Batch, Len(incoming)})}))

\* The server after a request.  An entry it does not know is linked to the web
\* bookmark waiting at its place, or else becomes an item of its own; a linked
\* item missing from a complete key set was deleted on the device.
News(entries) ==
  {n \in DOMAIN entries :
     /\ \A i \in DOMAIN server : server[i].key # KeyOf(entries[n])
     /\ \A m \in 1 .. n - 1 : KeyOf(entries[m]) # KeyOf(entries[n])}
Linked(entries, i) ==
  {n \in News(entries) : /\ server[i].state = "live" /\ server[i].key = NoKey
                         /\ server[i].pos = entries[n].pos}
Unlinked(entries) ==
  {n \in News(entries) : \A i \in DOMAIN server :
                           Linked(entries, i) # {} => n # Min(Linked(entries, i))}

Heard(entries, keys, complete, i) ==
  [server[i] EXCEPT
     !.ready = TRUE,
     !.key = IF Linked(entries, i) = {} THEN @ ELSE KeyOf(entries[Min(Linked(entries, i))]),
     !.state = IF complete /\ server[i].key \notin keys \cup {NoKey} THEN "deviceDeleted"
               ELSE @]
Made(r) == [pos |-> r.pos, key |-> KeyOf(r), web |-> FALSE, ready |-> TRUE, state |-> "live"]

Received(entries, keys, complete) ==
  LET own == Picked(entries, Unlinked(entries))
  IN [i \in DOMAIN server |->
        IF server[i].state # "live" THEN server[i] ELSE Heard(entries, keys, complete, i)]
     \o [n \in DOMAIN own |-> Made(own[n])]

\* The server after an acknowledgment, which links an item that is not linked
\* yet.  One of a bookmark the web has deleted meanwhile makes that deletion owed
\* to the device.
Told(acks, deletions, i) ==
  LET applied == {a \in acks : a.item = i /\ ~a.failed}
  IN [server[i] EXCEPT
        !.state = IF i \in deletions THEN "gone"
                  ELSE IF \E a \in acks : a.item = i /\ a.failed THEN "parked" ELSE @,
        !.key = IF i \in deletions \/ @ # NoKey \/ applied = {} THEN @
                ELSE (CHOOSE a \in applied : TRUE).key]
Acknowledged(acks, deletions) == [i \in DOMAIN server |-> Told(acks, deletions, i)]

-----------------------------------------------------------------------------
(* The running sync.                                                       *)

Steps == {"idle", "mint", "exchange", "pull", "advance", "apply", "cover", "ack"}

NoSync == [marks |-> <<>>, list |-> <<>>, before |-> FALSE, watermark |-> 0,
           next |-> 1, late |-> 1, top |-> 0, incoming |-> <<>>, round |-> 0,
           more |-> FALSE, minted |-> {}, acks |-> {}, dels |-> {}]

Return == pc' = "idle" /\ s' = NoSync
Goto(step) == pc' = step

Fault(kind) ==
  /\ kind \in Faults /\ faults < MaxFaults
  /\ faults' = faults + 1
NoFault == UNCHANGED faults

\* The record file is rewritten in place, so that little may be left of one whose
\* writing is cut off; its reader takes the records it finds.
Part(f) == {NoRecordFile} \cup {[f EXCEPT !.list = SubSeq(@, 1, n)] : n \in 0 .. Len(f.list)}

Write(f) == recs' = f /\ NoFault /\ UNCHANGED lost
LeaveFile == UNCHANGED <<recs, lost>>

\* f should have been written; what is there is one of `left`.
Damage(f, left) ==
  /\ recs' \in left
  /\ lost' = lost \cup
       {r.pos : r \in (Records(recs.list) \cup Records(f.list)) \ Records(recs'.list)}

\* The power fails while f is written.
CutShort(f) == Fault("cut") /\ Damage(f, Part(f)) /\ Return

\* The card fails while f is written: writeFile may report it, but not where only
\* close() fails.  put() writes over a file it has read in part, too.
ShortFile(f) == Fault("short") /\ Damage(f, Part(f))
ShortPut(r) ==
  /\ Fault("short")
  /\ Damage(PutRecord(recs, r), UNION {Part(PutRecord(f, r)) : f \in Part(recs)})

\* Two bookmarks of an older firmware, or made while the clock was not set.
OldMarks ==
  {<<[ts |-> 0, pos |-> p, settled |-> known], [ts |-> 0, pos |-> q, settled |-> known]>> :
     p \in Places, q \in Places, known \in BOOLEAN}

Init ==
  /\ marks \in {<<>>} \cup
       {m \in OldMarks : LateMarks /\ Capacity >= 2 /\ m[1].pos # m[2].pos}
  /\ recs = NoRecordFile
  /\ now = (IF LateMarks THEN 0 ELSE 1)
  /\ server = <<>>
  /\ pc = "idle"
  /\ s = NoSync
  /\ faults = 0
  /\ edits = 0
  /\ removed = {} /\ lost = {}

\* syncBookmarks, up to the loop over the bookmarks.
Begin ==
  /\ pc = "idle"
  /\ s' = [NoSync EXCEPT !.marks = marks, !.list = recs.list, !.before = recs.here,
                         !.watermark = recs.watermark, !.late = recs.watermark + 1]
  /\ Goto("mint")
  /\ NoFault
  /\ UNCHANGED <<device, server, edits, removed, lost>>

\* The next bookmark without a record gets one, or is left for the next sync
\* because its position cannot be minted or the record not written.
Unrecorded ==
  {i \in DOMAIN s.marks :
     /\ i >= s.next
     /\ s.marks[i].ts # 0 /\ s.marks[i].settled
     /\ \A n \in DOMAIN s.list : s.list[n].ts # s.marks[i].ts}

IdentityFromTime(b) == b.ts
\* A bookmark not newer than the watermark takes an identity above it.
Identity(b) == IF b.ts > s.watermark THEN b.ts ELSE s.late

Mint ==
  /\ pc = "mint"
  /\ Unrecorded # {}
  /\ LET b == s.marks[Min(Unrecorded)]
         r == [ts |-> b.ts, id |-> Identity(b), pos |-> b.pos]
         passed == [s EXCEPT !.next = Min(Unrecorded) + 1,
                             !.late = IF b.ts > s.watermark THEN @ ELSE @ + 1]
         minted == [passed EXCEPT !.list = Append(@, r)]
     IN \/ Write(PutRecord(recs, r)) /\ s' = minted /\ UNCHANGED pc
        \/ (Fault("mint") \/ Fault("put")) /\ LeaveFile /\ s' = passed /\ UNCHANGED pc
        \/ /\ ShortPut(r) /\ UNCHANGED pc
           /\ s' = minted \/ (r \notin Records(recs'.list) /\ s' = passed)
        \/ CutShort(PutRecord(recs, r))
  /\ UNCHANGED <<marks, now, server, edits, removed>>

\* retain: the records of bookmarks deleted here go, unless the file cannot be read
\* or written.
KeptAll(list) == list
Kept(list) == Picked(list, {n \in DOMAIN list : list[n].ts \in SyncTimes(s.marks)})
Retain ==
  /\ pc = "mint"
  /\ Unrecorded = {}
  /\ LET kept == [recs EXCEPT !.list = Kept(@)]
         trimmed == [s EXCEPT !.list = Kept(@)]
     IN \/ /\ Write(kept)
           /\ s' = IF recs.here THEN trimmed ELSE s
           /\ Goto("exchange")
        \/ /\ recs.here /\ trimmed # s /\ Fault("retain")
           /\ LeaveFile
           /\ UNCHANGED s
           /\ Goto("exchange")
        \/ /\ kept # recs /\ ShortFile(kept) /\ Goto("exchange")
           /\ s' = trimmed \/ (recs' # kept /\ s' = s)
        \/ kept # recs /\ CutShort(kept)
  /\ UNCHANGED <<marks, now, server, edits, removed>>

-----------------------------------------------------------------------------
(* The exchange.                                                           *)

Outgoing ==
  LET newer == Picked(s.list, {n \in DOMAIN s.list : s.list[n].id > s.watermark})
  IN SubSeq(newer, 1, Min({Len(newer), Batch}))

KeysComplete ==
  s.before /\ Len(s.list) <= MaxKeys /\ Len(s.list) >= Cardinality(Syncable(s.marks))

Exchange ==
  /\ pc = "exchange"
  /\ LET keys == {KeyOf(s.list[n]) : n \in DOMAIN s.list}
         next == Received(Outgoing, keys, KeysComplete)
         took == Collected(<<>>, Offers)
     IN \/ /\ server' = next
           /\ s' = [s EXCEPT !.incoming = took,
                             !.top = Max({0} \cup {Outgoing[n].id : n \in DOMAIN Outgoing})]
           /\ Goto("pull")
           /\ NoFault
        \/ server' = server /\ Fault("request") /\ Return
        \/ server' = next /\ Fault("reply") /\ Return
  /\ UNCHANGED <<device, edits, removed, lost>>

\* At most two further requests, without keys: a bookmark made on the web ships
\* on the request after the one that converted it.  Whether it says that more are
\* pending is up to the server.
PullDue == Len(s.incoming) < Batch /\ s.round < 2 /\ (s.round = 0 \/ s.more)
Pull ==
  /\ pc = "pull"
  /\ PullDue
  /\ LET took == Collected(s.incoming, Offers)
     IN \/ /\ server' = Received(<<>>, {}, FALSE)
           /\ \E more \in BOOLEAN :
                s' = [s EXCEPT !.incoming = took, !.round = @ + 1, !.more = more]
           /\ UNCHANGED pc
           /\ NoFault
        \/ /\ server' \in {server, Received(<<>>, {}, FALSE)}
           /\ Fault("request")
           /\ Goto("advance")
           /\ UNCHANGED s
  /\ UNCHANGED <<device, edits, removed, lost>>

\* The uploaded records are covered by the watermark.
Advance ==
  /\ \/ pc = "pull" /\ ~PullDue
     \/ pc = "advance"
  /\ LET advanced == Advanced(recs, s.top)
     IN \/ /\ \/ Write(advanced)
              \/ advanced # recs /\ Fault("put") /\ LeaveFile
              \/ advanced # recs /\ ShortFile(advanced)
           /\ IF s.incoming = <<>> THEN Return
              ELSE /\ Goto("apply")
                   /\ s' = [s EXCEPT !.next = 1, !.round = 0, !.more = FALSE]
        \/ advanced # recs /\ CutShort(advanced)
  /\ UNCHANGED <<marks, now, server, edits, removed>>

-----------------------------------------------------------------------------
(* Applying the server's changes.                                          *)

Applying == pc = "apply" /\ s.next <= Len(s.incoming)
TheChange == s.incoming[s.next]
At(p) == {n \in DOMAIN s.list : s.list[n].pos = p}

\* The timestamp of the bookmark a deletion names; 0: none.
Gone ==
  LET named == {n \in DOMAIN s.list : KeyOf(s.list[n]) = TheChange.key}
  IN IF named = {} THEN 0 ELSE s.list[Min(named)].ts

ApplyDelete ==
  /\ Applying
  /\ TheChange.deleted
  /\ s' = [s EXCEPT !.marks = Picked(@, {i \in DOMAIN @ : @[i].ts # Gone \/ Gone = 0}),
                    !.dels = @ \cup {TheChange.item},
                    !.next = @ + 1]
  /\ NoFault
  /\ UNCHANGED <<device, server, pc, edits, removed, lost>>

\* A record already at this place means that the bookmark is here.
ApplyDuplicate ==
  /\ Applying
  /\ ~TheChange.deleted
  /\ At(TheChange.pos) # {}
  /\ s' = [s EXCEPT !.acks = @ \cup {[item |-> TheChange.item, failed |-> FALSE,
                                      key |-> KeyOf(s.list[Min(At(TheChange.pos))])]},
                    !.next = @ + 1]
  /\ NoFault
  /\ UNCHANGED <<device, server, pc, edits, removed, lost>>

ApplyUnplaceable ==
  /\ Applying
  /\ ~TheChange.deleted
  /\ At(TheChange.pos) = {}
  /\ TheChange.pos \in Unplaceable
  /\ s' = [s EXCEPT !.acks = @ \cup {[item |-> TheChange.item, failed |-> TRUE,
                                      key |-> NoKey]},
                    !.next = @ + 1]
  /\ NoFault
  /\ UNCHANGED <<device, server, pc, edits, removed, lost>>

\* addSynced: the device mints the identity and reports it, whether or not its
\* record is written.  Time passes between two of these as between two edits.
RoomAndTime == now # 0 /\ Len(s.marks) < Capacity
Placeable ==
  /\ Applying
  /\ ~TheChange.deleted
  /\ At(TheChange.pos) = {}
  /\ TheChange.pos \notin Unplaceable

ApplyAdd ==
  /\ Placeable
  /\ RoomAndTime
  /\ LET ts == UniqueTimestamp(s.marks, now + 1)
         r == [ts |-> ts, id |-> ts, pos |-> TheChange.pos]
         added == [s EXCEPT !.marks = Append(@, [ts |-> ts, pos |-> TheChange.pos,
                                                 settled |-> TRUE]),
                            !.list = Append(@, r),
                            !.minted = @ \cup {ts},
                            !.acks = @ \cup {[item |-> TheChange.item, failed |-> FALSE,
                                              key |-> KeyOf(r)]},
                            !.next = @ + 1]
     IN /\ \/ Write(PutRecord(recs, r)) /\ s' = added /\ UNCHANGED pc
           \/ /\ Fault("record") /\ Damage(PutRecord(recs, r), {recs})
              /\ s' = added /\ UNCHANGED pc
           \/ ShortPut(r) /\ s' = added /\ UNCHANGED pc
           \/ CutShort(PutRecord(recs, r))
        /\ now' = ts
  /\ UNCHANGED <<marks, server, edits, removed>>

\* Not acknowledged, and so offered again.
ApplyLater ==
  /\ Placeable
  /\ ~RoomAndTime
  /\ s' = [s EXCEPT !.next = @ + 1]
  /\ NoFault
  /\ UNCHANGED <<device, server, pc, edits, removed, lost>>

\* store.save(), whose failure is only logged; GLOBAL_BOOKMARKS follows.
Save ==
  /\ pc = "apply"
  /\ s.next > Len(s.incoming)
  /\ \/ marks' = s.marks /\ NoFault
     \/ marks' = marks /\ s.marks # marks /\ Fault("open")
     \/ marks' = <<>> /\ s.marks # marks /\ Fault("torn")
  /\ Goto("cover")
  /\ UNCHANGED <<recs, now, server, s, edits, removed, lost>>

\* The identities minted here are covered too, unless older local records still
\* wait to be uploaded.
NothingPending == FALSE
LocalStillPending ==
  \E n \in DOMAIN s.list :
    s.list[n].id > recs.watermark /\ s.list[n].ts \notin s.minted
Cover ==
  /\ pc = "cover"
  /\ LET covered == IF s.minted # {} /\ ~LocalStillPending THEN Advanced(recs, Max(s.minted))
                    ELSE recs
     IN \/ /\ \/ Write(covered)
              \/ covered # recs /\ Fault("put") /\ LeaveFile
              \/ covered # recs /\ ShortFile(covered)
           /\ IF s.acks = {} /\ s.dels = {} THEN Return ELSE Goto("ack") /\ UNCHANGED s
        \/ covered # recs /\ CutShort(covered)
  /\ UNCHANGED <<marks, now, server, edits, removed>>

Ack ==
  /\ pc = "ack"
  /\ \/ server' = Acknowledged(s.acks, s.dels) /\ NoFault
     \/ server' = server /\ Fault("ack")
  /\ Return
  /\ UNCHANGED <<device, edits, removed, lost>>

-----------------------------------------------------------------------------
(* The reader, the web page, the clock and the power.                      *)

\* One edit of the bookmarks between opening and closing the book, and the save
\* on closing it, which refuses more than Capacity of them and may leave a file
\* that loads as empty.  Every edit has a second of its own; the clock is set by
\* then, the bookmarks made before are in Init.
SavedAny(m) == m
Saved(m) == IF Len(m) > Capacity THEN marks ELSE m

Edit(m) ==
  /\ pc = "idle"
  /\ edits < MaxEdits
  /\ edits' = edits + 1
  /\ \/ marks' = Saved(m) /\ NoFault
     \/ marks' = <<>> /\ m # <<>> /\ Fault("torn")
  /\ UNCHANGED <<recs, server, pc, s>>

\* toggle, on a page without a bookmark; unsettled while the chapter is being
\* paginated.
Star(p, settled) ==
  /\ \A i \in DOMAIN marks : marks[i].pos # p
  /\ now' = now + 1
  /\ Edit(Append(marks, [ts |-> UniqueTimestamp(marks, now'), pos |-> p,
                         settled |-> settled]))
  /\ UNCHANGED <<removed, lost>>

\* toggle on a page with one; removeAt.
Unstar(i) ==
  /\ now' = now + 1
  /\ Edit(Picked(marks, DOMAIN marks \ {i}))
  /\ removed' = removed \cup {marks[i].pos}
  /\ UNCHANGED lost

\* resolvePagesForChapter, with one bookmark of the chapter to settle.
Settle(i) ==
  /\ ~marks[i].settled \/ marks[i].ts = 0
  /\ now' = now + 1
  /\ Edit([marks EXCEPT ![i].settled = TRUE,
                        ![i].ts = IF @ = 0 THEN UniqueTimestamp(marks, now') ELSE @])
  /\ UNCHANGED <<removed, lost>>

\* ClearCacheActivity: the book's cache folder goes, the bookmarks with it; the
\* sync state is elsewhere and stays.
ClearCache ==
  /\ pc = "idle"
  /\ marks # <<>>
  /\ Fault("cleared")
  /\ marks' = <<>>
  /\ UNCHANGED <<recs, now, server, pc, s, edits, removed, lost>>

WebAdd(p) ==
  /\ Cardinality({i \in DOMAIN server : server[i].web}) < MaxWeb
  /\ \A i \in DOMAIN server :
       server[i].pos = p =>
         /\ server[i].state # "live"
         /\ server[i].state = "webDeleted" => ReAdds
  /\ server' = Append(server, [pos |-> p, key |-> NoKey, web |-> TRUE,
                               ready |-> FALSE, state |-> "live"])
  /\ UNCHANGED <<device, pc, s, faults, edits, removed, lost>>

WebDelete(i) ==
  /\ server[i].state \in {"live", "parked"}
  /\ server' = [server EXCEPT ![i].state = "webDeleted"]
  /\ UNCHANGED <<device, pc, s, faults, edits, removed, lost>>

\* Power fails, or the app is left, between two steps of a sync.
PowerCut ==
  /\ pc # "idle"
  /\ Fault("power")
  /\ Return
  /\ UNCHANGED <<device, server, edits, removed, lost>>

Apply == ApplyDelete \/ ApplyDuplicate \/ ApplyUnplaceable \/ ApplyAdd \/ ApplyLater
SyncStep == Begin \/ Mint \/ Retain \/ Exchange \/ Pull \/ Advance \/ Apply
            \/ Save \/ Cover \/ Ack
Reader ==
  \/ \E p \in Places \ Unplaceable, settled \in {TRUE, ~LateMarks} : Star(p, settled)
  \/ \E i \in DOMAIN marks : Unstar(i)
  \/ \E i \in DOMAIN marks : Settle(i)
Web ==
  \/ \E p \in Places : WebAdd(p)
  \/ \E i \in DOMAIN server : WebDelete(i)

Next == SyncStep \/ Reader \/ Web \/ PowerCut \/ ClearCache

Spec == Init /\ [][Next]_vars
FairSpec == Spec /\ WF_vars(SyncStep)

-----------------------------------------------------------------------------
(* Properties.                                                             *)

TypeOK ==
  /\ marks \in Seq(Mark) /\ Len(marks) <= Capacity
  /\ \A i, j \in DOMAIN marks : (marks[i].ts # 0 /\ marks[j].ts = marks[i].ts) => i = j
  /\ recs \in RecordFile
  /\ now \in Nat
  /\ server \in Seq(Item)
  /\ pc \in Steps
  /\ s.marks \in Seq(Mark) /\ s.list \in Seq(Record)
  /\ faults \in 0 .. MaxFaults /\ edits \in 0 .. MaxEdits
  /\ removed \cup lost \subseteq Places

\* The server takes a bookmark for deleted on this device only where its reader
\* has removed one, or where a write of the record file lost its record: an
\* incomplete key set never reads as a deletion.
DeletionsAreTheReaders ==
  \A i \in DOMAIN server :
    server[i].state = "deviceDeleted" => server[i].pos \in removed \cup lost

\* Between syncs, a record the watermark covers, and so is never sent again, is
\* known to the server by its key, or by a bookmark of its place.
CoveredIsKnown ==
  pc = "idle" =>
    \A n \in DOMAIN recs.list :
      recs.list[n].id <= recs.watermark =>
        \E i \in DOMAIN server : \/ server[i].key = KeyOf(recs.list[n])
                                 \/ server[i].pos = recs.list[n].pos

\* What the device acknowledges as applied it holds, on its card: the server
\* never offers it again.
AcknowledgedIsHere ==
  pc = "ack" =>
    \A a \in s.acks :
      ~a.failed => \E n \in DOMAIN s.list, i \in DOMAIN marks :
                     KeyOf(s.list[n]) = a.key /\ marks[i].ts = s.list[n].ts

\* Once neither side changes anything, no request fails and the clock is set,
\* both come to hold bookmarks at the same places.
Agree ==
  LET here == {marks[i].pos : i \in DOMAIN marks}
      there == {server[i].pos : i \in {j \in DOMAIN server : server[j].state = "live"}}
      unsent == {marks[i].pos : i \in {j \in DOMAIN marks :
                                          marks[j].ts = 0 \/ ~marks[j].settled}}
  IN here \ unsent = there \ unsent
Converges == <>[](now # 0 => Agree)

=============================================================================
