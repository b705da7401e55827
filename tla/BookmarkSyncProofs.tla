------------------------- MODULE BookmarkSyncProofs -------------------------
(***************************************************************************)
(* For any places, bookmarks and limits: the files stay sound; what the     *)
(* device acknowledges is on its card; the server takes no bookmark for     *)
(* deleted unless the reader removed it or a write lost its record; and no  *)
(* record is passed over while no sync has more to send than a batch        *)
(* carries.  Each under the faults it survives.                             *)
(***************************************************************************)
EXTENDS BookmarkSync, SubsequenceProofs

Keys == (Nat \X Places) \cup {NoKey}
Change == [item : Nat, pos : Places, key : Keys, deleted : BOOLEAN]
AckRecord == [item : Nat, failed : BOOLEAN, key : Keys]
Sync == [marks : Seq(Mark), list : Seq(Record), before : BOOLEAN, watermark : Nat,
         next : Nat \ {0}, late : Nat, top : Nat, incoming : Seq(Change), round : Nat,
         more : BOOLEAN, minted : SUBSET Nat, acks : SUBSET AckRecord, dels : SUBSET Nat]

Typed ==
  /\ marks \in Seq(Mark) /\ Len(marks) <= Capacity
  /\ recs \in RecordFile /\ now \in Nat /\ server \in Seq(Item)
  /\ pc \in Steps /\ s \in Sync /\ Len(s.marks) <= Capacity
  /\ faults \in 0 .. MaxFaults /\ edits \in 0 .. MaxEdits
  /\ removed \subseteq Places /\ lost \subseteq Places

-----------------------------------------------------------------------------
(* The files.                                                              *)

\* A timestamp belongs to one place, and the clock is past all of them.
PlacesOf(q) == {<<q[i].ts, q[i].pos>> : i \in {j \in DOMAIN q : q[j].ts # 0}}
Stamps == PlacesOf(marks) \cup PlacesOf(s.marks) \cup PlacesOf(recs.list) \cup PlacesOf(s.list)
Agreeing(P, t) == \A x \in P : x[1] <= t /\ \A y \in P : x[1] = y[1] => x[2] = y[2]

OneEach(q) == \A i, j \in DOMAIN q : q[i].ts # 0 /\ q[j].ts = q[i].ts => i = j
AllStamped(q) == \A i \in DOMAIN q : q[i].ts # 0

Stamped ==
  /\ Agreeing(Stamps, now)
  /\ OneEach(marks) /\ OneEach(s.marks)
  /\ OneEach(recs.list) /\ AllStamped(recs.list)
  /\ OneEach(s.list) /\ AllStamped(s.list)
  /\ \A t \in s.minted : t <= now

\* The records of q are among those of p.
Within(q, p) == \A n \in DOMAIN q : \E k \in DOMAIN p : p[k] = q[n]

\* A sync has the records of the file, and others: what it adds to them, and what was
\* lost of the file while it was written.  Without that, it works on what the files
\* hold until it applies changes, which are changes to bookmarks the server has.
Early == {"mint", "exchange", "pull", "advance"}
Late == {"apply", "cover", "ack"}
Loaded ==
  /\ pc = "idle" => s = NoSync
  /\ ~recs.here => DOMAIN recs.list = {}
  /\ pc # "idle" => Within(recs.list, s.list)
  /\ pc \in Early =>
       /\ s.marks = marks /\ recs.watermark <= s.watermark
       /\ s.minted = {} /\ s.acks = {}
       /\ "short" \notin Faults => s.list = recs.list /\ s.watermark = recs.watermark
  /\ pc \in {"mint", "exchange"} => DOMAIN s.incoming = {}
  /\ pc = "mint" => s.late > s.watermark
  /\ \A n \in DOMAIN s.incoming :
       s.incoming[n].item \in DOMAIN server /\ server[s.incoming[n].item].pos = s.incoming[n].pos

FilesInv == Typed /\ Stamped /\ Loaded

-----------------------------------------------------------------------------
(* What the watermark covers.                                              *)

\* No sync has more to send than a batch carries.
OneBatch == pc = "exchange" => Len(s.list) <= Batch

Knows(items, r) == \E i \in DOMAIN items : items[i].key = KeyOf(r) \/ items[i].pos = r.pos
Covered ==
  /\ \A n \in DOMAIN recs.list :
       recs.list[n].id <= recs.watermark => Knows(server, recs.list[n])
  /\ pc \in {"mint", "exchange"} =>
       \A n \in DOMAIN s.list : s.list[n].id <= s.watermark => Knows(server, s.list[n])
  /\ pc \in {"pull", "advance"} => \A n \in DOMAIN s.list : Knows(server, s.list[n])
  /\ pc \in Late =>
       \A n \in DOMAIN s.list : s.list[n].ts \in s.minted => Knows(server, s.list[n])

-----------------------------------------------------------------------------
(* What is acknowledged.                                                   *)

\* Retain has left the records of bookmarks that are here.
Here(r, m) == \E i \in DOMAIN m : m[i].ts = r.ts /\ m[i].settled
Retained ==
  pc \in Early \ {"mint"} => \A n \in DOMAIN s.list : Here(s.list[n], s.marks)

\* No other bookmark of its place is there, or owed to the device as deleted.
Alone(i) ==
  \A j \in DOMAIN server :
    j # i /\ server[j].pos = server[i].pos =>
      /\ server[j].state # "live"
      /\ server[j].state = "webDeleted" => server[j].key = NoKey

First(p) == s.list[Min(At(p))]

Waiting ==
  \A i \in DOMAIN server :
    /\ server[i].state = "live" /\ server[i].key = NoKey => Alone(i)
    /\ server[i].key # NoKey => server[i].key[2] = server[i].pos
    /\ server[i].state = "parked" => server[i].key = NoKey

\* What became of an addition received, until it is acknowledged.
Added(c) ==
  /\ server[c.item].state \in {"live", "webDeleted"}
  /\ server[c.item].key = NoKey => Alone(c.item)
  /\ server[c.item].key # NoKey =>
       /\ At(c.pos) # {}
       /\ \A j \in DOMAIN server :
            j # c.item /\ server[j].pos = c.pos /\ server[j].state \in {"live", "webDeleted"} =>
              server[j].key # KeyOf(First(c.pos))
  /\ pc \in Late /\ At(c.pos) # {} => Here(First(c.pos), s.marks)

Deleted(c) ==
  server[c.item].state = "webDeleted" /\ server[c.item].key = c.key /\ c.key # NoKey

Taken ==
  /\ \A n \in DOMAIN s.incoming :
       IF s.incoming[n].deleted THEN Deleted(s.incoming[n]) ELSE Added(s.incoming[n])
  /\ \A m, n \in DOMAIN s.incoming :
       s.incoming[m].deleted # s.incoming[n].deleted =>
         s.incoming[m].item # s.incoming[n].item

Answered(a, c) ==
  /\ ~c.deleted /\ c.item = a.item
  /\ a.failed => At(c.pos) = {} /\ c.pos \in Unplaceable
  /\ ~a.failed => At(c.pos) # {} /\ a.key = KeyOf(First(c.pos))

Acked ==
  /\ \A a \in s.acks : \E n \in DOMAIN s.incoming : Answered(a, s.incoming[n])
  /\ pc \in {"cover", "ack"} => s.marks = marks

AckInv == Retained /\ Waiting /\ Taken /\ Acked

-----------------------------------------------------------------------------
(* What is deleted.                                                        *)

\* A live bookmark the server has linked to this device has its record and its mark.
\* What a sync has of records beyond the file was lost of it.
Held(key, list, m) == \E n \in DOMAIN list : KeyOf(list[n]) = key /\ Here(list[n], m)

LinkedHeld ==
  \A i \in DOMAIN server :
    server[i].state = "live" /\ server[i].key # NoKey
      /\ server[i].pos \notin removed \cup lost =>
      /\ Held(server[i].key, recs.list, marks)
      /\ pc # "idle" => Held(server[i].key, recs.list, s.marks)

Written ==
  pc # "idle" =>
    \A n \in DOMAIN s.list :
      s.list[n].pos \in lost \/ \E k \in DOMAIN recs.list : recs.list[k] = s.list[n]

KeysApart ==
  \A i, j \in DOMAIN server :
    i # j /\ server[i].state = "live" /\ server[i].key # NoKey
          /\ server[j].state \in {"live", "webDeleted"} => server[i].key # server[j].key

DeletionInv == LinkedHeld /\ Written /\ KeysApart /\ DeletionsAreTheReaders

-----------------------------------------------------------------------------
(* Keys, lists and timestamps.                                             *)

\* A record's key is one, and tells the record's identity and place.
LEMMA KeyFacts ==
  ASSUME NEW r \in Record
  PROVE  KeyOf(r) \in Keys /\ KeyOf(r) # NoKey /\ KeyOf(r)[2] = r.pos
<1>1. r.id \in Nat /\ r.pos \in Places
  BY DEF Record
<1>2. KeyOf(r) \in Keys
  BY <1>1 DEF KeyOf, Keys
<1>3. KeyOf(r) # NoKey
  BY <1>1 DEF KeyOf, NoKey
<1> QED
  BY <1>2, <1>3 DEF KeyOf

\* Being without a key is a state of the key.
LEMMA NoKeyIsKey == NoKey \in Keys
BY DEF Keys

\* The sets of records hold what their fields say.
LEMMA FieldTypes ==
  /\ \A x \in Mark : x.ts \in Nat /\ x.pos \in Places /\ x.settled \in BOOLEAN
  /\ \A x \in Record : x.ts \in Nat /\ x.id \in Nat /\ x.pos \in Places
  /\ \A ts \in Nat, pos \in Places, settled \in BOOLEAN :
       [ts |-> ts, pos |-> pos, settled |-> settled] \in Mark
  /\ \A ts \in Nat, id \in Nat, pos \in Places : [ts |-> ts, id |-> id, pos |-> pos] \in Record
BY DEF Mark, Record

\* q2 is q with x appended.
Longer(q2, q, x) ==
  /\ Len(q2) = Len(q) + 1
  /\ \A i \in DOMAIN q : i \in DOMAIN q2 /\ q2[i] = q[i]
  /\ Len(q2) \in DOMAIN q2 /\ Len(q2) \notin DOMAIN q /\ q2[Len(q2)] = x
  /\ \A i \in DOMAIN q2 : i \in DOMAIN q \/ i = Len(q2)
  /\ PlacesOf(q2) \subseteq PlacesOf(q) \cup {<<x.ts, x.pos>>}
  /\ OneEach(q) /\ (\A i \in DOMAIN q : q[i].ts # x.ts) => OneEach(q2)
  /\ AllStamped(q) /\ x.ts # 0 => AllStamped(q2)

\* A list with one more.
LEMMA AppendFile ==
  ASSUME NEW T, NEW q \in Seq(T), NEW x \in T
  PROVE  Append(q, x) \in Seq(T) /\ Longer(Append(q, x), q, x)
<1> DEFINE q2 == Append(q, x)
<1>1. /\ q2 \in Seq(T) /\ Len(q2) = Len(q) + 1 /\ Len(q) \in Nat
      /\ \A i \in 1 .. Len(q) : q2[i] = q[i]
      /\ q2[Len(q) + 1] = x
      /\ \A i \in 1 .. Len(q) + 1 : i \in 1 .. Len(q) \/ i = Len(q) + 1
  BY OneMore
<1>2. DOMAIN q = 1 .. Len(q) /\ DOMAIN q2 = 1 .. Len(q) + 1
  BY <1>1, LenProperties
<1> DEFINE l == Len(q) + 1
<1>3. /\ \A i \in DOMAIN q : i \in DOMAIN q2 /\ q2[i] = q[i]
      /\ l \in DOMAIN q2 /\ l \notin DOMAIN q /\ q2[l] = x
      /\ \A i \in DOMAIN q2 : i \in DOMAIN q \/ i = l
      /\ Len(q2) = l
  BY <1>1, <1>2
<1> HIDE DEF l, q2
<1>4. PlacesOf(q2) \subseteq PlacesOf(q) \cup {<<x.ts, x.pos>>}
  BY <1>3 DEF PlacesOf
<1>5. OneEach(q) /\ (\A i \in DOMAIN q : q[i].ts # x.ts) => OneEach(q2)
  <2> SUFFICES ASSUME OneEach(q), \A i \in DOMAIN q : q[i].ts # x.ts,
                      NEW i \in DOMAIN q2, NEW j \in DOMAIN q2, q2[i].ts # 0, q2[j].ts = q2[i].ts
               PROVE  i = j
    BY DEF OneEach
  <2>1. CASE i \in DOMAIN q /\ j \in DOMAIN q
    BY <1>3, <2>1, Zenon DEF OneEach
  <2>2. CASE i \in DOMAIN q /\ j = l
    BY <1>3, <2>2, Zenon
  <2>3. CASE i = l /\ j \in DOMAIN q
    BY <1>3, <2>3, Zenon
  <2> QED BY <1>3, <2>1, <2>2, <2>3, Zenon
<1>6. AllStamped(q) /\ x.ts # 0 => AllStamped(q2)
  BY <1>3, Zenon DEF AllStamped
<1>7. Longer(q2, q, x)
  BY <1>1, <1>3, <1>4, <1>5, <1>6, Zenon DEF Longer
<1> QED
  BY <1>1, <1>7, Zenon DEF q2

\* q2 has those of q that are at places in S.
Shorter(q2, q, S) ==
  /\ Len(q2) <= Len(q)
  /\ \A k \in DOMAIN q2 : \E i \in DOMAIN q : i \in S /\ q2[k] = q[i]
  /\ \A i \in DOMAIN q : i \in S => \E k \in DOMAIN q2 : q2[k] = q[i]
  /\ PlacesOf(q2) \subseteq PlacesOf(q)
  /\ OneEach(q) => OneEach(q2)
  /\ AllStamped(q) => AllStamped(q2)
  /\ (\A i \in DOMAIN q : i \in S) => q2 = q

\* A list with only some of its elements.
LEMMA PickedFile ==
  ASSUME NEW T, NEW q \in Seq(T), NEW S
  PROVE  Picked(q, S) \in Seq(T) /\ Shorter(Picked(q, S), q, S)
<1> DEFINE q2 == Picked(q, S)
<1>1. /\ q2 \in Seq(T) /\ Len(q2) \in Nat /\ Len(q2) <= Len(q)
      /\ \A k \in 1 .. Len(q2) : \E i \in 1 .. Len(q) : i \in S /\ q2[k] = q[i]
      /\ \A i \in 1 .. Len(q) : i \in S => \E k \in 1 .. Len(q2) : q2[k] = q[i]
      /\ (\A i \in 1 .. Len(q) : i \in S) => q2 = q
  BY PickedElements
<1>2. DOMAIN q = 1 .. Len(q) /\ DOMAIN q2 = 1 .. Len(q2) /\ Len(q) \in Nat
  BY <1>1, LenProperties
<1>3. PICK f : Placing(f, q2, q, S, Len(q))
  BY PickedPlaces
<1> HIDE DEF q2
<1>4. /\ \A k \in DOMAIN q2 : f[k] \in DOMAIN q /\ q2[k] = q[f[k]] /\ f[k] \in Nat /\ k \in Nat
      /\ \A j, k \in DOMAIN q2 : j < k => f[j] < f[k]
  <2>1. \A k \in 1 .. Len(q2) : f[k] \in 1 .. Len(q) /\ q2[k] = q[f[k]]
    BY <1>3 DEF Placing
  <2>2. \A j, k \in 1 .. Len(q2) : j < k => f[j] < f[k]
    BY <1>3 DEF Placing
  <2> QED BY <1>2, <2>1, <2>2
<1>5. ASSUME NEW j \in DOMAIN q2, NEW k \in DOMAIN q2, f[j] = f[k] PROVE j = k
  <2>1. ~(j < k) /\ ~(k < j)
    BY <1>4, <1>5
  <2> QED BY <1>4, <2>1
<1>6. PlacesOf(q2) \subseteq PlacesOf(q)
  BY <1>4 DEF PlacesOf
<1>7. OneEach(q) => OneEach(q2)
  <2> SUFFICES ASSUME OneEach(q), NEW i \in DOMAIN q2, NEW j \in DOMAIN q2,
                      q2[i].ts # 0, q2[j].ts = q2[i].ts
               PROVE  i = j
    BY DEF OneEach
  <2>1. f[i] \in DOMAIN q /\ f[j] \in DOMAIN q /\ q2[i] = q[f[i]] /\ q2[j] = q[f[j]]
    BY <1>4
  <2>2. q[f[i]].ts # 0 /\ q[f[j]].ts = q[f[i]].ts
    BY <2>1
  <2>3. f[i] = f[j]
    BY <2>1, <2>2, Zenon DEF OneEach
  <2> QED BY <1>5, <2>3
<1>8. AllStamped(q) => AllStamped(q2)
  BY <1>4, Zenon DEF AllStamped
<1>9. /\ \A k \in DOMAIN q2 : \E i \in DOMAIN q : i \in S /\ q2[k] = q[i]
      /\ \A i \in DOMAIN q : i \in S => \E k \in DOMAIN q2 : q2[k] = q[i]
      /\ (\A i \in DOMAIN q : i \in S) => q2 = q
  <2>1. \A k \in DOMAIN q2 : \E i \in DOMAIN q : i \in S /\ q2[k] = q[i]
    BY <1>1, <1>2
  <2>2. \A i \in DOMAIN q : i \in S => \E k \in DOMAIN q2 : q2[k] = q[i]
    BY <1>1, <1>2
  <2>3. (\A i \in DOMAIN q : i \in S) => q2 = q
    BY <1>1, <1>2
  <2> QED BY <2>1, <2>2, <2>3
<1>10. Shorter(q2, q, S)
  BY <1>1, <1>6, <1>7, <1>8, <1>9, Zenon DEF Shorter
<1> QED
  BY <1>1, <1>10, Zenon DEF q2

\* Timestamps are numbers, and what has one has a place.
LEMMA PlacesTyped ==
  ASSUME Typed
  PROVE  Stamps \subseteq Nat \X Places
<1>1. marks \in Seq(Mark) /\ s.marks \in Seq(Mark) /\ recs.list \in Seq(Record) /\ s.list \in Seq(Record)
  BY DEF Typed, Sync, RecordFile
<1>2. ASSUME NEW q \in Seq(Mark) PROVE PlacesOf(q) \subseteq Nat \X Places
  BY FieldTypes DEF PlacesOf
<1>3. ASSUME NEW q \in Seq(Record) PROVE PlacesOf(q) \subseteq Nat \X Places
  BY FieldTypes DEF PlacesOf
<1>4. /\ PlacesOf(marks) \subseteq Nat \X Places /\ PlacesOf(s.marks) \subseteq Nat \X Places
      /\ PlacesOf(recs.list) \subseteq Nat \X Places /\ PlacesOf(s.list) \subseteq Nat \X Places
  BY <1>1, <1>2, <1>3
<1> QED
  BY <1>4 DEF Stamps

\* Fewer timestamps still agree, and later.
LEMMA AgreeingFewer ==
  ASSUME NEW P \in SUBSET (Nat \X Places), NEW t \in Nat, NEW t2 \in Nat, t <= t2,
         Agreeing(P, t), NEW P2 \in SUBSET P
  PROVE  Agreeing(P2, t2)
<1>1. \A x \in P : x[1] \in Nat
  OBVIOUS
<1> QED
  BY <1>1 DEF Agreeing

\* One of a second all others are before agrees with them.
LEMMA AgreeingOneMore ==
  ASSUME NEW P \in SUBSET (Nat \X Places), NEW t \in Nat, NEW t2 \in Nat, t < t2,
         Agreeing(P, t), NEW p, NEW P2 \in SUBSET (P \cup {<<t2, p>>})
  PROVE  Agreeing(P2, t2)
<1>1. \A x \in P : x[1] \in Nat /\ x[1] <= t /\ x[1] # t2
  BY DEF Agreeing
<1>2. SUFFICES ASSUME NEW x \in P2
               PROVE  x[1] <= t2 /\ \A y \in P2 : x[1] = y[1] => x[2] = y[2]
  BY DEF Agreeing
<1>3. \A y \in P2 : y \in P \/ (y[1] = t2 /\ y[2] = p)
  OBVIOUS
<1>4. x[1] <= t2
  BY <1>1, <1>3
<1>5. ASSUME NEW y \in P2, x[1] = y[1] PROVE x[2] = y[2]
  BY <1>1, <1>3, <1>5, Zenon DEF Agreeing
<1> QED
  BY <1>4, <1>5

\* A list's timestamps are among those that agree.
LEMMA StampOf ==
  ASSUME NEW q, NEW P, PlacesOf(q) \subseteq P, NEW i \in DOMAIN q, q[i].ts # 0
  PROVE  <<q[i].ts, q[i].pos>> \in P
BY DEF PlacesOf

\* All timestamps are before the clock.
LEMMA Past ==
  ASSUME Typed, Stamped
  PROVE  /\ \A i \in DOMAIN marks : marks[i].ts \in Nat /\ marks[i].ts <= now
         /\ \A i \in DOMAIN s.marks : s.marks[i].ts \in Nat /\ s.marks[i].ts <= now
         /\ \A n \in DOMAIN recs.list : recs.list[n].ts \in Nat /\ recs.list[n].ts <= now
         /\ \A n \in DOMAIN s.list : s.list[n].ts \in Nat /\ s.list[n].ts <= now
<1>1. /\ marks \in Seq(Mark) /\ s.marks \in Seq(Mark) /\ recs.list \in Seq(Record)
      /\ s.list \in Seq(Record) /\ now \in Nat
  BY DEF Typed, Sync, RecordFile
<1>2. Agreeing(Stamps, now)
  BY DEF Stamped
<1>3. ASSUME NEW q, PlacesOf(q) \subseteq Stamps, NEW i \in DOMAIN q, q[i].ts \in Nat
      PROVE  q[i].ts <= now
  <2>1. CASE q[i].ts = 0
    BY <1>1, <2>1
  <2>2. CASE q[i].ts # 0
    <3> DEFINE x == <<q[i].ts, q[i].pos>>
    <3>1. x \in Stamps
      BY <1>3, <2>2, StampOf
    <3>2. x[1] <= now
      BY <1>2, <3>1, Zenon DEF Agreeing
    <3> QED BY <3>2
  <2> QED BY <2>1, <2>2
<1>4. /\ PlacesOf(marks) \subseteq Stamps /\ PlacesOf(s.marks) \subseteq Stamps
      /\ PlacesOf(recs.list) \subseteq Stamps /\ PlacesOf(s.list) \subseteq Stamps
  BY DEF Stamps
<1>5. /\ \A i \in DOMAIN marks : marks[i].ts \in Nat
      /\ \A i \in DOMAIN s.marks : s.marks[i].ts \in Nat
      /\ \A n \in DOMAIN recs.list : recs.list[n].ts \in Nat
      /\ \A n \in DOMAIN s.list : s.list[n].ts \in Nat
  BY <1>1, FieldTypes
<1> QED
  BY <1>3, <1>4, <1>5

\* What bears the same timestamp is at the same place.
LEMMA SamePlace ==
  ASSUME Stamped, NEW q, NEW r, PlacesOf(q) \subseteq Stamps, PlacesOf(r) \subseteq Stamps,
         NEW i \in DOMAIN q, NEW j \in DOMAIN r, q[i].ts # 0, q[i].ts = r[j].ts
  PROVE  q[i].pos = r[j].pos
<1> DEFINE x == <<q[i].ts, q[i].pos>>
           y == <<r[j].ts, r[j].pos>>
<1>1. x \in Stamps /\ y \in Stamps
  BY StampOf
<1>2. Agreeing(Stamps, now)
  BY DEF Stamped
<1>3. x[1] = y[1] => x[2] = y[2]
  BY <1>1, <1>2, Zenon DEF Agreeing
<1> QED
  BY <1>3

\* A second after all timestamps is its own unique timestamp.
LEMMA UniqueIsClock ==
  ASSUME NEW m \in Seq(Mark), NEW t \in Nat, t # 0, \A i \in DOMAIN m : m[i].ts < t
  PROVE  UniqueTimestamp(m, t) = t
<1>1. Len(m) \in Nat
  BY LenProperties
<1>2. t \notin Timestamps(m)
  BY FieldTypes DEF Timestamps
<1> HIDE DEF Timestamps
<1> DEFINE ok(u) == IF t = 0 THEN u = 0
                    ELSE u \notin Timestamps(m) /\ \A v \in t .. u - 1 : v \in Timestamps(m)
<1>3. t \in t .. t + Len(m) /\ ok(t)
  BY <1>1, <1>2
<1>4. ASSUME NEW u \in t .. t + Len(m), ok(u) PROVE u = t
  <2>1. SUFFICES ASSUME t < u PROVE FALSE
    BY <1>1, <1>4
  <2>2. t \in t .. u - 1
    BY <1>1, <2>1
  <2> QED BY <1>2, <1>4, <2>2
<1> HIDE DEF ok
<1>5. UniqueTimestamp(m, t) = CHOOSE u \in t .. t + Len(m) : ok(u)
  BY DEF UniqueTimestamp, ok
<1> QED
  BY <1>3, <1>4, <1>5, Zenon

\* Nothing holds no timestamps.
LEMMA NoneOfNothing ==
  ASSUME NEW q, DOMAIN q = {}
  PROVE  PlacesOf(q) = {} /\ OneEach(q) /\ AllStamped(q)
BY DEF PlacesOf, OneEach, AllStamped

-----------------------------------------------------------------------------
(* What goes out, and what the server makes of it.                         *)

\* Sends says where what goes out is in the list of records: in order, and without
\* a gap.
Sends(g) ==
  /\ \A k \in DOMAIN Outgoing :
       g[k] \in DOMAIN s.list /\ Outgoing[k] = s.list[g[k]] /\ g[k] \in Nat /\ k \in Nat
  /\ \A j, k \in DOMAIN Outgoing : j < k => g[j] < g[k]
  /\ \A k \in DOMAIN Outgoing, m \in DOMAIN s.list :
       m <= g[k] /\ s.list[m].id > s.watermark => \E j \in DOMAIN Outgoing : j <= k /\ g[j] = m

\* What goes out are records above the watermark: all, if a batch carries them.
LEMMA OutgoingAre ==
  ASSUME Typed
  PROVE  /\ Outgoing \in Seq(Record)
         /\ \E g : Sends(g)
         /\ Len(s.list) <= Batch =>
              \A m \in DOMAIN s.list :
                s.list[m].id > s.watermark => \E k \in DOMAIN Outgoing : Outgoing[k] = s.list[m]
         /\ \A k \in DOMAIN Outgoing : Outgoing[k].id > s.watermark
<1>1. s.list \in Seq(Record) /\ s.watermark \in Nat
  BY DEF Typed, Sync
<1> DEFINE newer == {n \in DOMAIN s.list : s.list[n].id > s.watermark}
           list == Picked(s.list, newer)
           size == Min({Len(list), Batch})
<1>2. /\ list \in Seq(Record) /\ Len(list) <= Len(s.list)
      /\ \E f : Placing(f, list, s.list, newer, Len(s.list))
  BY <1>1, PickedPlaces
<1> HIDE DEF list
<1>3. PICK f : Placing(f, list, s.list, newer, Len(s.list))
  BY <1>2
<1>4. Len(list) \in Nat /\ Len(s.list) \in Nat /\ Batch \in Nat
  BY <1>1, <1>2, LenProperties, ConstantsAssumption
<1>5. size \in {Len(list), Batch} /\ size <= Len(list) /\ size <= Batch
  BY <1>4, OfTwo
<1> HIDE DEF size
<1>6. size \in Nat
  BY <1>4, <1>5
<1> DEFINE out == SubSeq(list, 1, size)
<1>7. Outgoing = out
  BY DEF Outgoing, out, size, list, newer
<1>8. out \in Seq(Record) /\ Len(out) = size /\ \A k \in 1 .. size : out[k] = list[k]
  BY <1>2, <1>5, <1>6, Beginning
<1> HIDE DEF out
<1>9. DOMAIN out = 1 .. size /\ DOMAIN s.list = 1 .. Len(s.list)
  BY <1>1, <1>8, LenProperties
<1>10. /\ \A k \in 1 .. Len(list) : f[k] \in 1 .. Len(s.list) /\ f[k] \in newer /\ list[k] = s.list[f[k]]
       /\ \A j, k \in 1 .. Len(list) : j < k => f[j] < f[k]
       /\ \A i \in 1 .. Len(s.list) : i \in newer => \E k \in 1 .. Len(list) : f[k] = i
  BY <1>3 DEF Placing
<1>11. \A k \in 1 .. size : k \in 1 .. Len(list)
  BY <1>4, <1>5, <1>6
<1>12. \A k \in DOMAIN out :
         f[k] \in DOMAIN s.list /\ out[k] = s.list[f[k]] /\ f[k] \in Nat /\ k \in Nat /\ f[k] \in newer
  <2> HIDE DEF newer
  <2>1. SUFFICES ASSUME NEW k \in DOMAIN out
                 PROVE f[k] \in DOMAIN s.list /\ out[k] = s.list[f[k]] /\ f[k] \in Nat /\ k \in Nat /\ f[k] \in newer
    OBVIOUS
  <2>2. k \in 1 .. size /\ k \in 1 .. Len(list)
    BY <1>9, <1>11
  <2>3. f[k] \in 1 .. Len(s.list) /\ f[k] \in newer /\ list[k] = s.list[f[k]] /\ out[k] = list[k]
    BY <1>8, <1>10, <2>2
  <2> QED BY <1>4, <1>9, <2>2, <2>3
<1>13. \A j, k \in DOMAIN out : j < k => f[j] < f[k]
  BY <1>9, <1>10, <1>11
<1>14. ASSUME NEW k \in DOMAIN out, NEW m \in DOMAIN s.list, m <= f[k], s.list[m].id > s.watermark
       PROVE  \E j \in DOMAIN out : j <= k /\ f[j] = m
  <2>1. m \in newer
    BY <1>14
  <2> HIDE DEF newer
  <2>2. PICK j \in 1 .. Len(list) : f[j] = m
    BY <1>9, <1>10, <2>1
  <2>3. k \in 1 .. size /\ k \in 1 .. Len(list)
    BY <1>9, <1>11
  <2>4. k < j => f[k] < f[j]
    BY <1>10, <2>2, <2>3
  <2>5. f[k] \in 1 .. Len(s.list) /\ f[j] \in 1 .. Len(s.list)
    BY <1>10, <2>2, <2>3
  <2>6. j <= k
    BY <1>4, <1>6, <1>14, <2>2, <2>3, <2>4, <2>5
  <2>7. j \in 1 .. size
    BY <1>4, <1>6, <2>2, <2>3, <2>6
  <2> QED BY <1>9, <2>2, <2>6, <2>7
<1>15. Sends(f)
  BY <1>7, <1>12, <1>13, <1>14, Zenon DEF Sends
<1>16. ASSUME Len(s.list) <= Batch, NEW m \in DOMAIN s.list, s.list[m].id > s.watermark
       PROVE  \E k \in DOMAIN out : out[k] = s.list[m]
  <2>1. size = Len(list)
    BY <1>2, <1>4, <1>5, <1>16, ConstantsAssumption
  <2>2. m \in newer
    BY <1>16
  <2> HIDE DEF newer
  <2>3. PICK k \in 1 .. Len(list) : f[k] = m
    BY <1>9, <1>10, <2>2
  <2>4. k \in DOMAIN out /\ out[k] = s.list[m]
    BY <1>8, <1>9, <1>10, <2>1, <2>3
  <2> QED BY <2>4
<1>17. \A k \in DOMAIN out : out[k].id > s.watermark
  BY <1>12
<1> QED
  BY <1>7, <1>8, <1>15, <1>16, <1>17, Zenon

\* What the server keeps of a bookmark.
ItemStates == {"live", "parked", "webDeleted", "deviceDeleted", "gone"}
LEMMA ItemFields ==
  /\ \A x \in Item : /\ x.pos \in Places /\ x.key \in Keys /\ x.web \in BOOLEAN
                     /\ x.ready \in BOOLEAN /\ x.state \in ItemStates
  /\ \A pos \in Places, key \in Keys, web, ready \in BOOLEAN, state \in ItemStates :
       [pos |-> pos, key |-> key, web |-> web, ready |-> ready, state |-> state] \in Item
  /\ \A x \in Item, key \in Keys, state \in ItemStates :
       /\ [x EXCEPT !.ready = TRUE, !.key = key, !.state = state] \in Item
       /\ [x EXCEPT !.state = state, !.key = key] \in Item
<1>1. Item = [pos : Places, key : Keys, web : BOOLEAN, ready : BOOLEAN, state : ItemStates]
  BY DEF Item, Keys, ItemStates
<1> HIDE DEF ItemStates
<1> QED
  BY <1>1

\* Which entries link a waiting bookmark.
LEMMA LinkedAre ==
  ASSUME Typed, NEW entries \in Seq(Record), NEW i \in DOMAIN server
  PROVE  /\ \A n \in Linked(entries, i) :
              /\ n \in News(entries) /\ n \in DOMAIN entries /\ n \in Nat
              /\ entries[n].pos = server[i].pos
         /\ Linked(entries, i) # {} =>
              /\ server[i].state = "live" /\ server[i].key = NoKey
              /\ Min(Linked(entries, i)) \in Linked(entries, i)
              /\ \A n \in Linked(entries, i) : Min(Linked(entries, i)) <= n
<1>1. Linked(entries, i) \in SUBSET (DOMAIN entries)
  BY DEF Linked, News
<1>2. DOMAIN entries \subseteq Nat
  BY LenProperties
<1>3. Linked(entries, i) # {} =>
        /\ Min(Linked(entries, i)) \in Linked(entries, i)
        /\ \A n \in Linked(entries, i) : Min(Linked(entries, i)) <= n
  BY <1>1, FirstOf
<1>4. Linked(entries, i) # {} => server[i].state = "live" /\ server[i].key = NoKey
  BY DEF Linked
<1>5. \A n \in Linked(entries, i) : n \in News(entries) /\ entries[n].pos = server[i].pos
  BY DEF Linked
<1> QED
  BY <1>1, <1>2, <1>3, <1>4, <1>5

\* What the server makes of a bookmark it had.
LEMMA HeardIs ==
  ASSUME Typed, NEW entries \in Seq(Record), NEW keys, NEW complete \in BOOLEAN,
         NEW i \in DOMAIN server, NEW h, h = Heard(entries, keys, complete, i)
  PROVE  /\ h \in Item /\ h.pos = server[i].pos
         /\ h.state = IF complete /\ server[i].key \notin keys \cup {NoKey} THEN "deviceDeleted"
                      ELSE server[i].state
         /\ h.key = IF Linked(entries, i) = {} THEN server[i].key
                    ELSE KeyOf(entries[Min(Linked(entries, i))])
<1> DEFINE k == IF Linked(entries, i) = {} THEN server[i].key
                ELSE KeyOf(entries[Min(Linked(entries, i))])
           st == IF complete /\ server[i].key \notin keys \cup {NoKey} THEN "deviceDeleted"
                 ELSE server[i].state
           x == server[i]
<1>1. x \in Item
  BY ElementOfSeq DEF Typed
<1>2. st \in ItemStates
  BY <1>1, ItemFields DEF ItemStates
<1>3. k \in Keys
  <2>1. CASE Linked(entries, i) = {}
    BY <1>1, <2>1, ItemFields
  <2>2. CASE Linked(entries, i) # {}
    <3>1. Min(Linked(entries, i)) \in DOMAIN entries
      BY <2>2, LinkedAre
    <3>2. entries[Min(Linked(entries, i))] \in Record
      BY <3>1, ElementOfSeq
    <3> QED BY <2>2, <3>2, KeyFacts
  <2> QED BY <2>1, <2>2
<1>4. h = [x EXCEPT !.ready = TRUE, !.key = k, !.state = st]
  BY DEF Heard
<1> HIDE DEF k, st, x
<1>5. Item = [pos : Places, key : Keys, web : BOOLEAN, ready : BOOLEAN, state : ItemStates]
  BY DEF Item, Keys, ItemStates
<1> HIDE DEF ItemStates
<1>6. h \in Item /\ h.pos = x.pos /\ h.key = k /\ h.state = st
  BY <1>1, <1>2, <1>3, <1>4, <1>5
<1> QED
  BY <1>6 DEF k, st, x

\* What the server makes of an entry of its own.
LEMMA MadeIs ==
  ASSUME NEW r \in Record
  PROVE  Made(r) \in Item /\ Made(r).pos = r.pos /\ Made(r).key = KeyOf(r) /\ Made(r).state = "live"
<1>1. r.pos \in Places /\ KeyOf(r) \in Keys
  BY FieldTypes, KeyFacts
<1>2. "live" \in ItemStates
  BY DEF ItemStates
<1> HIDE DEF KeyOf
<1> QED
  BY <1>1, <1>2, ItemFields DEF Made

\* Entries the server makes a bookmark of their own for differ in their keys.
LEMMA NewsApart ==
  ASSUME NEW entries \in Seq(Record), NEW m \in News(entries), NEW n \in News(entries),
         KeyOf(entries[m]) = KeyOf(entries[n])
  PROVE  m = n
<1>1. \A j \in News(entries) : j \in Nat \ {0}
  BY LenProperties DEF News
<1>2. ASSUME NEW j \in News(entries), NEW k \in News(entries), j < k
      PROVE  KeyOf(entries[j]) # KeyOf(entries[k])
  <2>1. j \in 1 .. k - 1
    BY <1>1, <1>2
  <2> QED BY <2>1 DEF News
<1> QED
  BY <1>1, <1>2

\* What there is to know of the server after a request.
AfterRequest(next, entries, keys, complete) ==
  /\ next \in Seq(Item)
  /\ \A i \in DOMAIN server : i \in DOMAIN next /\ next[i].pos = server[i].pos
  /\ \A i \in DOMAIN server :
       \/ next[i].state = server[i].state
       \/ /\ server[i].state = "live" /\ next[i].state = "deviceDeleted"
          /\ complete /\ server[i].key \notin keys /\ server[i].key # NoKey
  /\ \A i \in DOMAIN server : Linked(entries, i) = {} => next[i].key = server[i].key
  /\ \A i \in DOMAIN server :
       Linked(entries, i) # {} => next[i].key = KeyOf(entries[Min(Linked(entries, i))])
  /\ \A j \in DOMAIN next :
       j \notin DOMAIN server =>
         \E n \in Unlinked(entries) :
           /\ next[j].pos = entries[n].pos /\ next[j].key = KeyOf(entries[n])
           /\ next[j].state = "live"
  /\ \A j, k \in DOMAIN next :
       j \notin DOMAIN server /\ k \notin DOMAIN server /\ next[j].key = next[k].key => j = k
  /\ \A n \in Unlinked(entries) : \E j \in DOMAIN next : next[j].key = KeyOf(entries[n])

\* The server after a request.
LEMMA ReceivedIs ==
  ASSUME Typed, NEW entries \in Seq(Record), NEW keys, NEW complete \in BOOLEAN,
         NEW next, next = Received(entries, keys, complete)
  PROVE  AfterRequest(next, entries, keys, complete)
<1> DEFINE own == Picked(entries, Unlinked(entries))
           old(i) == IF server[i].state # "live" THEN server[i]
                     ELSE Heard(entries, keys, complete, i)
           olds == [i \in DOMAIN server |-> old(i)]
           news == [n \in DOMAIN own |-> Made(own[n])]
<1>1. next = olds \o news
  BY DEF Received
<1>2. own \in Seq(Record) /\ \E f : Placing(f, own, entries, Unlinked(entries), Len(entries))
  BY PickedPlaces
<1> HIDE DEF own
<1>3. PICK f : Placing(f, own, entries, Unlinked(entries), Len(entries))
  BY <1>2
<1>4. /\ server \in Seq(Item) /\ Len(server) \in Nat /\ DOMAIN server = 1 .. Len(server)
      /\ Len(own) \in Nat /\ DOMAIN own = 1 .. Len(own)
      /\ Len(entries) \in Nat /\ DOMAIN entries = 1 .. Len(entries)
  BY <1>2, LenProperties DEF Typed
<1>5. \A i \in DOMAIN server : old(i) \in Item
  BY <1>4, HeardIs, ElementOfSeq
<1>6. \A n \in DOMAIN own : own[n] \in Record /\ Made(own[n]) \in Item
  BY <1>2, ElementOfSeq, MadeIs
<1> HIDE DEF old
<1>7. olds \in Seq(Item) /\ Len(olds) = Len(server) /\ \A i \in DOMAIN server : olds[i] = old(i)
  BY <1>4, <1>5, FunctionIsList
<1>8. news \in Seq(Item) /\ Len(news) = Len(own) /\ \A n \in DOMAIN own : news[n] = Made(own[n])
  BY <1>4, <1>6, FunctionIsList
<1> HIDE DEF olds, news
<1> DEFINE ls == Len(server)
           lo == Len(own)
<1>9. /\ next \in Seq(Item) /\ Len(next) = ls + lo
      /\ \A i \in 1 .. ls + lo : next[i] = IF i <= ls THEN olds[i] ELSE news[i - ls]
  <2>1. /\ olds \o news \in Seq(Item) /\ Len(olds \o news) = Len(olds) + Len(news)
        /\ \A i \in 1 .. Len(olds) + Len(news) :
             (olds \o news)[i] = IF i <= Len(olds) THEN olds[i] ELSE news[i - Len(olds)]
    BY <1>7, <1>8, ConcatProperties, SMTT(30)
  <2> QED BY <1>1, <1>7, <1>8, <2>1
<1>10. ls \in Nat /\ lo \in Nat /\ DOMAIN next = 1 .. ls + lo /\ DOMAIN server = 1 .. ls /\ DOMAIN own = 1 .. lo
  BY <1>4, <1>9, LenProperties
<1> HIDE DEF ls, lo
<1>11. \A i \in DOMAIN server : i \in DOMAIN next /\ next[i] = old(i)
  BY <1>7, <1>9, <1>10
<1>12. \A n \in DOMAIN own : ls + n \in DOMAIN next /\ next[ls + n] = Made(own[n])
  BY <1>8, <1>9, <1>10, SMTT(30)
<1>13. \A j \in DOMAIN next : j \notin DOMAIN server => j - ls \in DOMAIN own /\ next[j] = Made(own[j - ls])
  BY <1>8, <1>9, <1>10
<1>14. /\ \A k \in DOMAIN own : f[k] \in DOMAIN entries /\ f[k] \in Unlinked(entries) /\ own[k] = entries[f[k]]
       /\ \A i \in DOMAIN entries : i \in Unlinked(entries) => \E k \in DOMAIN own : f[k] = i
       /\ \A j, k \in DOMAIN own : j < k => f[j] < f[k]
  <2>1. /\ \A k \in 1 .. Len(own) : f[k] \in 1 .. Len(entries) /\ f[k] \in Unlinked(entries) /\ own[k] = entries[f[k]]
        /\ \A i \in 1 .. Len(entries) : i \in Unlinked(entries) => \E k \in 1 .. Len(own) : f[k] = i
        /\ \A j, k \in 1 .. Len(own) : j < k => f[j] < f[k]
    BY <1>3 DEF Placing
  <2> QED BY <1>4, <2>1
<1>15. ASSUME NEW i \in DOMAIN server
       PROVE  /\ i \in DOMAIN next /\ next[i].pos = server[i].pos
              /\ \/ next[i].state = server[i].state
                 \/ /\ server[i].state = "live" /\ next[i].state = "deviceDeleted"
                    /\ complete /\ server[i].key \notin keys /\ server[i].key # NoKey
              /\ Linked(entries, i) = {} => next[i].key = server[i].key
              /\ Linked(entries, i) # {} => next[i].key = KeyOf(entries[Min(Linked(entries, i))])
  <2>1. CASE server[i].state # "live"
    <3>1. next[i] = server[i] /\ i \in DOMAIN next
      BY <1>11, <2>1 DEF old
    <3>2. Linked(entries, i) = {}
      BY <2>1, LinkedAre
    <3> QED BY <3>1, <3>2
  <2>2. CASE server[i].state = "live"
    <3>1. next[i] = Heard(entries, keys, complete, i) /\ i \in DOMAIN next
      BY <1>11, <2>2 DEF old
    <3> DEFINE h == next[i]
    <3>2. /\ h.pos = server[i].pos
          /\ h.state = IF complete /\ server[i].key \notin keys \cup {NoKey} THEN "deviceDeleted"
                       ELSE server[i].state
          /\ h.key = IF Linked(entries, i) = {} THEN server[i].key
                     ELSE KeyOf(entries[Min(Linked(entries, i))])
      BY <3>1, HeardIs
    <3> HIDE DEF h
    <3>3. /\ \/ h.state = server[i].state
             \/ /\ h.state = "deviceDeleted"
                /\ complete /\ server[i].key \notin keys /\ server[i].key # NoKey
          /\ Linked(entries, i) = {} => h.key = server[i].key
          /\ Linked(entries, i) # {} => h.key = KeyOf(entries[Min(Linked(entries, i))])
      BY <3>2
    <3> QED BY <2>2, <3>1, <3>2, <3>3 DEF h
  <2> QED BY <2>1, <2>2
<1>16. ASSUME NEW j \in DOMAIN next, j \notin DOMAIN server
       PROVE  \E n \in Unlinked(entries) :
                /\ next[j].pos = entries[n].pos /\ next[j].key = KeyOf(entries[n])
                /\ next[j].state = "live"
  <2> DEFINE k == j - ls
  <2>1. k \in DOMAIN own /\ next[j] = Made(own[k])
    BY <1>13, <1>16
  <2> HIDE DEF k
  <2>2. own[k] \in Record /\ f[k] \in Unlinked(entries) /\ own[k] = entries[f[k]]
    BY <1>6, <1>14, <2>1
  <2>3. next[j].pos = own[k].pos /\ next[j].key = KeyOf(own[k]) /\ next[j].state = "live"
    BY <2>1, <2>2, MadeIs
  <2> QED BY <2>2, <2>3
<1>17. ASSUME NEW j \in DOMAIN next, NEW k \in DOMAIN next, j \notin DOMAIN server,
              k \notin DOMAIN server, next[j].key = next[k].key
       PROVE  j = k
  <2> DEFINE a == j - ls
             b == k - ls
  <2>1. a \in DOMAIN own /\ next[j] = Made(own[a]) /\ b \in DOMAIN own /\ next[k] = Made(own[b])
    BY <1>13, <1>17
  <2>2. a = b => j = k
    BY <1>10
  <2> HIDE DEF a, b
  <2>3. /\ own[a] \in Record /\ f[a] \in Unlinked(entries) /\ own[a] = entries[f[a]]
        /\ own[b] \in Record /\ f[b] \in Unlinked(entries) /\ own[b] = entries[f[b]]
        /\ f[a] \in Nat /\ f[b] \in Nat
    BY <1>4, <1>6, <1>14, <2>1
  <2>4. KeyOf(entries[f[a]]) = KeyOf(entries[f[b]])
    BY <1>17, <2>1, <2>3, MadeIs
  <2>5. f[a] \in News(entries) /\ f[b] \in News(entries)
    BY <2>3 DEF Unlinked
  <2>6. f[a] = f[b]
    BY <2>3, <2>4, <2>5, NewsApart
  <2>7. ~(a < b) /\ ~(b < a)
    BY <1>14, <2>1, <2>3, <2>6
  <2>8. a = b
    BY <1>10, <2>1, <2>7
  <2> QED BY <2>2, <2>8
<1>18. ASSUME NEW n \in Unlinked(entries)
       PROVE  \E j \in DOMAIN next : next[j].key = KeyOf(entries[n])
  <2>1. n \in DOMAIN entries
    BY DEF Unlinked, News
  <2>2. PICK k \in DOMAIN own : f[k] = n
    BY <1>14, <2>1
  <2>3. own[k] = entries[n] /\ own[k] \in Record
    BY <1>6, <1>14, <2>2
  <2>4. ls + k \in DOMAIN next /\ next[ls + k].key = KeyOf(entries[n])
    BY <1>12, <2>3, MadeIs
  <2> QED BY <2>4
<1> QED
  BY <1>9, <1>15, <1>16, <1>17, <1>18, Zenon DEF AfterRequest

\* The server knows the bookmarks it knew.
SameBookmarks(next) ==
  /\ next \in Seq(Item) /\ DOMAIN next = DOMAIN server
  /\ \A i \in DOMAIN server :
       next[i].pos = server[i].pos /\ next[i].state = server[i].state
       /\ next[i].key = server[i].key

\* A request without records brings no bookmark, and without keys no deletion.
LEMMA ReceivedNone ==
  ASSUME Typed, NEW none \in Seq(Record), DOMAIN none = {}, NEW keys,
         NEW complete \in BOOLEAN, ~complete, NEW next, next = Received(none, keys, complete)
  PROVE  SameBookmarks(next)
<1>1. News(none) = {}
  BY DEF News
<1>2. (\A i \in DOMAIN server : Linked(none, i) = {}) /\ Unlinked(none) = {}
  BY <1>1 DEF Linked, Unlinked
<1>3. AfterRequest(next, none, keys, complete)
  BY ReceivedIs
<1>4. next \in Seq(Item) /\ \A i \in DOMAIN server : i \in DOMAIN next /\ next[i].pos = server[i].pos
  BY <1>3 DEF AfterRequest
<1>5. \A i \in DOMAIN server : next[i].state = server[i].state
  BY <1>3 DEF AfterRequest
<1>6. \A i \in DOMAIN server : next[i].key = server[i].key
  BY <1>2, <1>3, Zenon DEF AfterRequest
<1>7. \A j \in DOMAIN next : j \in DOMAIN server
  BY <1>2, <1>3, Zenon DEF AfterRequest
<1>8. DOMAIN next = DOMAIN server
  BY <1>4, <1>7
<1> QED
  BY <1>4, <1>5, <1>6, <1>8 DEF SameBookmarks

\* Nor does one without either.
LEMMA ReceivedNothing ==
  ASSUME Typed, NEW next, next = Received(<<>>, {}, FALSE)
  PROVE  SameBookmarks(next)
<1> DEFINE none == <<>>
           keys == {}
           complete == FALSE
<1>1. none \in Seq(Record) /\ DOMAIN none = {} /\ complete \in BOOLEAN /\ ~complete
  BY EmptySeq
<1>2. next = Received(none, keys, complete)
  OBVIOUS
<1> HIDE DEF none, keys, complete
<1> QED
  BY <1>1, <1>2, ReceivedNone, Zenon

\* What the server makes of an acknowledgment.
LEMMA AcknowledgedIs ==
  ASSUME Typed, NEW acks \in SUBSET AckRecord, NEW dels, NEW next, next = Acknowledged(acks, dels)
  PROVE  /\ next \in Seq(Item) /\ DOMAIN next = DOMAIN server
         /\ \A i \in DOMAIN server :
              /\ next[i].pos = server[i].pos
              /\ \/ i \in dels /\ next[i].state = "gone"
                 \/ /\ next[i].state = "parked" /\ i \notin dels
                    /\ \E a \in acks : a.item = i /\ a.failed
                 \/ next[i].state = server[i].state /\ i \notin dels
              /\ \/ next[i].key = server[i].key
                 \/ /\ server[i].key = NoKey
                    /\ \E a \in acks : a.item = i /\ ~a.failed /\ next[i].key = a.key
<1>1. server \in Seq(Item) /\ Len(server) \in Nat /\ DOMAIN server = 1 .. Len(server)
  BY LenProperties DEF Typed
<1>2. next = [i \in DOMAIN server |-> Told(acks, dels, i)]
  BY DEF Acknowledged
<1>3. ASSUME NEW i \in DOMAIN server, NEW h, h = Told(acks, dels, i)
      PROVE  /\ h \in Item /\ h.pos = server[i].pos
             /\ \/ i \in dels /\ h.state = "gone"
                \/ h.state = "parked" /\ i \notin dels /\ \E a \in acks : a.item = i /\ a.failed
                \/ h.state = server[i].state /\ i \notin dels
             /\ \/ h.key = server[i].key
                \/ server[i].key = NoKey /\ \E a \in acks : a.item = i /\ ~a.failed /\ h.key = a.key
  <2> DEFINE x == server[i]
             applied == {a \in acks : a.item = i /\ ~a.failed}
             one == CHOOSE a \in applied : TRUE
             st == IF i \in dels THEN "gone"
                   ELSE IF \E a \in acks : a.item = i /\ a.failed THEN "parked" ELSE x.state
             k == IF i \in dels \/ x.key # NoKey \/ applied = {} THEN x.key ELSE one.key
  <2>1. x \in Item
    BY <1>1, ElementOfSeq
  <2>2. h = [x EXCEPT !.state = st, !.key = k]
    BY <1>3, Zenon DEF Told
  <2>3. st \in ItemStates
    BY <2>1, ItemFields DEF ItemStates
  <2>4. applied # {} => one \in applied
    BY Zenon
  <2> HIDE DEF one
  <2>5. k \in Keys
    <3>1. \A a \in acks : a.key \in Keys
      BY DEF AckRecord
    <3> QED BY <2>1, <2>4, <3>1, ItemFields
  <2>6. \/ i \in dels /\ st = "gone"
        \/ st = "parked" /\ i \notin dels /\ \E a \in acks : a.item = i /\ a.failed
        \/ st = x.state /\ i \notin dels
    OBVIOUS
  <2>7. \/ k = x.key
        \/ x.key = NoKey /\ \E a \in acks : a.item = i /\ ~a.failed /\ k = a.key
    BY <2>4
  <2> HIDE DEF st, k, x
  <2>8. h \in Item
    BY <2>1, <2>2, <2>3, <2>5, ItemFields, Zenon
  <2>9. h.pos = x.pos /\ h.key = k /\ h.state = st
    <3>1. x \in [pos : Places, key : Keys, web : BOOLEAN, ready : BOOLEAN, state : ItemStates]
      BY <2>1 DEF Item, Keys, ItemStates
    <3> QED BY <2>2, <3>1
  <2> QED BY <2>6, <2>7, <2>8, <2>9 DEF x
<1>4. \A i \in DOMAIN server : Told(acks, dels, i) \in Item
  BY <1>3
<1>5. next \in Seq(Item) /\ DOMAIN next = DOMAIN server
  BY <1>1, <1>2, <1>4, FunctionIsList
<1>6. \A i \in DOMAIN server : next[i] = Told(acks, dels, i)
  BY <1>2
<1> QED
  BY <1>3, <1>5, <1>6

\* What the server offers.
IsOffer(c) ==
  /\ c.item \in DOMAIN server /\ c.pos = server[c.item].pos /\ c.key = server[c.item].key
  /\ c.deleted => PendingDelete(c.item)
  /\ ~c.deleted => Pending(c.item)

\* One bookmark's offer.
LEMMA OfferIs ==
  ASSUME Typed, NEW i \in DOMAIN server
  PROVE  /\ Offer(i) \in Change
         /\ Pending(i) \/ PendingDelete(i) => IsOffer(Offer(i))
<1> DEFINE x == server[i]
           gone == x.state = "webDeleted"
<1>1. x \in Item /\ i \in Nat
  BY ElementOfSeq, LenProperties DEF Typed
<1>2. x.pos \in Places /\ x.key \in Keys
  BY <1>1, ItemFields
<1>3. Offer(i) = [item |-> i, pos |-> x.pos, key |-> x.key, deleted |-> gone]
  BY DEF Offer
<1>4. gone \in BOOLEAN
  OBVIOUS
<1>5. /\ Pending(i) => ~gone
      /\ PendingDelete(i) => gone
  BY DEF Pending, PendingDelete
<1> HIDE DEF x, gone
<1> DEFINE o == Offer(i)
<1>6. o \in Change /\ o.item = i /\ o.pos = x.pos /\ o.key = x.key /\ o.deleted = gone
  BY <1>1, <1>2, <1>3, <1>4 DEF Change
<1> HIDE DEF o
<1>7. ASSUME Pending(i) \/ PendingDelete(i) PROVE IsOffer(o)
  BY <1>5, <1>6, <1>7 DEF IsOffer, x
<1> QED
  BY <1>6, <1>7 DEF o

\* All of them.
LEMMA OffersAre ==
  ASSUME Typed
  PROVE  Offers \in Seq(Change) /\ \A n \in DOMAIN Offers : IsOffer(Offers[n])
<1> DEFINE all == [i \in DOMAIN server |-> Offer(i)]
           adds == Picked(all, {i \in DOMAIN server : Pending(i)})
           dels == Picked(all, {i \in DOMAIN server : PendingDelete(i)})
<1>1. Offers = adds \o dels
  BY DEF Offers
<1>2. server \in Seq(Item) /\ Len(server) \in Nat /\ DOMAIN server = 1 .. Len(server)
  BY LenProperties DEF Typed
<1>3. \A i \in DOMAIN server : Offer(i) \in Change
  BY OfferIs
<1>4. all \in Seq(Change) /\ DOMAIN all = DOMAIN server
  BY <1>2, <1>3, FunctionIsList
<1>5. \A i \in DOMAIN server : all[i] = Offer(i)
  OBVIOUS
<1> HIDE DEF all
<1>6. /\ adds \in Seq(Change)
      /\ \A k \in DOMAIN adds : \E i \in DOMAIN all : i \in {j \in DOMAIN server : Pending(j)} /\ adds[k] = all[i]
  BY <1>4, PickedFile, Zenon DEF Shorter
<1>7. /\ dels \in Seq(Change)
      /\ \A k \in DOMAIN dels : \E i \in DOMAIN all : i \in {j \in DOMAIN server : PendingDelete(j)} /\ dels[k] = all[i]
  BY <1>4, PickedFile, Zenon DEF Shorter
<1> HIDE DEF adds, dels
<1>8. \A k \in DOMAIN adds : IsOffer(adds[k])
  BY <1>4, <1>5, <1>6, OfferIs
<1>9. \A k \in DOMAIN dels : IsOffer(dels[k])
  BY <1>4, <1>5, <1>7, OfferIs
<1> DEFINE both == adds \o dels
<1>10. /\ both \in Seq(Change) /\ Len(both) = Len(adds) + Len(dels)
       /\ \A i \in 1 .. Len(adds) + Len(dels) : both[i] = IF i <= Len(adds) THEN adds[i] ELSE dels[i - Len(adds)]
  BY <1>6, <1>7, ConcatProperties
<1> HIDE DEF both
<1>11. /\ Len(adds) \in Nat /\ Len(dels) \in Nat /\ DOMAIN adds = 1 .. Len(adds)
       /\ DOMAIN dels = 1 .. Len(dels) /\ DOMAIN both = 1 .. Len(adds) + Len(dels)
  BY <1>6, <1>7, <1>10, LenProperties
<1>12. ASSUME NEW i \in DOMAIN both PROVE IsOffer(both[i])
  <2>1. CASE i <= Len(adds)
    <3>1. i \in DOMAIN adds /\ both[i] = adds[i]
      BY <1>10, <1>11, <2>1
    <3> QED BY <1>8, <3>1
  <2>2. CASE ~(i <= Len(adds))
    <3>1. i - Len(adds) \in DOMAIN dels /\ both[i] = dels[i - Len(adds)]
      BY <1>10, <1>11, <2>2
    <3> QED BY <1>9, <3>1
  <2> QED BY <2>1, <2>2
<1> QED
  BY <1>1, <1>10, <1>12, Zenon DEF both

\* What the device takes of a list of offers: what it had, and offers of others.
Takes(r, incoming, offers) ==
  /\ r \in Seq(Change)
  /\ \A n \in DOMAIN r :
       \/ \E m \in DOMAIN incoming : r[n] = incoming[m]
       \/ /\ \E k \in DOMAIN offers : r[n] = offers[k]
          /\ \A m \in DOMAIN incoming : incoming[m].item # r[n].item

\* That is what it collects.
LEMMA CollectedIs ==
  ASSUME NEW incoming \in Seq(Change), NEW offers \in Seq(Change)
  PROVE  Takes(Collected(incoming, offers), incoming, offers)
<1> DEFINE others == {n \in DOMAIN offers : offers[n].item \notin {incoming[m].item : m \in DOMAIN incoming}}
           fresh == Picked(offers, others)
           both == incoming \o fresh
           room == Max({Batch, Len(incoming)})
           size == Min({Len(incoming) + Len(fresh), room})
           r == SubSeq(both, 1, size)
<1>1. Collected(incoming, offers) = r
  BY DEF Collected
<1>2. /\ fresh \in Seq(Change)
      /\ \A k \in DOMAIN fresh : \E i \in DOMAIN offers : i \in others /\ fresh[k] = offers[i]
  BY PickedFile, Zenon DEF Shorter
<1> HIDE DEF fresh
<1>3. /\ both \in Seq(Change) /\ Len(both) = Len(incoming) + Len(fresh)
      /\ \A i \in 1 .. Len(incoming) + Len(fresh) :
           both[i] = IF i <= Len(incoming) THEN incoming[i] ELSE fresh[i - Len(incoming)]
  BY <1>2, ConcatProperties
<1> HIDE DEF both
<1>4. /\ Len(incoming) \in Nat /\ Len(fresh) \in Nat /\ Len(incoming) + Len(fresh) \in Nat
      /\ DOMAIN incoming = 1 .. Len(incoming)
      /\ DOMAIN fresh = 1 .. Len(fresh) /\ DOMAIN both = 1 .. Len(incoming) + Len(fresh)
      /\ Batch \in Nat
  BY <1>2, <1>3, LenProperties, ConstantsAssumption
<1>5. room \in Nat
  BY <1>4, OfTwo
<1> HIDE DEF room
<1>6. size \in Nat /\ size <= Len(both)
  <2> DEFINE l == Len(incoming) + Len(fresh)
  <2>1. l \in Nat /\ Len(both) = l
    BY <1>3, <1>4
  <2> HIDE DEF l
  <2>2. Min({l, room}) \in {l, room} /\ Min({l, room}) <= l
    BY <1>5, <2>1, OfTwo
  <2> QED BY <1>5, <2>1, <2>2 DEF l
<1> HIDE DEF size
<1>7. r \in Seq(Change) /\ Len(r) = size /\ \A k \in 1 .. size : r[k] = both[k]
  BY <1>3, <1>6, Beginning
<1> HIDE DEF r
<1>8. \A n \in DOMAIN r : n \in DOMAIN both /\ r[n] = both[n]
  <2>1. DOMAIN r = 1 .. size
    BY <1>7, LenProperties
  <2> QED BY <1>3, <1>4, <1>6, <1>7, <2>1
<1>9. ASSUME NEW n \in DOMAIN both
      PROVE  \/ \E m \in DOMAIN incoming : both[n] = incoming[m]
             \/ /\ \E k \in DOMAIN offers : both[n] = offers[k]
                /\ \A m \in DOMAIN incoming : incoming[m].item # both[n].item
  <2>1. CASE n <= Len(incoming)
    <3>1. n \in DOMAIN incoming /\ both[n] = incoming[n]
      BY <1>3, <1>4, <2>1
    <3> QED BY <3>1
  <2>2. CASE ~(n <= Len(incoming))
    <3>1. n - Len(incoming) \in DOMAIN fresh /\ both[n] = fresh[n - Len(incoming)]
      BY <1>3, <1>4, <2>2
    <3>2. PICK i \in DOMAIN offers : i \in others /\ both[n] = offers[i]
      BY <1>2, <3>1
    <3>3. \A m \in DOMAIN incoming : incoming[m].item # both[n].item
      BY <3>2
    <3> QED BY <3>2, <3>3
  <2> QED BY <2>1, <2>2
<1>10. Takes(r, incoming, offers)
  BY <1>7, <1>8, <1>9 DEF Takes
<1> QED
  BY <1>1, <1>10, Zenon

\* The first changes of a sync are offers.
LEMMA FirstTaken ==
  ASSUME Typed
  PROVE  /\ Collected(<<>>, Offers) \in Seq(Change)
         /\ \A n \in DOMAIN Collected(<<>>, Offers) :
              \E k \in DOMAIN Offers : Collected(<<>>, Offers)[n] = Offers[k]
<1> DEFINE none == <<>>
           r == Collected(none, Offers)
<1>1. none \in Seq(Change) /\ DOMAIN none = {}
  BY EmptySeq
<1> HIDE DEF none
<1>2. Takes(r, none, Offers)
  BY <1>1, OffersAre, CollectedIs
<1> HIDE DEF r
<1>3. r \in Seq(Change) /\ \A n \in DOMAIN r : \E k \in DOMAIN Offers : r[n] = Offers[k]
  BY <1>1, <1>2, Zenon DEF Takes
<1> QED
  BY <1>3, Zenon DEF r, none

-----------------------------------------------------------------------------
(* What each step does to the files and the sync's locals.                 *)

\* Between syncs there is nothing of one.
LEMMA NoSyncIs ==
  /\ NoSync \in Sync /\ Len(NoSync.marks) = 0
  /\ DOMAIN NoSync.marks = {} /\ DOMAIN NoSync.list = {} /\ DOMAIN NoSync.incoming = {}
  /\ NoSync.minted = {} /\ NoSync.acks = {} /\ NoSync.dels = {}
<1> DEFINE none == <<>>
<1>1. /\ none \in Seq(Mark) /\ none \in Seq(Record) /\ none \in Seq(Change)
      /\ DOMAIN none = {} /\ Len(none) = 0
  BY EmptySeq
<1>2. NoSync = [marks |-> none, list |-> none, before |-> FALSE, watermark |-> 0,
                next |-> 1, late |-> 1, top |-> 0, incoming |-> none, round |-> 0,
                more |-> FALSE, minted |-> {}, acks |-> {}, dels |-> {}]
  BY DEF NoSync
<1> HIDE DEF none
<1>3. NoSync \in Sync
  BY <1>1, <1>2 DEF Sync
<1> QED
  BY <1>1, <1>2, <1>3

\* The types of a sync's locals.
LEMMA SyncFields ==
  ASSUME Typed
  PROVE  /\ s.marks \in Seq(Mark) /\ s.list \in Seq(Record) /\ s.incoming \in Seq(Change)
         /\ s.watermark \in Nat /\ s.next \in Nat \ {0} /\ s.late \in Nat /\ s.top \in Nat
         /\ s.round \in Nat /\ s.more \in BOOLEAN /\ s.before \in BOOLEAN
         /\ s.minted \subseteq Nat /\ s.acks \subseteq AckRecord /\ s.dels \subseteq Nat
         /\ recs.list \in Seq(Record) /\ recs.here \in BOOLEAN /\ recs.watermark \in Nat
         /\ DOMAIN s.marks \subseteq Nat /\ DOMAIN s.list \subseteq Nat
         /\ DOMAIN s.incoming \subseteq Nat
BY LenProperties, SMTT(30) DEF Typed, Sync, RecordFile

\* Faults are counted.
LEMMA FaultsCounted ==
  ASSUME Typed, NoFault \/ \E kind \in FaultKinds : Fault(kind)
  PROVE  faults' \in 0 .. MaxFaults
BY ConstantsAssumption DEF Typed, NoFault, Fault

\* A fault is one of those that may happen.
LEMMA FaultKind ==
  ASSUME NEW kind, Fault(kind)
  PROVE  kind \in Faults /\ \E k \in FaultKinds : Fault(k)
BY ConstantsAssumption DEF Fault

\* Begin reads the files.
LEMMA BeginDoes ==
  ASSUME Typed, Begin
  PROVE  /\ pc = "idle" /\ pc' = "mint" /\ UNCHANGED <<marks, recs, now, server, removed, lost>>
         /\ s'.marks = marks /\ s'.list = recs.list /\ s'.watermark = recs.watermark
         /\ s'.late = recs.watermark + 1 /\ DOMAIN s'.incoming = {}
         /\ s'.minted = {} /\ s'.acks = {} /\ s'.dels = {}
         /\ Typed'
<1> USE DEF device
<1>1. /\ pc = "idle" /\ pc' = "mint" /\ UNCHANGED <<marks, recs, now, server, edits, removed, lost>>
      /\ s' = [NoSync EXCEPT !.marks = marks, !.list = recs.list, !.before = recs.here,
                             !.watermark = recs.watermark, !.late = recs.watermark + 1]
      /\ NoFault
  BY DEF Begin, Goto
<1>2. recs.list \in Seq(Record) /\ recs.here \in BOOLEAN /\ recs.watermark \in Nat /\ marks \in Seq(Mark)
  BY DEF Typed, RecordFile
<1> DEFINE l == recs.list
           h == recs.here
           w == recs.watermark
           n == NoSync
           w1 == w + 1
<1>3. n \in Sync /\ DOMAIN n.incoming = {} /\ n.minted = {} /\ n.acks = {} /\ n.dels = {}
  BY NoSyncIs
<1>4. s' = [n EXCEPT !.marks = marks, !.list = l, !.before = h, !.watermark = w, !.late = w1]
  BY <1>1
<1>5. w1 \in Nat
  BY <1>2
<1> HIDE DEF l, h, w, n, w1
<1>6. /\ s' \in Sync /\ s'.marks = marks /\ s'.list = l /\ s'.watermark = w /\ s'.late = w1
      /\ s'.incoming = n.incoming /\ s'.minted = n.minted /\ s'.acks = n.acks /\ s'.dels = n.dels
  <2>1. l \in Seq(Record) /\ h \in BOOLEAN /\ w \in Nat /\ marks \in Seq(Mark)
    BY <1>2 DEF l, h, w
  <2> QED BY <1>3, <1>4, <1>5, <2>1 DEF Sync
<1>7. Typed'
  BY <1>1, <1>6, FaultsCounted DEF Typed, Steps
<1> QED
  BY <1>1, <1>3, <1>6, <1>7 DEF l, w, w1

\* A record whose timestamp the file does not have is added to it.
LEMMA PutIs ==
  ASSUME NEW f \in RecordFile, NEW r \in Record, \A n \in DOMAIN f.list : f.list[n].ts # r.ts,
         NEW f2, f2 = PutRecord(f, r)
  PROVE  f2 \in RecordFile /\ f2.here /\ f2.watermark = f.watermark /\ f2.list = Append(f.list, r)
<1> DEFINE l == f.list
           w == f.watermark
           longer == Append(l, r)
<1>1. l \in Seq(Record) /\ w \in Nat
  BY DEF RecordFile
<1>2. {i \in DOMAIN l : l[i].ts = r.ts /\ l[i].pos = r.pos} = {}
  OBVIOUS
<1>3. f2 = [here |-> TRUE, watermark |-> w, list |-> longer]
  BY <1>2 DEF PutRecord
<1>4. longer \in Seq(Record)
  BY <1>1, AppendFile
<1> HIDE DEF l, w, longer
<1>5. f2 \in RecordFile /\ f2.here /\ f2.watermark = w /\ f2.list = longer
  BY <1>1, <1>3, <1>4 DEF RecordFile
<1> QED
  BY <1>5 DEF w, longer, l

\* A watermark advanced leaves the records.
LEMMA AdvancedIs ==
  ASSUME NEW f \in RecordFile, NEW t \in Nat, NEW f2, f2 = Advanced(f, t)
  PROVE  /\ f2 \in RecordFile /\ f2.here = f.here /\ f2.list = f.list
         /\ f2.watermark = f.watermark \/ f2.watermark = t
BY DEF Advanced, RecordFile

-----------------------------------------------------------------------------
(* What may be left of a record file.                                      *)

\* The records of q are among those of p, and alone where they are there.
Fewer(q, p) == Within(q, p) /\ (OneEach(p) => OneEach(q))

\* What may be left of a file f.
Remnant(g, f) ==
  /\ g \in RecordFile /\ (~g.here => DOMAIN g.list = {})
  /\ g.watermark = f.watermark \/ g.watermark = 0
  /\ Fewer(g.list, f.list)

\* The places of the records of q that are gone are among those lost.
Noted(q) ==
  /\ lost \subseteq lost'
  /\ \A n \in DOMAIN q : (\E k \in DOMAIN recs'.list : recs'.list[k] = q[n]) \/ q[n].pos \in lost'

\* A file is what may be left of it.
LEMMA WholeIs ==
  ASSUME NEW f \in RecordFile, ~f.here => DOMAIN f.list = {}
  PROVE  Remnant(f, f)
BY Zenon DEF Remnant, Fewer, Within

\* What is among records that are among others is among those.
LEMMA WithinStill ==
  ASSUME NEW o, NEW p, NEW q, Within(o, p), Within(p, q)
  PROVE  Within(o, q)
BY Zenon DEF Within

\* What is left of what is left.
LEMMA FewerStill ==
  ASSUME NEW o, NEW p, NEW q, Fewer(o, p), Fewer(p, q)
  PROVE  Fewer(o, q)
<1>1. Within(o, q)
  BY WithinStill DEF Fewer
<1> QED
  BY <1>1 DEF Fewer

\* A part of a file has the first of its records.
LEMMA PartIs ==
  ASSUME NEW f \in RecordFile, ~f.here => DOMAIN f.list = {}, NEW g \in Part(f)
  PROVE  Remnant(g, f)
<1> DEFINE none == <<>>
<1>1. none \in Seq(Record) /\ DOMAIN none = {}
  BY EmptySeq
<1>2. CASE g = NoRecordFile
  <2>1. g = [here |-> FALSE, watermark |-> 0, list |-> none]
    BY <1>2 DEF NoRecordFile
  <2> HIDE DEF none
  <2>2. g \in RecordFile /\ g.list = none /\ g.watermark = 0
    BY <1>1, <2>1 DEF RecordFile
  <2>3. Fewer(g.list, f.list)
    BY <1>1, <2>2, NoneOfNothing DEF Fewer, Within
  <2> QED BY <1>1, <2>2, <2>3, Zenon DEF Remnant
<1>3. CASE g # NoRecordFile
  <2> DEFINE l == f.list
  <2>1. PICK n \in 0 .. Len(l) : g = [f EXCEPT !.list = SubSeq(@, 1, n)]
    BY <1>3 DEF Part
  <2> DEFINE first == SubSeq(l, 1, n)
  <2>2. l \in Seq(Record) /\ Len(l) \in Nat /\ DOMAIN l = 1 .. Len(l)
    BY LenProperties DEF RecordFile
  <2>3. g = [f EXCEPT !.list = first]
    BY <2>1
  <2> HIDE DEF l
  <2>4. n \in Nat /\ n <= Len(l)
    BY <2>1, <2>2
  <2>5. first \in Seq(Record) /\ Len(first) = n /\ \A k \in 1 .. n : first[k] = l[k]
    BY <2>2, <2>4, Beginning
  <2> HIDE DEF first
  <2>6. DOMAIN first = 1 .. n
    BY <2>4, <2>5, LenProperties
  <2>7. \A k \in DOMAIN first : k \in DOMAIN l /\ first[k] = l[k]
    BY <2>2, <2>4, <2>5, <2>6
  <2>8. g \in RecordFile /\ g.list = first /\ g.here = f.here /\ g.watermark = f.watermark
    BY <2>3, <2>5 DEF RecordFile
  <2>9. Fewer(first, l)
    BY <2>7, Zenon DEF Fewer, Within, OneEach
  <2>10. ~g.here => DOMAIN g.list = {}
    BY <2>7, <2>8 DEF l
  <2> QED BY <2>8, <2>9, <2>10, Zenon DEF Remnant, l
<1> QED
  BY <1>2, <1>3

\* So has one that was read as a part before a record was added to it.
LEMMA PutPartIs ==
  ASSUME Typed, ~recs.here => DOMAIN recs.list = {},
         NEW r \in Record, \A n \in DOMAIN recs.list : recs.list[n].ts # r.ts,
         NEW g \in UNION {Part(PutRecord(f, r)) : f \in Part(recs)}
  PROVE  Remnant(g, PutRecord(recs, r))
<1>1. PICK f \in Part(recs) : g \in Part(PutRecord(f, r))
  OBVIOUS
<1> DEFINE f2 == PutRecord(f, r)
           whole == PutRecord(recs, r)
<1>2. recs \in RecordFile /\ Remnant(f, recs)
  <2>1. recs \in RecordFile
    BY DEF Typed
  <2> QED BY <2>1, PartIs
<1>3. /\ f \in RecordFile /\ (f.watermark = recs.watermark \/ f.watermark = 0)
      /\ Within(f.list, recs.list) /\ (OneEach(recs.list) => OneEach(f.list))
      /\ f.list \in Seq(Record) /\ recs.list \in Seq(Record)
  BY <1>2 DEF Remnant, Fewer, RecordFile
<1>4. \A n \in DOMAIN f.list : f.list[n].ts # r.ts
  BY <1>3, Zenon DEF Within
<1>5. f2 \in RecordFile /\ f2.here /\ f2.watermark = f.watermark /\ f2.list = Append(f.list, r)
  BY <1>3, <1>4, PutIs
<1>6. whole.watermark = recs.watermark /\ whole.list = Append(recs.list, r)
  BY <1>2, PutIs
<1> HIDE DEF f2, whole
<1>7. Remnant(g, f2)
  BY <1>1, <1>5, PartIs DEF f2
<1>8. Longer(f2.list, f.list, r) /\ Longer(whole.list, recs.list, r)
  BY <1>3, <1>5, <1>6, AppendFile
<1>9. Within(f2.list, whole.list)
  <2>1. \A n \in DOMAIN f2.list : (n \in DOMAIN f.list /\ f2.list[n] = f.list[n]) \/ f2.list[n] = r
    BY <1>8, Zenon DEF Longer
  <2>2. /\ \A n \in DOMAIN recs.list : n \in DOMAIN whole.list /\ whole.list[n] = recs.list[n]
        /\ \E n \in DOMAIN whole.list : whole.list[n] = r
    BY <1>8, Zenon DEF Longer
  <2>3. ASSUME NEW n \in DOMAIN f2.list PROVE \E k \in DOMAIN whole.list : whole.list[k] = f2.list[n]
    <3>1. CASE f2.list[n] = r
      BY <2>2, <3>1
    <3>2. CASE n \in DOMAIN f.list /\ f2.list[n] = f.list[n]
      <4>1. PICK m \in DOMAIN recs.list : recs.list[m] = f.list[n]
        BY <1>3, <3>2, Zenon DEF Within
      <4> QED BY <2>2, <3>2, <4>1
    <3> QED BY <2>1, <3>1, <3>2
  <2> QED BY <2>3, Zenon DEF Within
<1>10. OneEach(whole.list) => OneEach(f2.list)
  <2>1. OneEach(whole.list) => OneEach(recs.list)
    <3>1. \A n \in DOMAIN recs.list : n \in DOMAIN whole.list /\ whole.list[n] = recs.list[n]
      BY <1>8, Zenon DEF Longer
    <3> QED BY <3>1 DEF OneEach
  <2> QED BY <1>3, <1>4, <1>8, <2>1, Zenon DEF Longer
<1>11. Fewer(g.list, whole.list)
  <2>1. Fewer(f2.list, whole.list) /\ Fewer(g.list, f2.list)
    BY <1>7, <1>9, <1>10, Zenon DEF Fewer, Remnant
  <2> QED BY <2>1, FewerStill
<1>12. g.watermark = whole.watermark \/ g.watermark = 0
  BY <1>3, <1>5, <1>6, <1>7 DEF Remnant
<1>13. Remnant(g, whole)
  BY <1>7, <1>11, <1>12, Zenon DEF Remnant
<1> QED
  BY <1>13 DEF whole

\* What is gone for a file damaged is noted.
LEMMA DamageIs ==
  ASSUME Typed, NEW f \in RecordFile, NEW left, Damage(f, left)
  PROVE  recs' \in left /\ Noted(f.list) /\ Noted(recs.list) /\ lost' \subseteq Places
<1>1. /\ recs' \in left
      /\ lost' = lost \cup
           {r.pos : r \in (Records(recs.list) \cup Records(f.list)) \ Records(recs'.list)}
  BY DEF Damage
<1>2. recs.list \in Seq(Record) /\ f.list \in Seq(Record)
  BY SyncFields DEF RecordFile
<1>3. /\ \A r \in Records(recs.list) \cup Records(f.list) : r.pos \in Places
  BY <1>2, ElementOfSeq, FieldTypes DEF Records
<1>4. lost' \subseteq Places
  <2>1. lost \subseteq Places
    BY DEF Typed
  <2> QED BY <1>1, <1>3, <2>1
<1>5. ASSUME NEW q, q = recs.list \/ q = f.list PROVE Noted(q)
  <2>1. ASSUME NEW n \in DOMAIN q
        PROVE  (\E k \in DOMAIN recs'.list : recs'.list[k] = q[n]) \/ q[n].pos \in lost'
    <3>1. q[n] \in Records(recs.list) \cup Records(f.list)
      BY <1>5, <2>1 DEF Records
    <3>2. CASE q[n] \in Records(recs'.list)
      BY <3>2 DEF Records
    <3>3. CASE q[n] \notin Records(recs'.list)
      BY <1>1, <3>1, <3>3
    <3> QED BY <3>2, <3>3
  <2>2. lost \subseteq lost'
    BY <1>1
  <2> QED BY <2>1, <2>2, Zenon DEF Noted
<1> QED
  BY <1>1, <1>4, <1>5

\* A list of no other records is as sound as the one it is left of.
LEMMA FewerPlaces ==
  ASSUME NEW q, NEW p, Fewer(q, p)
  PROVE  PlacesOf(q) \subseteq PlacesOf(p) /\ (AllStamped(p) => AllStamped(q))
<1>1. \A n \in DOMAIN q : \E k \in DOMAIN p : p[k] = q[n]
  BY Zenon DEF Fewer, Within
<1>2. PlacesOf(q) \subseteq PlacesOf(p)
  BY <1>1 DEF PlacesOf
<1>3. AllStamped(p) => AllStamped(q)
  BY <1>1 DEF AllStamped
<1> QED
  BY <1>2, <1>3

-----------------------------------------------------------------------------
(* What the steps of a sync do.                                            *)

\* r is a record minted for a mark that has none.
Mints(r) ==
  /\ r \in Record /\ r.ts # 0 /\ r.id > s.watermark
  /\ \A n \in DOMAIN s.list : s.list[n].ts # r.ts
  /\ \E i \in DOMAIN s.marks : s.marks[i].ts = r.ts /\ s.marks[i].pos = r.pos

\* f is the file with r added.
Puts(f, r) ==
  /\ f \in RecordFile /\ f.here /\ f.watermark = recs.watermark
  /\ f.list = Append(recs.list, r)

\* Mint adds a record for a bookmark that has none, or leaves it for the next sync; or
\* the sync ends, and of the file with it there may be less, as when the card fails.
LEMMA MintDoes ==
  ASSUME FilesInv, Mint
  PROVE  /\ pc = "mint" /\ UNCHANGED <<marks, now, server, removed>>
         /\ \E r, f :
              /\ Mints(r) /\ Puts(f, r) /\ Remnant(recs', f)
              /\ \/ pc' = "idle" /\ s' = NoSync
                 \/ /\ pc' = "mint" /\ s'.marks = s.marks /\ s'.watermark = s.watermark
                    /\ s'.late > s'.watermark /\ s'.incoming = s.incoming
                    /\ s'.minted = s.minted /\ s'.acks = s.acks /\ s'.dels = s.dels
                    /\ Within(recs'.list, s'.list)
                    /\ s'.list = s.list \/ s'.list = Append(s.list, r)
              /\ \/ pc' = "mint" /\ lost' = lost /\ recs' = recs /\ s'.list = s.list
                 \/ pc' = "mint" /\ lost' = lost /\ recs' = f /\ s'.list = Append(s.list, r)
                 \/ (pc' = "idle" \/ "short" \in Faults) /\ Noted(recs.list)
         /\ Typed'
<1>1. /\ Typed /\ pc = "mint" /\ Within(recs.list, s.list) /\ s.late > s.watermark
      /\ ~recs.here => DOMAIN recs.list = {}
  BY DEF FilesInv, Loaded, Early, Mint
<1>2. UNCHANGED <<marks, now, server, edits, removed>> /\ Unrecorded # {}
  BY <1>1 DEF Mint
<1> DEFINE i == Min(Unrecorded)
           b == s.marks[i]
           r == [ts |-> b.ts, id |-> Identity(b), pos |-> b.pos]
           f == PutRecord(recs, r)
           late == IF b.ts > s.watermark THEN s.late ELSE s.late + 1
           passed == [s EXCEPT !.next = i + 1, !.late = late]
           minted == [passed EXCEPT !.list = Append(@, r)]
<1>3. i \in Unrecorded
  BY <1>1, <1>2, SyncFields, FirstOf DEF Unrecorded
<1>4. \/ Write(f) /\ s' = minted /\ UNCHANGED pc
      \/ (Fault("mint") \/ Fault("put")) /\ LeaveFile /\ s' = passed /\ UNCHANGED pc
      \/ /\ ShortPut(r) /\ UNCHANGED pc
         /\ s' = minted \/ (r \notin Records(recs'.list) /\ s' = passed)
      \/ CutShort(f)
  BY Zenon DEF Mint
<1> HIDE DEF i
<1>5. /\ i \in DOMAIN s.marks /\ i \in Nat /\ b \in Mark /\ b.ts # 0
      /\ \A n \in DOMAIN s.list : s.list[n].ts # b.ts
  BY <1>1, <1>3, SyncFields, ElementOfSeq DEF Unrecorded
<1>6. b.ts \in Nat /\ b.pos \in Places
  BY <1>5, FieldTypes
<1> DEFINE id == Identity(b)
<1>7. id \in Nat /\ id > s.watermark /\ late \in Nat /\ late > s.watermark
  <2>1. s.watermark \in Nat /\ s.late \in Nat /\ s.late > s.watermark
    BY <1>1, SyncFields
  <2> QED BY <1>6, <2>1 DEF Identity
<1> HIDE DEF id, late
<1>8. r \in Record /\ r.ts = b.ts /\ r.id = id /\ r.pos = b.pos
  BY <1>6, <1>7, FieldTypes DEF id
<1>9. Mints(r)
  BY <1>5, <1>7, <1>8 DEF Mints
<1> HIDE DEF r, b
<1>10. /\ passed \in Sync /\ passed.marks = s.marks /\ passed.watermark = s.watermark
       /\ passed.late = late /\ passed.list = s.list
       /\ passed.incoming = s.incoming /\ passed.minted = s.minted /\ passed.acks = s.acks
       /\ passed.dels = s.dels
  <2> DEFINE j == i + 1
  <2>1. s \in Sync /\ j \in Nat \ {0}
    BY <1>1, <1>5 DEF Typed
  <2>2. passed = [s EXCEPT !.next = j, !.late = late]
    OBVIOUS
  <2> HIDE DEF passed, j
  <2> QED BY <1>7, <2>1, <2>2 DEF Sync
<1> HIDE DEF passed
<1> DEFINE longer == Append(s.list, r)
<1>11. longer \in Seq(Record) /\ Longer(longer, s.list, r)
  BY <1>1, <1>8, SyncFields, AppendFile
<1>12. /\ minted \in Sync /\ minted.marks = s.marks /\ minted.watermark = s.watermark
       /\ minted.late = late /\ minted.list = longer
       /\ minted.incoming = s.incoming /\ minted.minted = s.minted /\ minted.acks = s.acks
       /\ minted.dels = s.dels
  <2> DEFINE new == Append(passed.list, r)
  <2>1. minted = [passed EXCEPT !.list = new] /\ new = longer
    BY <1>10
  <2> HIDE DEF minted, new, longer
  <2> QED BY <1>10, <1>11, <2>1 DEF Sync
<1> HIDE DEF minted
<1>13. /\ recs \in RecordFile /\ recs.list \in Seq(Record)
       /\ \A n \in DOMAIN recs.list : recs.list[n].ts # r.ts
  <2>1. \A n \in DOMAIN s.list : s.list[n].ts # r.ts
    BY <1>9 DEF Mints
  <2> QED BY <1>1, <2>1, SyncFields, Zenon DEF Within, Typed
<1>14. Puts(f, r)
  <2>1. f \in RecordFile /\ f.here /\ f.watermark = recs.watermark /\ f.list = Append(recs.list, r)
    BY <1>8, <1>13, PutIs
  <2> QED BY <2>1 DEF Puts
<1>15. Remnant(f, f) /\ Remnant(recs, f)
  <2>1. Remnant(f, f)
    BY <1>14, WholeIs DEF Puts
  <2>2. Longer(f.list, recs.list, r)
    BY <1>8, <1>13, <1>14, AppendFile DEF Puts
  <2>3. \A n \in DOMAIN recs.list : n \in DOMAIN f.list /\ f.list[n] = recs.list[n]
    BY <2>2, Zenon DEF Longer
  <2>4. Fewer(recs.list, f.list)
    BY <2>3 DEF Fewer, Within, OneEach
  <2> QED BY <1>1, <1>13, <1>14, <2>1, <2>4, Zenon DEF Remnant, Puts
<1>16. ASSUME NEW g, Remnant(g, f)
       PROVE  /\ Within(g.list, longer)
              /\ r \notin Records(g.list) => Within(g.list, s.list)
  <2>1. Longer(f.list, recs.list, r)
    BY <1>8, <1>13, <1>14, AppendFile DEF Puts
  <2>2. \A n \in DOMAIN f.list : (n \in DOMAIN recs.list /\ f.list[n] = recs.list[n]) \/ f.list[n] = r
    BY <2>1, Zenon DEF Longer
  <2>3. /\ \A n \in DOMAIN s.list : n \in DOMAIN longer /\ longer[n] = s.list[n]
        /\ \E n \in DOMAIN longer : longer[n] = r
    BY <1>11, Zenon DEF Longer
  <2>4. ASSUME NEW n \in DOMAIN g.list
        PROVE  g.list[n] = r \/ \E k \in DOMAIN s.list : s.list[k] = g.list[n]
    <3>1. PICK m \in DOMAIN f.list : f.list[m] = g.list[n]
      BY <1>16, Zenon DEF Remnant, Fewer, Within
    <3> QED BY <1>1, <2>2, <3>1, Zenon DEF Within
  <2>5. Within(g.list, longer)
    BY <2>3, <2>4 DEF Within
  <2>6. r \notin Records(g.list) => Within(g.list, s.list)
    BY <2>4, Zenon DEF Within, Records
  <2> QED BY <2>5, <2>6
<1> HIDE DEF longer
<1> DEFINE Goes(r2, f2) ==
             /\ Mints(r2) /\ Puts(f2, r2) /\ Remnant(recs', f2)
             /\ \/ pc' = "idle" /\ s' = NoSync
                \/ /\ pc' = "mint" /\ s'.marks = s.marks /\ s'.watermark = s.watermark
                   /\ s'.late > s'.watermark /\ s'.incoming = s.incoming
                   /\ s'.minted = s.minted /\ s'.acks = s.acks /\ s'.dels = s.dels
                   /\ Within(recs'.list, s'.list)
                   /\ s'.list = s.list \/ s'.list = Append(s.list, r2)
             /\ \/ pc' = "mint" /\ lost' = lost /\ recs' = recs /\ s'.list = s.list
                \/ pc' = "mint" /\ lost' = lost /\ recs' = f2 /\ s'.list = Append(s.list, r2)
                \/ (pc' = "idle" \/ "short" \in Faults) /\ Noted(recs.list)
<1>17. ASSUME s' = minted \/ s' = passed
       PROVE  /\ s' \in Sync /\ s'.marks = s.marks /\ s'.watermark = s.watermark
              /\ s'.late > s'.watermark /\ s'.incoming = s.incoming
              /\ s'.minted = s.minted /\ s'.acks = s.acks /\ s'.dels = s.dels
              /\ s'.list = (IF s' = minted THEN longer ELSE s.list)
  BY <1>7, <1>10, <1>12, <1>17
<1>18. s' = minted => s'.list = Append(s.list, r)
  BY <1>12 DEF longer
<1>19. s' = passed => s'.list = s.list
  BY <1>10
<1>20. CASE Write(f) /\ s' = minted /\ UNCHANGED pc
  <2>1. recs' = f /\ lost' = lost /\ NoFault /\ pc' = "mint"
    BY <1>1, <1>20 DEF Write
  <2>2. faults' \in 0 .. MaxFaults
    BY <1>1, <2>1, FaultsCounted
  <2>3. Within(recs'.list, s'.list)
    BY <1>12, <1>15, <1>16, <1>20, <2>1
  <2>4. Goes(r, f)
    BY <1>9, <1>14, <1>15, <1>17, <1>18, <1>20, <2>1, <2>3, Zenon
  <2>5. Typed'
    BY <1>1, <1>2, <1>14, <1>17, <1>20, <2>1, <2>2 DEF Typed, Puts
  <2> QED BY <1>1, <1>2, <2>4, <2>5
<1>21. CASE (Fault("mint") \/ Fault("put")) /\ LeaveFile /\ s' = passed /\ UNCHANGED pc
  <2>1. recs' = recs /\ lost' = lost /\ pc' = "mint"
    BY <1>1, <1>21 DEF LeaveFile
  <2>2. faults' \in 0 .. MaxFaults
    BY <1>1, <1>21, FaultKind, FaultsCounted
  <2>3. Within(recs'.list, s'.list)
    BY <1>1, <1>19, <1>21, <2>1
  <2>4. Goes(r, f)
    BY <1>9, <1>14, <1>15, <1>17, <1>19, <1>21, <2>1, <2>3, Zenon
  <2>5. Typed'
    BY <1>1, <1>2, <1>17, <1>21, <2>1, <2>2 DEF Typed
  <2> QED BY <1>1, <1>2, <2>4, <2>5
<1>22. CASE /\ ShortPut(r) /\ UNCHANGED pc
            /\ s' = minted \/ (r \notin Records(recs'.list) /\ s' = passed)
  <2>1. /\ Fault("short") /\ pc' = "mint"
        /\ Damage(f, UNION {Part(PutRecord(g, r)) : g \in Part(recs)})
    BY <1>1, <1>22 DEF ShortPut
  <2>2. faults' \in 0 .. MaxFaults /\ "short" \in Faults
    BY <1>1, <2>1, FaultKind, FaultsCounted
  <2>3. /\ recs' \in UNION {Part(PutRecord(g, r)) : g \in Part(recs)}
        /\ Noted(recs.list) /\ lost' \subseteq Places
    BY <1>1, <1>14, <2>1, DamageIs DEF Puts
  <2>4. Remnant(recs', f)
    BY <1>1, <1>8, <1>13, <2>3, PutPartIs
  <2>5. Within(recs'.list, s'.list)
    BY <1>12, <1>16, <1>19, <1>22, <2>4
  <2>6. Goes(r, f)
    BY <1>9, <1>14, <1>17, <1>18, <1>19, <1>22, <2>1, <2>2, <2>3, <2>4, <2>5, Zenon
  <2>7. Typed'
    BY <1>1, <1>2, <1>17, <1>22, <2>1, <2>2, <2>3, <2>4 DEF Typed, Remnant
  <2> QED BY <1>1, <1>2, <2>6, <2>7
<1>23. CASE CutShort(f)
  <2>1. Fault("cut") /\ Damage(f, Part(f)) /\ pc' = "idle" /\ s' = NoSync
    BY <1>23 DEF CutShort, Return
  <2>2. faults' \in 0 .. MaxFaults
    BY <1>1, <2>1, FaultKind, FaultsCounted
  <2>3. recs' \in Part(f) /\ Noted(recs.list) /\ lost' \subseteq Places
    BY <1>1, <1>14, <2>1, DamageIs DEF Puts
  <2>4. Remnant(recs', f)
    BY <1>14, <2>3, PartIs DEF Puts
  <2>5. Goes(r, f)
    BY <1>9, <1>14, <2>1, <2>3, <2>4, Zenon
  <2>6. Typed'
    BY <1>1, <1>2, <2>1, <2>2, <2>3, <2>4, NoSyncIs, ConstantsAssumption DEF Typed, Remnant, Steps
  <2> QED BY <1>1, <1>2, <2>5, <2>6
<1> QED
  BY <1>4, <1>20, <1>21, <1>22, <1>23

\* Retain leaves of the records those of bookmarks here that can be synced, or fails,
\* or with the file less is left of them; or the sync ends.
LEMMA RetainDoes ==
  ASSUME FilesInv, Retain
  PROVE  /\ pc = "mint" /\ UNCHANGED <<marks, now, server, removed>>
         /\ Fewer(recs'.list, recs.list) /\ (~recs'.here => DOMAIN recs'.list = {})
         /\ recs'.watermark = recs.watermark \/ recs'.watermark = 0
         /\ \/ pc' = "idle" /\ s' = NoSync
            \/ /\ pc' = "exchange" /\ s'.marks = s.marks /\ s'.watermark = s.watermark
               /\ s'.incoming = s.incoming /\ s'.minted = s.minted /\ s'.acks = s.acks
               /\ s'.dels = s.dels /\ Within(recs'.list, s'.list)
               /\ s'.list = s.list \/ s'.list = Kept(s.list)
         /\ \/ /\ pc' = "exchange" /\ lost' = lost /\ recs'.watermark = recs.watermark
               /\ \/ recs'.list = Kept(recs.list)
                     /\ s'.list = (IF recs.here THEN Kept(s.list) ELSE s.list)
                  \/ recs' = recs /\ s' = s /\ "retain" \in Faults
            \/ (pc' = "idle" \/ "short" \in Faults) /\ Noted(Kept(recs.list))
         /\ Typed'
<1>1. /\ Typed /\ pc = "mint" /\ Within(recs.list, s.list)
      /\ recs \in RecordFile /\ s \in Sync /\ recs.list \in Seq(Record) /\ s.list \in Seq(Record)
      /\ ~recs.here => DOMAIN recs.list = {}
  BY SyncFields DEF FilesInv, Loaded, Early, Retain, Typed
<1>2. UNCHANGED <<marks, now, server, edits, removed>>
  BY DEF Retain
<1> DEFINE times == SyncTimes(s.marks)
           kept == [recs EXCEPT !.list = Kept(@)]
           trimmed == [s EXCEPT !.list = Kept(@)]
           left == Kept(recs.list)
           some == Kept(s.list)
<1>3. ASSUME NEW q \in Seq(Record)
      PROVE  /\ Kept(q) \in Seq(Record) /\ Fewer(Kept(q), q)
             /\ \A n \in DOMAIN Kept(q) : Kept(q)[n].ts \in times
             /\ \A n \in DOMAIN q : q[n].ts \in times => \E k \in DOMAIN Kept(q) : Kept(q)[k] = q[n]
  <2> DEFINE places == {n \in DOMAIN q : q[n].ts \in times}
             q2 == Picked(q, places)
  <2>1. Kept(q) = q2
    BY DEF Kept
  <2>2. q2 \in Seq(Record) /\ Shorter(q2, q, places)
    BY PickedFile
  <2> HIDE DEF q2, times
  <2>3. /\ \A k \in DOMAIN q2 : \E i \in DOMAIN q : i \in places /\ q2[k] = q[i]
        /\ \A i \in DOMAIN q : i \in places => \E k \in DOMAIN q2 : q2[k] = q[i]
        /\ OneEach(q) => OneEach(q2)
    BY <2>2, Zenon DEF Shorter
  <2>4. Fewer(q2, q)
    BY <2>3, Zenon DEF Fewer, Within
  <2>5. \A n \in DOMAIN q2 : q2[n].ts \in times
    BY <2>3
  <2>6. \A n \in DOMAIN q : q[n].ts \in times => \E k \in DOMAIN q2 : q2[k] = q[n]
    BY <2>3
  <2> QED BY <2>1, <2>2, <2>4, <2>5, <2>6
<1>4. /\ left \in Seq(Record) /\ Fewer(left, recs.list) /\ some \in Seq(Record)
      /\ Within(left, some) /\ Within(left, s.list)
  <2>1. /\ left \in Seq(Record) /\ Fewer(left, recs.list)
        /\ \A n \in DOMAIN left : left[n].ts \in times
        /\ some \in Seq(Record)
        /\ \A n \in DOMAIN s.list : s.list[n].ts \in times => \E k \in DOMAIN some : some[k] = s.list[n]
    BY <1>1, <1>3
  <2> HIDE DEF left, some, times
  <2>2. Within(left, s.list)
    BY <1>1, <2>1, WithinStill DEF Fewer
  <2>3. Within(left, some)
    <3> SUFFICES ASSUME NEW n \in DOMAIN left PROVE \E k \in DOMAIN some : some[k] = left[n]
      BY Zenon DEF Within
    <3>1. PICK k \in DOMAIN s.list : s.list[k] = left[n]
      BY <2>2, Zenon DEF Within
    <3> QED BY <2>1, <3>1
  <2> QED BY <2>1, <2>2, <2>3
<1>5. /\ kept \in RecordFile /\ kept.list = left /\ kept.here = recs.here
      /\ kept.watermark = recs.watermark /\ (~kept.here => DOMAIN kept.list = {})
  <2>1. kept = [recs EXCEPT !.list = left]
    OBVIOUS
  <2> HIDE DEF kept, left
  <2>2. kept \in RecordFile /\ kept.list = left /\ kept.here = recs.here /\ kept.watermark = recs.watermark
    BY <1>1, <1>4, <2>1 DEF RecordFile
  <2>3. DOMAIN recs.list = {} => DOMAIN left = {}
    BY <1>4, Zenon DEF Fewer, Within
  <2> QED BY <1>1, <2>2, <2>3
<1>6. /\ trimmed \in Sync /\ trimmed.marks = s.marks /\ trimmed.watermark = s.watermark
      /\ trimmed.incoming = s.incoming /\ trimmed.minted = s.minted /\ trimmed.acks = s.acks
      /\ trimmed.dels = s.dels /\ trimmed.list = some
  <2>1. trimmed = [s EXCEPT !.list = some]
    OBVIOUS
  <2> HIDE DEF trimmed, some
  <2> QED BY <1>1, <1>4, <2>1 DEF Sync
<1>7. \/ Write(kept) /\ s' = (IF recs.here THEN trimmed ELSE s) /\ pc' = "exchange"
      \/ Fault("retain") /\ LeaveFile /\ UNCHANGED s /\ pc' = "exchange"
      \/ ShortFile(kept) /\ (s' = trimmed \/ s' = s) /\ pc' = "exchange"
      \/ CutShort(kept)
  BY Zenon DEF Retain, Goto
<1> HIDE DEF kept, trimmed, left, some, times
<1>8. ASSUME NEW g, Remnant(g, kept)
      PROVE  /\ Fewer(g.list, recs.list) /\ Within(g.list, some) /\ Within(g.list, s.list)
             /\ g \in RecordFile /\ (~g.here => DOMAIN g.list = {})
             /\ g.watermark = recs.watermark \/ g.watermark = 0
  <2>1. Fewer(g.list, left)
    BY <1>5, <1>8, Zenon DEF Remnant
  <2>2. Fewer(g.list, recs.list)
    BY <1>4, <2>1, FewerStill
  <2>3. Within(g.list, some) /\ Within(g.list, s.list)
    BY <1>4, <2>1, WithinStill DEF Fewer
  <2> QED BY <1>5, <1>8, <2>2, <2>3, Zenon DEF Remnant
<1>9. ASSUME s' = trimmed \/ s' = s
      PROVE  /\ s' \in Sync /\ s'.marks = s.marks /\ s'.watermark = s.watermark
             /\ s'.incoming = s.incoming /\ s'.minted = s.minted /\ s'.acks = s.acks
             /\ s'.dels = s.dels /\ (s'.list = s.list \/ s'.list = some)
  BY <1>1, <1>6, <1>9
<1> DEFINE Goes ==
             /\ Fewer(recs'.list, recs.list) /\ (~recs'.here => DOMAIN recs'.list = {})
             /\ recs'.watermark = recs.watermark \/ recs'.watermark = 0
             /\ \/ pc' = "idle" /\ s' = NoSync
                \/ /\ pc' = "exchange" /\ s'.marks = s.marks /\ s'.watermark = s.watermark
                   /\ s'.incoming = s.incoming /\ s'.minted = s.minted /\ s'.acks = s.acks
                   /\ s'.dels = s.dels /\ Within(recs'.list, s'.list)
                   /\ s'.list = s.list \/ s'.list = some
             /\ \/ /\ pc' = "exchange" /\ lost' = lost /\ recs'.watermark = recs.watermark
                   /\ \/ recs'.list = left /\ s'.list = (IF recs.here THEN some ELSE s.list)
                      \/ recs' = recs /\ s' = s /\ "retain" \in Faults
                \/ (pc' = "idle" \/ "short" \in Faults) /\ Noted(left)
<1>10. CASE Write(kept) /\ s' = (IF recs.here THEN trimmed ELSE s) /\ pc' = "exchange"
  <2>1. recs' = kept /\ lost' = lost /\ NoFault /\ (s' = trimmed \/ s' = s)
    BY <1>10 DEF Write
  <2>2. faults' \in 0 .. MaxFaults
    BY <1>1, <2>1, FaultsCounted
  <2>3. Remnant(kept, kept)
    BY <1>5, WholeIs
  <2>4. /\ Fewer(recs'.list, recs.list) /\ Within(recs'.list, some) /\ Within(recs'.list, s.list)
        /\ recs' \in RecordFile /\ (~recs'.here => DOMAIN recs'.list = {})
    BY <1>8, <2>1, <2>3
  <2>5. s'.list = (IF recs.here THEN some ELSE s.list) /\ Within(recs'.list, s'.list)
    BY <1>6, <1>10, <2>4
  <2>6. recs'.list = left /\ recs'.watermark = recs.watermark
    BY <1>5, <2>1
  <2>7. Goes
    BY <1>9, <1>10, <2>1, <2>4, <2>5, <2>6, Zenon
  <2>8. Typed'
    BY <1>1, <1>2, <1>9, <1>10, <2>1, <2>2, <2>4 DEF Typed, Steps
  <2> QED BY <1>1, <1>2, <2>7, <2>8 DEF left, some
<1>11. CASE Fault("retain") /\ LeaveFile /\ UNCHANGED s /\ pc' = "exchange"
  <2>1. faults' \in 0 .. MaxFaults /\ "retain" \in Faults /\ recs' = recs /\ lost' = lost /\ s' = s
    BY <1>1, <1>11, FaultKind, FaultsCounted DEF LeaveFile
  <2>2. Typed'
    BY <1>1, <1>2, <1>11, <2>1 DEF Typed, Steps
  <2>3. Remnant(recs, recs)
    BY <1>1, WholeIs
  <2>4. Goes
    BY <1>1, <1>11, <2>1, <2>3, Zenon DEF Remnant
  <2> QED BY <1>1, <1>2, <2>2, <2>4 DEF left, some
<1>12. CASE ShortFile(kept) /\ (s' = trimmed \/ s' = s) /\ pc' = "exchange"
  <2>1. Fault("short") /\ Damage(kept, Part(kept))
    BY <1>12 DEF ShortFile
  <2>2. faults' \in 0 .. MaxFaults /\ "short" \in Faults
    BY <1>1, <2>1, FaultKind, FaultsCounted
  <2>3. recs' \in Part(kept) /\ Noted(left) /\ lost' \subseteq Places
    BY <1>1, <1>5, <2>1, DamageIs
  <2>4. Remnant(recs', kept)
    BY <1>5, <2>3, PartIs
  <2>5. /\ Fewer(recs'.list, recs.list) /\ Within(recs'.list, some) /\ Within(recs'.list, s.list)
        /\ recs' \in RecordFile /\ (~recs'.here => DOMAIN recs'.list = {})
        /\ recs'.watermark = recs.watermark \/ recs'.watermark = 0
    BY <1>8, <2>4
  <2>6. Within(recs'.list, s'.list)
    BY <1>6, <1>12, <2>5
  <2>7. Goes
    BY <1>9, <1>12, <2>2, <2>3, <2>5, <2>6, Zenon
  <2>8. Typed'
    BY <1>1, <1>2, <1>9, <1>12, <2>2, <2>3, <2>5 DEF Typed, Steps
  <2> QED BY <1>1, <1>2, <2>7, <2>8 DEF left, some
<1>13. CASE CutShort(kept)
  <2>1. Fault("cut") /\ Damage(kept, Part(kept)) /\ pc' = "idle" /\ s' = NoSync
    BY <1>13 DEF CutShort, Return
  <2>2. faults' \in 0 .. MaxFaults
    BY <1>1, <2>1, FaultKind, FaultsCounted
  <2>3. recs' \in Part(kept) /\ Noted(left) /\ lost' \subseteq Places
    BY <1>1, <1>5, <2>1, DamageIs
  <2>4. Remnant(recs', kept)
    BY <1>5, <2>3, PartIs
  <2>5. /\ Fewer(recs'.list, recs.list) /\ recs' \in RecordFile
        /\ (~recs'.here => DOMAIN recs'.list = {})
        /\ recs'.watermark = recs.watermark \/ recs'.watermark = 0
    BY <1>8, <2>4
  <2>6. Goes
    BY <2>1, <2>3, <2>5, Zenon
  <2>7. Typed'
    BY <1>1, <1>2, <2>1, <2>2, <2>3, <2>5, NoSyncIs, ConstantsAssumption DEF Typed, Steps
  <2> QED BY <1>1, <1>2, <2>6, <2>7 DEF left, some
<1> QED
  BY <1>7, <1>10, <1>11, <1>12, <1>13

\* A set of identities has a greatest, if any.
LEMMA TopIs ==
  ASSUME Typed
  PROVE  Max({0} \cup {Outgoing[n].id : n \in DOMAIN Outgoing}) \in Nat
<1> DEFINE q == Outgoing
           f == [n \in DOMAIN q |-> q[n].id]
           S == {0} \cup {q[n].id : n \in DOMAIN q}
<1>1. q \in Seq(Record)
  BY OutgoingAre
<1> HIDE DEF q
<1>2. Len(q) \in Nat /\ DOMAIN q = 1 .. Len(q) /\ \A n \in DOMAIN q : q[n].id \in Nat
  BY <1>1, LenProperties, ElementOfSeq, FieldTypes
<1>3. \A n \in 1 .. Len(q) : f[n] \in Nat
  BY <1>2
<1>4. PICK b \in Nat : \A n \in 1 .. Len(q) : f[n] <= b
  BY <1>2, <1>3, NumbersBounded
<1>5. S \in SUBSET Nat /\ S # {} /\ \A x \in S : x <= b
  BY <1>2, <1>4
<1> HIDE DEF S
<1>6. Max(S) \in Nat
  BY <1>5, MaxOfSet
<1> QED
  BY <1>6 DEF S, q

\* The server's answer to an exchange.
Answer == Received(Outgoing, {KeyOf(s.list[n]) : n \in DOMAIN s.list}, KeysComplete)

\* Exchange sends records and takes the first changes, or ends the sync.
LEMMA ExchangeDoes ==
  ASSUME Typed, Exchange
  PROVE  /\ pc = "exchange" /\ UNCHANGED <<marks, recs, now, removed, lost>>
         /\ server' = server \/ server' = Answer
         /\ \/ pc' = "idle" /\ s' = NoSync
            \/ /\ pc' = "pull" /\ s'.incoming = Collected(<<>>, Offers)
               /\ s'.marks = s.marks /\ s'.list = s.list /\ s'.watermark = s.watermark
               /\ s'.minted = s.minted /\ s'.acks = s.acks /\ s'.dels = s.dels
               /\ server' = Answer
         /\ Typed'
<1> DEFINE top == Max({0} \cup {Outgoing[n].id : n \in DOMAIN Outgoing})
           took == Collected(<<>>, Offers)
<1>1. /\ pc = "exchange" /\ UNCHANGED <<marks, recs, now, edits, removed, lost>>
      /\ \/ /\ server' = Answer
            /\ s' = [s EXCEPT !.incoming = took, !.top = top]
            /\ pc' = "pull" /\ NoFault
         \/ /\ server' = server \/ server' = Answer
            /\ Fault("request") \/ Fault("reply")
            /\ pc' = "idle" /\ s' = NoSync
  BY DEF Exchange, Answer, Goto, Return, device
<1>2. top \in Nat /\ took \in Seq(Change) /\ s \in Sync
  BY TopIs, FirstTaken DEF Typed
<1> HIDE DEF top, took
<1>3. server \in Seq(Item) /\ Answer \in Seq(Item)
  <2>1. Outgoing \in Seq(Record) /\ KeysComplete \in BOOLEAN
    BY OutgoingAre, SyncFields DEF KeysComplete
  <2>2. AfterRequest(Answer, Outgoing, {KeyOf(s.list[n]) : n \in DOMAIN s.list}, KeysComplete)
    BY <2>1, ReceivedIs, Zenon DEF Answer
  <2> QED BY <2>2, Zenon DEF AfterRequest, Typed
<1>4. CASE /\ server' = Answer
           /\ s' = [s EXCEPT !.incoming = took, !.top = top]
           /\ pc' = "pull" /\ NoFault
  <2>1. /\ s' \in Sync /\ s'.incoming = took
        /\ s'.marks = s.marks /\ s'.list = s.list /\ s'.watermark = s.watermark
        /\ s'.minted = s.minted /\ s'.acks = s.acks /\ s'.dels = s.dels
    BY <1>2, <1>4 DEF Sync
  <2>2. faults' \in 0 .. MaxFaults
    BY <1>4, FaultsCounted
  <2>3. Typed'
    BY <1>1, <1>3, <1>4, <2>1, <2>2 DEF Typed, Steps
  <2> QED BY <1>1, <1>4, <2>1, <2>3 DEF took
<1>5. CASE /\ server' = server \/ server' = Answer
           /\ Fault("request") \/ Fault("reply")
           /\ pc' = "idle" /\ s' = NoSync
  <2>1. faults' \in 0 .. MaxFaults
    BY <1>5, FaultKind, FaultsCounted
  <2>2. Typed'
    BY <1>1, <1>3, <1>5, <2>1, NoSyncIs, ConstantsAssumption DEF Typed, Steps
  <2> QED BY <1>1, <1>5, <2>2
<1> QED
  BY <1>1, <1>4, <1>5

\* Pull takes more, or is the last request.
LEMMA PullDoes ==
  ASSUME Typed, Pull
  PROVE  /\ pc = "pull" /\ UNCHANGED <<marks, recs, now, removed, lost>>
         /\ SameBookmarks(server')
         /\ \/ pc' = "advance" /\ s' = s
            \/ /\ pc' = "pull" /\ s'.incoming = Collected(s.incoming, Offers)
               /\ s'.marks = s.marks /\ s'.list = s.list /\ s'.watermark = s.watermark
               /\ s'.minted = s.minted /\ s'.acks = s.acks /\ s'.dels = s.dels
         /\ Typed'
<1> DEFINE took == Collected(s.incoming, Offers)
           after == Received(<<>>, {}, FALSE)
           turn == s.round + 1
<1>1. /\ pc = "pull" /\ UNCHANGED <<marks, recs, now, edits, removed, lost>>
      /\ \/ /\ server' = after
            /\ \E more \in BOOLEAN :
                 s' = [s EXCEPT !.incoming = took, !.round = turn, !.more = more]
            /\ pc' = "pull" /\ NoFault
         \/ /\ server' = server \/ server' = after
            /\ Fault("request")
            /\ pc' = "advance" /\ s' = s
  BY DEF Pull, Goto, device
<1>2. took \in Seq(Change) /\ s \in Sync /\ turn \in Nat
  <2>1. s.incoming \in Seq(Change) /\ s.round \in Nat
    BY SyncFields
  <2>2. Takes(took, s.incoming, Offers)
    BY <2>1, OffersAre, CollectedIs
  <2> QED BY <2>1, <2>2 DEF Takes, Typed
<1>3. SameBookmarks(after) /\ SameBookmarks(server)
  <2>1. SameBookmarks(after)
    BY ReceivedNothing
  <2>2. SameBookmarks(server)
    BY DEF SameBookmarks, Typed
  <2> QED BY <2>1, <2>2
<1> HIDE DEF took, after, turn
<1>4. SameBookmarks(server')
  BY <1>1, <1>3
<1>5. server' \in Seq(Item)
  BY <1>4, Zenon DEF SameBookmarks
<1>6. ASSUME NEW more \in BOOLEAN, s' = [s EXCEPT !.incoming = took, !.round = turn, !.more = more]
      PROVE  /\ s' \in Sync /\ s'.incoming = took
             /\ s'.marks = s.marks /\ s'.list = s.list /\ s'.watermark = s.watermark
             /\ s'.minted = s.minted /\ s'.acks = s.acks /\ s'.dels = s.dels
  BY <1>2, <1>6 DEF Sync
<1>7. CASE /\ server' = after
           /\ \E more \in BOOLEAN :
                 s' = [s EXCEPT !.incoming = took, !.round = turn, !.more = more]
           /\ pc' = "pull" /\ NoFault
  <2>1. /\ s' \in Sync /\ s'.incoming = took
        /\ s'.marks = s.marks /\ s'.list = s.list /\ s'.watermark = s.watermark
        /\ s'.minted = s.minted /\ s'.acks = s.acks /\ s'.dels = s.dels
    BY <1>6, <1>7
  <2>2. faults' \in 0 .. MaxFaults
    BY <1>7, FaultsCounted
  <2>3. Typed'
    BY <1>1, <1>5, <1>7, <2>1, <2>2 DEF Typed, Steps
  <2> QED BY <1>1, <1>4, <1>7, <2>1, <2>3 DEF took
<1>8. CASE Fault("request") /\ pc' = "advance" /\ s' = s
  <2>1. faults' \in 0 .. MaxFaults
    BY <1>8, FaultKind, FaultsCounted
  <2>2. Typed'
    BY <1>1, <1>5, <1>8, <2>1 DEF Typed, Steps
  <2> QED BY <1>1, <1>4, <1>8, <2>2
<1> QED
  BY <1>1, <1>7, <1>8

\* What a step that only moves the watermark does to the file: as a rule nothing to
\* its records; the file may be cut short, or come to less.
OnlyMarked ==
  /\ Fewer(recs'.list, recs.list) /\ (~recs'.here => DOMAIN recs'.list = {})
  /\ \/ recs'.list = recs.list /\ lost' = lost
     \/ /\ Noted(recs.list)
        /\ \/ pc' = "idle" /\ s' = NoSync
           \/ "short" \in Faults

\* f has the records of recs, and is written, or what is there is a part of it.
LEMMA MarkedIs ==
  ASSUME Typed, ~recs.here => DOMAIN recs.list = {},
         NEW f \in RecordFile, f.list = recs.list, f.here = recs.here,
         \/ Write(f)
         \/ Fault("put") /\ LeaveFile
         \/ ShortFile(f)
         \/ CutShort(f)
  PROVE  /\ OnlyMarked /\ recs' \in RecordFile /\ lost' \subseteq Places
         /\ faults' \in 0 .. MaxFaults
         /\ recs'.watermark \in {f.watermark, recs.watermark, 0}
<1>1. /\ recs \in RecordFile /\ lost \subseteq Places
      /\ Remnant(f, f) /\ Remnant(recs, recs)
  BY WholeIs DEF Typed
<1>2. ASSUME NEW g, Remnant(g, f) \/ Remnant(g, recs)
      PROVE  /\ Fewer(g.list, recs.list) /\ (~g.here => DOMAIN g.list = {}) /\ g \in RecordFile
             /\ g.watermark \in {f.watermark, recs.watermark, 0}
  BY <1>2 DEF Remnant
<1>3. CASE Write(f)
  <2>1. recs' = f /\ lost' = lost /\ NoFault
    BY <1>3 DEF Write
  <2> QED BY <1>1, <1>2, <2>1, FaultsCounted DEF OnlyMarked
<1>4. CASE Fault("put") /\ LeaveFile
  <2>1. recs' = recs /\ lost' = lost
    BY <1>4 DEF LeaveFile
  <2>2. faults' \in 0 .. MaxFaults
    BY <1>4, FaultKind, FaultsCounted
  <2> QED BY <1>1, <1>2, <2>1, <2>2 DEF OnlyMarked
<1>5. CASE ShortFile(f) \/ CutShort(f)
  <2>1. /\ Damage(f, Part(f)) /\ (Fault("short") \/ (Fault("cut") /\ pc' = "idle" /\ s' = NoSync))
    BY <1>5, Zenon DEF ShortFile, CutShort, Return
  <2>2. /\ faults' \in 0 .. MaxFaults
        /\ "short" \in Faults \/ (pc' = "idle" /\ s' = NoSync)
    BY <2>1, FaultKind, FaultsCounted
  <2>3. recs' \in Part(f) /\ Noted(recs.list) /\ lost' \subseteq Places
    BY <2>1, DamageIs
  <2>4. Remnant(recs', f)
    BY <2>3, PartIs
  <2> QED BY <1>2, <2>2, <2>3, <2>4 DEF OnlyMarked
<1> QED
  BY <1>3, <1>4, <1>5

\* Advance raises the watermark and goes on to what was received, if anything.
LEMMA AdvanceDoes ==
  ASSUME FilesInv, Advance
  PROVE  /\ pc \in {"pull", "advance"} /\ UNCHANGED <<marks, now, server, removed>>
         /\ OnlyMarked
         /\ \/ pc' = "idle" /\ s' = NoSync
            \/ /\ pc' = "apply" /\ s'.incoming = s.incoming
               /\ s'.marks = s.marks /\ s'.list = s.list
               /\ s'.minted = s.minted /\ s'.acks = s.acks
         /\ Typed'
<1> DEFINE advanced == Advanced(recs, s.top)
<1>1. /\ pc \in {"pull", "advance"} /\ UNCHANGED <<marks, now, server, edits, removed>>
      /\ \/ Write(advanced)
         \/ Fault("put") /\ LeaveFile
         \/ ShortFile(advanced)
         \/ CutShort(advanced)
      /\ \/ pc' = "idle" /\ s' = NoSync
         \/ pc' = "apply" /\ s' = [s EXCEPT !.next = 1, !.round = 0, !.more = FALSE]
  BY Zenon DEF Advance, Goto, Return, CutShort
<1>2. /\ Typed /\ recs \in RecordFile /\ s.top \in Nat /\ s \in Sync
      /\ ~recs.here => DOMAIN recs.list = {}
  BY SyncFields DEF FilesInv, Typed, Loaded
<1>3. advanced \in RecordFile /\ advanced.list = recs.list /\ advanced.here = recs.here
  BY <1>2, AdvancedIs
<1> HIDE DEF advanced
<1>4. OnlyMarked /\ recs' \in RecordFile /\ lost' \subseteq Places /\ faults' \in 0 .. MaxFaults
  BY <1>1, <1>2, <1>3, MarkedIs
<1>5. CASE pc' = "idle" /\ s' = NoSync
  <2>1. Typed'
    BY <1>1, <1>2, <1>4, <1>5, NoSyncIs, ConstantsAssumption DEF Typed, Steps
  <2> QED BY <1>1, <1>4, <1>5, <2>1
<1>6. CASE pc' = "apply" /\ s' = [s EXCEPT !.next = 1, !.round = 0, !.more = FALSE]
  <2>1. /\ s' \in Sync /\ s'.incoming = s.incoming
        /\ s'.marks = s.marks /\ s'.list = s.list
        /\ s'.minted = s.minted /\ s'.acks = s.acks
    <3> DEFINE one == 1
    <3>1. s' = [s EXCEPT !.next = one, !.round = 0, !.more = FALSE] /\ one \in Nat \ {0}
      BY <1>6
    <3> HIDE DEF one
    <3> QED BY <1>2, <3>1 DEF Sync
  <2>2. Typed'
    BY <1>1, <1>2, <1>4, <1>6, <2>1 DEF Typed, Steps
  <2> QED BY <1>1, <1>4, <1>6, <2>1, <2>2
<1> QED
  BY <1>1, <1>5, <1>6

\* The change a sync applies.
LEMMA TheChangeIs ==
  ASSUME Typed, Applying
  PROVE  /\ pc = "apply" /\ s.next \in DOMAIN s.incoming /\ TheChange \in Change
         /\ TheChange.item \in Nat /\ TheChange.pos \in Places /\ TheChange.key \in Keys
         /\ s.next + 1 \in Nat \ {0}
<1>1. pc = "apply" /\ s.next <= Len(s.incoming) /\ s.incoming \in Seq(Change) /\ s.next \in Nat \ {0}
  BY SyncFields DEF Applying
<1>2. s.next \in DOMAIN s.incoming
  BY <1>1, LenProperties
<1>3. TheChange \in Change
  BY <1>1, <1>2, ElementOfSeq DEF TheChange
<1>4. TheChange.item \in Nat /\ TheChange.pos \in Places /\ TheChange.key \in Keys
  BY <1>3 DEF Change
<1> QED
  BY <1>1, <1>2, <1>3, <1>4

\* What ApplyDelete leaves of the bookmarks.
Left(m) == Picked(m, {i \in DOMAIN m : m[i].ts # Gone \/ Gone = 0})

\* ApplyDelete takes a bookmark away.
LEMMA ApplyDeleteDoes ==
  ASSUME Typed, ApplyDelete
  PROVE  /\ pc = "apply" /\ pc' = "apply" /\ UNCHANGED <<marks, recs, now, server, removed, lost>>
         /\ s.next \in DOMAIN s.incoming /\ TheChange.deleted
         /\ s'.marks = Left(s.marks)
         /\ s'.list = s.list /\ s'.incoming = s.incoming /\ s'.minted = s.minted /\ s'.acks = s.acks
         /\ Typed'
<1> DEFINE left == Left(s.marks)
           dels == s.dels \cup {TheChange.item}
           next == s.next + 1
<1>1. /\ Applying /\ TheChange.deleted /\ UNCHANGED <<marks, recs, now, server, pc, edits, removed, lost>> /\ NoFault
      /\ s' = [s EXCEPT !.marks = left, !.dels = dels, !.next = next]
  BY DEF ApplyDelete, Left, device
<1>2. /\ pc = "apply" /\ s.next \in DOMAIN s.incoming /\ next \in Nat \ {0} /\ TheChange.item \in Nat
      /\ s.marks \in Seq(Mark) /\ s.dels \subseteq Nat /\ s \in Sync /\ Len(s.marks) <= Capacity
  BY <1>1, TheChangeIs, SyncFields DEF Typed
<1>3. left \in Seq(Mark) /\ Len(left) <= Capacity
  <2>1. left \in Seq(Mark) /\ Len(left) <= Len(s.marks)
    BY <1>2, PickedFile, Zenon DEF Left, Shorter
  <2> HIDE DEF left
  <2>2. Len(left) \in Nat /\ Len(s.marks) \in Nat
    BY <1>2, <2>1, LenProperties
  <2> QED BY <1>2, <2>1, <2>2, ConstantsAssumption
<1>4. dels \subseteq Nat
  BY <1>2
<1> HIDE DEF left, dels, next
<1>5. /\ s' \in Sync /\ s'.marks = left /\ s'.list = s.list /\ s'.incoming = s.incoming
      /\ s'.minted = s.minted /\ s'.acks = s.acks
  BY <1>1, <1>2, <1>3, <1>4 DEF Sync
<1>6. faults' \in 0 .. MaxFaults
  BY <1>1, FaultsCounted
<1>7. Typed'
  BY <1>1, <1>3, <1>5, <1>6 DEF Typed
<1> QED
  BY <1>1, <1>2, <1>5, <1>7 DEF left

\* An addition that is here, or that has no place here, is answered.
LEMMA ApplyAnswerDoes ==
  ASSUME Typed, ApplyDuplicate \/ ApplyUnplaceable
  PROVE  /\ pc = "apply" /\ pc' = "apply" /\ UNCHANGED <<marks, recs, now, server, removed, lost>>
         /\ s.next \in DOMAIN s.incoming
         /\ s'.marks = s.marks /\ s'.list = s.list /\ s'.incoming = s.incoming
         /\ s'.minted = s.minted
         /\ \E a : s'.acks = s.acks \cup {a} /\ Answered(a, TheChange)
         /\ Typed'
<1> DEFINE a == IF ApplyDuplicate
                THEN [item |-> TheChange.item, failed |-> FALSE, key |-> KeyOf(First(TheChange.pos))]
                ELSE [item |-> TheChange.item, failed |-> TRUE, key |-> NoKey]
           acks == s.acks \cup {a}
           next == s.next + 1
<1>1. /\ Applying /\ ~TheChange.deleted /\ UNCHANGED <<marks, recs, now, server, pc, edits, removed, lost>>
      /\ NoFault
      /\ s' = [s EXCEPT !.acks = acks, !.next = next]
      /\ ApplyDuplicate => At(TheChange.pos) # {}
      /\ ~ApplyDuplicate => At(TheChange.pos) = {} /\ TheChange.pos \in Unplaceable
  BY Zenon DEF ApplyDuplicate, ApplyUnplaceable, First, device
<1>2. /\ pc = "apply" /\ s.next \in DOMAIN s.incoming /\ next \in Nat \ {0} /\ TheChange.item \in Nat
      /\ s.list \in Seq(Record) /\ s.acks \subseteq AckRecord /\ s \in Sync /\ Len(s.marks) <= Capacity
  BY <1>1, TheChangeIs, SyncFields DEF Typed
<1>3. ApplyDuplicate => KeyOf(First(TheChange.pos)) \in Keys
  <2>1. SUFFICES ASSUME ApplyDuplicate PROVE KeyOf(First(TheChange.pos)) \in Keys
    OBVIOUS
  <2>2. Min(At(TheChange.pos)) \in DOMAIN s.list
    BY <1>1, <1>2, <2>1, FirstOf DEF At
  <2>3. First(TheChange.pos) \in Record
    BY <1>2, <2>2, ElementOfSeq DEF First
  <2> QED BY <2>3, KeyFacts
<1>4. a \in AckRecord /\ Answered(a, TheChange)
  <2> HIDE DEF ApplyDuplicate, ApplyUnplaceable
  <2>1. CASE ApplyDuplicate
    <3> DEFINE k == KeyOf(First(TheChange.pos))
    <3>1. a = [item |-> TheChange.item, failed |-> FALSE, key |-> k] /\ k \in Keys
      BY <1>3, <2>1
    <3>2. k = KeyOf(First(TheChange.pos))
      OBVIOUS
    <3> HIDE DEF a, k
    <3>3. a \in AckRecord /\ a.item = TheChange.item /\ ~a.failed /\ a.key = k
      BY <1>2, <3>1 DEF AckRecord
    <3> QED BY <1>1, <2>1, <3>2, <3>3, Zenon DEF Answered
  <2>2. CASE ~ApplyDuplicate
    <3> DEFINE k == NoKey
    <3>1. a = [item |-> TheChange.item, failed |-> TRUE, key |-> k] /\ k \in Keys
      BY <2>2, NoKeyIsKey
    <3> HIDE DEF a, k
    <3>2. a \in AckRecord /\ a.item = TheChange.item /\ a.failed
      BY <1>2, <3>1 DEF AckRecord
    <3> QED BY <1>1, <2>2, <3>2, Zenon DEF Answered
  <2> QED BY <2>1, <2>2
<1> HIDE DEF a
<1>5. acks \subseteq AckRecord
  BY <1>2, <1>4
<1>6. acks = s.acks \cup {a}
  OBVIOUS
<1> HIDE DEF acks, next
<1>7. /\ s' \in Sync /\ s'.marks = s.marks /\ s'.list = s.list /\ s'.incoming = s.incoming
      /\ s'.minted = s.minted /\ s'.acks = acks
  BY <1>1, <1>2, <1>5 DEF Sync
<1>8. faults' \in 0 .. MaxFaults
  BY <1>1, FaultsCounted
<1>9. Typed'
  BY <1>1, <1>2, <1>7, <1>8 DEF Typed
<1>10. \E x : s'.acks = s.acks \cup {x} /\ Answered(x, TheChange)
  BY <1>4, <1>6, <1>7, Zenon
<1> QED
  BY <1>1, <1>2, <1>7, <1>9, <1>10

\* One that has no room is left for a later sync.
LEMMA ApplyLaterDoes ==
  ASSUME Typed, ApplyLater
  PROVE  /\ pc = "apply" /\ pc' = "apply" /\ UNCHANGED <<marks, recs, now, server, removed, lost>>
         /\ s'.marks = s.marks /\ s'.list = s.list /\ s'.incoming = s.incoming
         /\ s'.minted = s.minted /\ s'.acks = s.acks
         /\ Typed'
<1> DEFINE next == s.next + 1
<1>1. /\ Applying /\ UNCHANGED <<marks, recs, now, server, pc, edits, removed, lost>> /\ NoFault
      /\ s' = [s EXCEPT !.next = next]
  BY DEF ApplyLater, Placeable, device
<1>2. pc = "apply" /\ next \in Nat \ {0} /\ s \in Sync
  BY <1>1, TheChangeIs DEF Typed
<1> HIDE DEF next
<1>3. /\ s' \in Sync /\ s'.marks = s.marks /\ s'.list = s.list /\ s'.incoming = s.incoming
      /\ s'.minted = s.minted /\ s'.acks = s.acks
  BY <1>1, <1>2 DEF Sync
<1>4. faults' \in 0 .. MaxFaults
  BY <1>1, FaultsCounted
<1>5. Typed'
  BY <1>1, <1>3, <1>4 DEF Typed
<1> QED
  BY <1>1, <1>2, <1>3, <1>5

\* r and its answer a, for a bookmark added.
Adds(r, a) ==
  /\ r \in Record /\ r.ts = now + 1 /\ r.pos = TheChange.pos
  /\ a.item = TheChange.item /\ ~a.failed /\ a.key = KeyOf(r)

\* ApplyAdd makes a bookmark of its own second, its record, and the answer; or the
\* sync ends.  Of the file there may be less, or it may be without the record.
LEMMA ApplyAddDoes ==
  ASSUME FilesInv, ApplyAdd
  PROVE  /\ pc = "apply" /\ UNCHANGED <<marks, server, removed>>
         /\ s.next \in DOMAIN s.incoming /\ ~TheChange.deleted
         /\ At(TheChange.pos) = {} /\ TheChange.pos \notin Unplaceable
         /\ now' = now + 1
         /\ \E r, a, f :
              /\ Adds(r, a) /\ Puts(f, r) /\ Remnant(recs', f)
              /\ \/ pc' = "idle" /\ s' = NoSync
                 \/ /\ pc' = "apply" /\ s'.list = Append(s.list, r) /\ s'.acks = s.acks \cup {a}
                    /\ s'.incoming = s.incoming /\ s'.minted = s.minted \cup {now + 1}
                    /\ \E m \in Mark : /\ m.ts = now + 1 /\ m.pos = TheChange.pos /\ m.settled
                                       /\ s'.marks = Append(s.marks, m)
              /\ \/ pc' = "apply" /\ recs' = f /\ lost' = lost
                 \/ pc' = "apply" /\ recs' = recs /\ Noted(f.list)
                 \/ (pc' = "idle" \/ "short" \in Faults) /\ Noted(f.list)
         /\ Typed'
<1> DEFINE ts == UniqueTimestamp(s.marks, now + 1)
           r == [ts |-> ts, id |-> ts, pos |-> TheChange.pos]
           m == [ts |-> ts, pos |-> TheChange.pos, settled |-> TRUE]
           a == [item |-> TheChange.item, failed |-> FALSE, key |-> KeyOf(r)]
           f == PutRecord(recs, r)
           longer == Append(s.marks, m)
           list == Append(s.list, r)
           minted == s.minted \cup {ts}
           acks == s.acks \cup {a}
           next == s.next + 1
           added == [s EXCEPT !.marks = longer, !.list = list, !.minted = minted, !.acks = acks,
                              !.next = next]
<1>1. /\ Typed /\ Stamped /\ s.marks \in Seq(Mark) /\ now \in Nat
      /\ ~recs.here => DOMAIN recs.list = {}
  BY SyncFields DEF FilesInv, Typed, Loaded
<1>2. ts = now + 1
  <2>1. now + 1 \in Nat /\ now + 1 # 0 /\ \A i \in DOMAIN s.marks : s.marks[i].ts < now + 1
    BY <1>1, Past
  <2> QED BY <1>1, <2>1, UniqueIsClock
<1>3. /\ Applying /\ ~TheChange.deleted /\ At(TheChange.pos) = {} /\ TheChange.pos \notin Unplaceable
      /\ Len(s.marks) < Capacity
      /\ \/ Write(f) /\ s' = added /\ UNCHANGED pc
         \/ Fault("record") /\ Damage(f, {recs}) /\ s' = added /\ UNCHANGED pc
         \/ ShortPut(r) /\ s' = added /\ UNCHANGED pc
         \/ CutShort(f)
      /\ now' = ts
      /\ UNCHANGED <<marks, server, edits, removed>>
  BY Zenon DEF ApplyAdd, Placeable, RoomAndTime
<1> HIDE DEF ts
<1>4. /\ pc = "apply" /\ s.next \in DOMAIN s.incoming /\ next \in Nat \ {0}
      /\ TheChange.item \in Nat /\ TheChange.pos \in Places
      /\ s.list \in Seq(Record) /\ s.acks \subseteq AckRecord /\ s.minted \subseteq Nat /\ s \in Sync
      /\ recs \in RecordFile /\ recs.list \in Seq(Record)
  BY <1>1, <1>3, TheChangeIs, SyncFields DEF Typed
<1>5. ts \in Nat
  BY <1>1, <1>2
<1>6. r \in Record /\ r.ts = ts /\ r.pos = TheChange.pos
  BY <1>4, <1>5, FieldTypes
<1>7. m \in Mark /\ m.ts = ts /\ m.pos = TheChange.pos /\ m.settled
  BY <1>4, <1>5, FieldTypes
<1> HIDE DEF r, m
<1>8. a \in AckRecord /\ a.item = TheChange.item /\ ~a.failed /\ a.key = KeyOf(r)
  <2> DEFINE k == KeyOf(r)
  <2>1. k \in Keys
    BY <1>6, KeyFacts
  <2>2. a = [item |-> TheChange.item, failed |-> FALSE, key |-> k]
    OBVIOUS
  <2> HIDE DEF k, a
  <2>3. a \in AckRecord /\ a.item = TheChange.item /\ ~a.failed /\ a.key = k
    BY <1>4, <2>1, <2>2 DEF AckRecord
  <2> QED BY <2>3 DEF k
<1> HIDE DEF a
<1>9. Adds(r, a)
  BY <1>2, <1>6, <1>8, Zenon DEF Adds
<1>10. longer \in Seq(Mark) /\ Len(longer) <= Capacity
  <2>1. Append(s.marks, m) \in Seq(Mark) /\ Len(Append(s.marks, m)) = Len(s.marks) + 1 /\ Len(s.marks) \in Nat
    BY <1>1, <1>7, OneMore
  <2> QED BY <1>3, <2>1, ConstantsAssumption
<1>11. list \in Seq(Record) /\ minted \subseteq Nat /\ acks \subseteq AckRecord
  BY <1>4, <1>5, <1>6, <1>8, AppendFile
<1>12. /\ longer = Append(s.marks, m) /\ list = Append(s.list, r) /\ minted = s.minted \cup {ts}
       /\ acks = s.acks \cup {a}
  OBVIOUS
<1> HIDE DEF longer, list, minted, acks, next
<1>13. /\ added \in Sync /\ added.marks = longer /\ added.list = list /\ added.incoming = s.incoming
       /\ added.minted = minted /\ added.acks = acks
  BY <1>4, <1>10, <1>11 DEF Sync
<1> HIDE DEF added
<1>14. \A n \in DOMAIN recs.list : recs.list[n].ts # r.ts
  BY <1>1, <1>2, <1>6, Past
<1>15. Puts(f, r)
  <2>1. f \in RecordFile /\ f.here /\ f.watermark = recs.watermark /\ f.list = Append(recs.list, r)
    BY <1>4, <1>6, <1>14, PutIs
  <2> QED BY <2>1 DEF Puts
<1>16. Remnant(f, f) /\ Remnant(recs, f)
  <2>1. Remnant(f, f)
    BY <1>15, WholeIs DEF Puts
  <2>2. Longer(f.list, recs.list, r)
    BY <1>4, <1>6, <1>15, AppendFile DEF Puts
  <2>3. \A n \in DOMAIN recs.list : n \in DOMAIN f.list /\ f.list[n] = recs.list[n]
    BY <2>2, Zenon DEF Longer
  <2>4. Fewer(recs.list, f.list)
    BY <2>3 DEF Fewer, Within, OneEach
  <2> QED BY <1>1, <1>4, <1>15, <2>1, <2>4, Zenon DEF Remnant, Puts
<1> HIDE DEF f
<1>17. s' = added =>
         /\ s' \in Sync /\ s'.list = Append(s.list, r) /\ s'.acks = s.acks \cup {a}
         /\ s'.incoming = s.incoming /\ s'.minted = s.minted \cup {now + 1}
         /\ Len(s'.marks) <= Capacity
         /\ \E m2 \in Mark : /\ m2.ts = now + 1 /\ m2.pos = TheChange.pos /\ m2.settled
                             /\ s'.marks = Append(s.marks, m2)
  BY <1>2, <1>7, <1>10, <1>12, <1>13
<1> DEFINE Goes(r2, a2, f2) ==
             /\ Adds(r2, a2) /\ Puts(f2, r2) /\ Remnant(recs', f2)
             /\ \/ pc' = "idle" /\ s' = NoSync
                \/ /\ pc' = "apply" /\ s'.list = Append(s.list, r2) /\ s'.acks = s.acks \cup {a2}
                   /\ s'.incoming = s.incoming /\ s'.minted = s.minted \cup {now + 1}
                   /\ \E m2 \in Mark : /\ m2.ts = now + 1 /\ m2.pos = TheChange.pos /\ m2.settled
                                       /\ s'.marks = Append(s.marks, m2)
             /\ \/ pc' = "apply" /\ recs' = f2 /\ lost' = lost
                \/ pc' = "apply" /\ recs' = recs /\ Noted(f2.list)
                \/ (pc' = "idle" \/ "short" \in Faults) /\ Noted(f2.list)
<1>18. CASE Write(f) /\ s' = added /\ UNCHANGED pc
  <2>1. recs' = f /\ lost' = lost /\ NoFault /\ pc' = "apply"
    BY <1>4, <1>18 DEF Write
  <2>2. faults' \in 0 .. MaxFaults
    BY <1>1, <2>1, FaultsCounted
  <2>3. Goes(r, a, f)
    BY <1>9, <1>15, <1>16, <1>17, <1>18, <2>1, Zenon
  <2>4. Typed'
    BY <1>1, <1>2, <1>3, <1>5, <1>15, <1>17, <1>18, <2>1, <2>2 DEF Typed, Puts
  <2> QED BY <1>2, <1>3, <1>4, <2>3, <2>4, Zenon
<1>19. CASE Fault("record") /\ Damage(f, {recs}) /\ s' = added /\ UNCHANGED pc
  <2>1. recs' = recs /\ Noted(f.list) /\ lost' \subseteq Places /\ pc' = "apply"
    BY <1>1, <1>4, <1>15, <1>19, DamageIs DEF Puts
  <2>2. faults' \in 0 .. MaxFaults
    BY <1>1, <1>19, FaultKind, FaultsCounted
  <2>3. Goes(r, a, f)
    BY <1>9, <1>15, <1>16, <1>17, <1>19, <2>1, Zenon
  <2>4. Typed'
    BY <1>1, <1>2, <1>3, <1>5, <1>17, <1>19, <2>1, <2>2 DEF Typed
  <2> QED BY <1>2, <1>3, <1>4, <2>3, <2>4, Zenon
<1>20. CASE ShortPut(r) /\ s' = added /\ UNCHANGED pc
  <2>1. /\ Fault("short") /\ pc' = "apply"
        /\ Damage(f, UNION {Part(PutRecord(g, r)) : g \in Part(recs)})
    BY <1>4, <1>20 DEF ShortPut, f
  <2>2. faults' \in 0 .. MaxFaults /\ "short" \in Faults
    BY <1>1, <2>1, FaultKind, FaultsCounted
  <2>3. /\ recs' \in UNION {Part(PutRecord(g, r)) : g \in Part(recs)}
        /\ Noted(f.list) /\ lost' \subseteq Places
    BY <1>1, <1>15, <2>1, DamageIs DEF Puts
  <2>4. Remnant(recs', f)
    BY <1>1, <1>6, <1>14, <2>3, PutPartIs DEF f
  <2>5. Goes(r, a, f)
    BY <1>9, <1>15, <1>17, <1>20, <2>1, <2>2, <2>3, <2>4, Zenon
  <2>6. Typed'
    BY <1>1, <1>2, <1>3, <1>5, <1>17, <1>20, <2>1, <2>2, <2>3, <2>4 DEF Typed, Remnant
  <2> QED BY <1>2, <1>3, <1>4, <2>5, <2>6, Zenon
<1>21. CASE CutShort(f)
  <2>1. Fault("cut") /\ Damage(f, Part(f)) /\ pc' = "idle" /\ s' = NoSync
    BY <1>21 DEF CutShort, Return
  <2>2. faults' \in 0 .. MaxFaults
    BY <1>1, <2>1, FaultKind, FaultsCounted
  <2>3. recs' \in Part(f) /\ Noted(f.list) /\ lost' \subseteq Places
    BY <1>1, <1>15, <2>1, DamageIs DEF Puts
  <2>4. Remnant(recs', f)
    BY <1>15, <2>3, PartIs DEF Puts
  <2>5. Goes(r, a, f)
    BY <1>9, <1>15, <2>1, <2>3, <2>4, Zenon
  <2>6. Typed'
    BY <1>1, <1>2, <1>3, <1>5, <2>1, <2>2, <2>3, <2>4, NoSyncIs, ConstantsAssumption
       DEF Typed, Remnant, Steps
  <2> QED BY <1>2, <1>3, <1>4, <2>5, <2>6, Zenon
<1> QED
  BY <1>3, <1>18, <1>19, <1>20, <1>21

\* Save writes the bookmarks.
LEMMA SaveDoes ==
  ASSUME Typed, Save
  PROVE  /\ pc = "apply" /\ pc' = "cover" /\ UNCHANGED <<recs, now, server, s, removed, lost>>
         /\ \/ marks' = s.marks
            \/ marks' = marks /\ "open" \in Faults
            \/ DOMAIN marks' = {} /\ "torn" \in Faults
         /\ Typed'
<1> DEFINE none == <<>>
<1>1. /\ pc = "apply" /\ pc' = "cover" /\ UNCHANGED <<recs, now, server, s, edits, removed, lost>>
      /\ \/ marks' = s.marks /\ NoFault
         \/ marks' = marks /\ Fault("open")
         \/ marks' = none /\ Fault("torn")
  BY DEF Save, Goto
<1>2. none \in Seq(Mark) /\ DOMAIN none = {} /\ Len(none) = 0 /\ Capacity \in Nat
  BY EmptySeq, ConstantsAssumption
<1> HIDE DEF none
<1>3. marks' \in Seq(Mark) /\ Len(marks') <= Capacity
  <2>1. /\ s.marks \in Seq(Mark) /\ Len(s.marks) <= Capacity
        /\ marks \in Seq(Mark) /\ Len(marks) <= Capacity
        /\ none \in Seq(Mark) /\ Len(none) <= Capacity
    BY <1>2, SyncFields DEF Typed
  <2> QED BY <1>1, <2>1
<1>4. faults' \in 0 .. MaxFaults
  BY <1>1, FaultKind, FaultsCounted
<1>5. Typed'
  BY <1>1, <1>3, <1>4 DEF Typed, Steps
<1> QED
  BY <1>1, <1>2, <1>5, FaultKind

\* Cover may raise the watermark over what was minted, and nothing else waits there.
LEMMA CoverDoes ==
  ASSUME FilesInv, Cover
  PROVE  /\ pc = "cover" /\ UNCHANGED <<marks, now, server, removed>>
         /\ OnlyMarked
         /\ recs'.watermark = recs.watermark \/ recs'.watermark = 0 \/ ~LocalStillPending
         /\ \/ pc' = "idle" /\ s' = NoSync
            \/ pc' = "ack" /\ s' = s
         /\ Typed'
<1> DEFINE top == Max(s.minted)
           covered == IF s.minted # {} /\ ~LocalStillPending THEN Advanced(recs, top) ELSE recs
<1>1. /\ pc = "cover" /\ UNCHANGED <<marks, now, server, edits, removed>>
      /\ \/ Write(covered)
         \/ Fault("put") /\ LeaveFile
         \/ ShortFile(covered)
         \/ CutShort(covered)
      /\ \/ pc' = "idle" /\ s' = NoSync
         \/ pc' = "ack" /\ s' = s
  BY Zenon DEF Cover, Goto, Return, CutShort
<1>2. Typed /\ recs \in RecordFile /\ (~recs.here => DOMAIN recs.list = {})
  BY DEF FilesInv, Typed, Loaded
<1>3. s.minted # {} => top \in Nat
  <2>1. s.minted \in SUBSET Nat /\ now \in Nat /\ \A t \in s.minted : t <= now
    BY SyncFields DEF FilesInv, Typed, Stamped
  <2> QED BY <2>1, MaxOfSet
<1> HIDE DEF top
<1>4. /\ covered \in RecordFile /\ covered.list = recs.list /\ covered.here = recs.here
      /\ covered.watermark = recs.watermark \/ ~LocalStillPending
  BY <1>2, <1>3, AdvancedIs
<1> HIDE DEF covered
<1>5. /\ OnlyMarked /\ recs' \in RecordFile /\ lost' \subseteq Places /\ faults' \in 0 .. MaxFaults
      /\ recs'.watermark \in {covered.watermark, recs.watermark, 0}
  BY <1>1, <1>2, <1>4, MarkedIs
<1>6. Typed'
  BY <1>1, <1>2, <1>5, NoSyncIs, ConstantsAssumption DEF Typed, Steps
<1> QED
  BY <1>1, <1>4, <1>5, <1>6

\* Ack answers, and ends the sync.
LEMMA AckDoes ==
  ASSUME Typed, Ack
  PROVE  /\ pc = "ack" /\ pc' = "idle" /\ s' = NoSync /\ UNCHANGED <<marks, recs, now, removed, lost>>
         /\ server' = server \/ server' = Acknowledged(s.acks, s.dels)
         /\ Typed'
<1>1. /\ pc = "ack" /\ pc' = "idle" /\ s' = NoSync /\ UNCHANGED <<marks, recs, now, edits, removed, lost>>
      /\ \/ server' = Acknowledged(s.acks, s.dels) /\ NoFault
         \/ server' = server /\ Fault("ack")
  BY DEF Ack, Return, device
<1>2. server' \in Seq(Item)
  <2>1. Acknowledged(s.acks, s.dels) \in Seq(Item)
    BY SyncFields, AcknowledgedIs
  <2> QED BY <1>1, <2>1 DEF Typed
<1>3. faults' \in 0 .. MaxFaults
  BY <1>1, FaultKind, FaultsCounted
<1>4. Typed'
  BY <1>1, <1>2, <1>3, NoSyncIs, ConstantsAssumption DEF Typed, Steps
<1> QED
  BY <1>1, <1>4

\* An edit of the bookmarks, which saves them or tears the file.
LEMMA EditDoes ==
  ASSUME Typed, NEW m \in Seq(Mark), Edit(m)
  PROVE  /\ pc = "idle" /\ UNCHANGED <<recs, server, pc, s>>
         /\ \/ marks' = m
            \/ marks' = marks /\ ~(Len(m) <= Capacity)
            \/ DOMAIN marks' = {} /\ "torn" \in Faults
         /\ marks' \in Seq(Mark) /\ Len(marks') <= Capacity
         /\ faults' \in 0 .. MaxFaults /\ edits' \in 0 .. MaxEdits
<1> DEFINE none == <<>>
           saved == Saved(m)
<1>1. /\ pc = "idle" /\ UNCHANGED <<recs, server, pc, s>>
      /\ \/ marks' = saved /\ NoFault
         \/ marks' = none /\ Fault("torn")
      /\ edits < MaxEdits /\ edits' = edits + 1
  BY DEF Edit
<1>2. none \in Seq(Mark) /\ DOMAIN none = {} /\ Len(none) = 0 /\ Capacity \in Nat
  BY EmptySeq, ConstantsAssumption
<1>3. Len(m) \in Nat
  BY LenProperties
<1>4. /\ saved = m \/ (saved = marks /\ ~(Len(m) <= Capacity))
      /\ saved \in Seq(Mark) /\ Len(saved) <= Capacity
  BY <1>2, <1>3 DEF Saved, Typed
<1> HIDE DEF none, saved
<1>5. faults' \in 0 .. MaxFaults
  BY <1>1, FaultKind, FaultsCounted
<1>6. edits' \in 0 .. MaxEdits
  BY <1>1, ConstantsAssumption DEF Typed
<1>7. /\ \/ marks' = m
         \/ marks' = marks /\ ~(Len(m) <= Capacity)
         \/ DOMAIN marks' = {} /\ "torn" \in Faults
      /\ marks' \in Seq(Mark) /\ Len(marks') <= Capacity
  <2>1. CASE marks' = saved
    BY <1>4, <2>1
  <2>2. CASE marks' = none /\ Fault("torn")
    BY <1>2, <2>2, FaultKind
  <2> QED BY <1>1, <2>1, <2>2
<1> QED
  BY <1>1, <1>5, <1>6, <1>7

\* The reader's next second is a timestamp of its own.
LEMMA NextStamp ==
  ASSUME FilesInv
  PROVE  /\ now \in Nat /\ marks \in Seq(Mark)
         /\ UniqueTimestamp(marks, now + 1) = now + 1 /\ now + 1 \in Nat
         /\ \A i \in DOMAIN marks : marks[i].ts # now + 1
<1>1. Typed /\ Stamped /\ now \in Nat /\ marks \in Seq(Mark)
  BY DEF FilesInv, Typed
<1>2. now + 1 \in Nat /\ now + 1 # 0 /\ \A i \in DOMAIN marks : marks[i].ts < now + 1 /\ marks[i].ts \in Nat
  BY <1>1, Past
<1> QED
  BY <1>1, <1>2, UniqueIsClock

\* Star adds a bookmark.
LEMMA StarDoes ==
  ASSUME FilesInv, NEW p \in Places, NEW settled \in BOOLEAN, Star(p, settled)
  PROVE  /\ pc = "idle" /\ UNCHANGED <<recs, server, pc, s, removed, lost>> /\ now' = now + 1
         /\ \/ \E m \in Mark : m.ts = now + 1 /\ m.pos = p /\ marks' = Append(marks, m)
            \/ marks' = marks
            \/ DOMAIN marks' = {} /\ "torn" \in Faults
         /\ Typed'
<1> DEFINE m == [ts |-> now + 1, pos |-> p, settled |-> settled]
           longer == Append(marks, m)
<1>1. /\ Typed /\ now \in Nat /\ marks \in Seq(Mark) /\ now + 1 \in Nat
      /\ UniqueTimestamp(marks, now + 1) = now + 1
  BY NextStamp DEF FilesInv
<1>2. now' = now + 1 /\ UNCHANGED <<removed, lost>>
  BY DEF Star
<1>3. Edit(longer)
  <2>1. Edit(Append(marks, [ts |-> UniqueTimestamp(marks, now'), pos |-> p, settled |-> settled]))
    BY DEF Star
  <2>2. UniqueTimestamp(marks, now') = now + 1
    BY <1>1, <1>2
  <2> QED BY <2>1, <2>2
<1>4. m \in Mark /\ m.ts = now + 1 /\ m.pos = p
  BY <1>1, FieldTypes
<1> HIDE DEF m
<1>5. longer \in Seq(Mark)
  BY <1>1, <1>4, AppendFile
<1>6. longer = Append(marks, m)
  OBVIOUS
<1> HIDE DEF longer
<1>7. /\ pc = "idle" /\ UNCHANGED <<recs, server, pc, s>>
      /\ \/ marks' = longer \/ marks' = marks
         \/ DOMAIN marks' = {} /\ "torn" \in Faults
      /\ marks' \in Seq(Mark) /\ Len(marks') <= Capacity
      /\ faults' \in 0 .. MaxFaults /\ edits' \in 0 .. MaxEdits
  BY <1>1, <1>3, <1>5, EditDoes
<1>8. Typed'
  BY <1>1, <1>2, <1>7 DEF Typed
<1> QED
  BY <1>2, <1>4, <1>6, <1>7, <1>8

\* Unstar removes one.
LEMMA UnstarDoes ==
  ASSUME FilesInv, NEW i \in DOMAIN marks, Unstar(i)
  PROVE  /\ pc = "idle" /\ UNCHANGED <<recs, server, pc, s>> /\ now' = now + 1
         /\ removed' = removed \cup {marks[i].pos} /\ lost' = lost
         /\ \/ marks' = Picked(marks, DOMAIN marks \ {i})
            \/ DOMAIN marks' = {} /\ "torn" \in Faults
         /\ Typed'
<1> DEFINE left == Picked(marks, DOMAIN marks \ {i})
<1>1. Typed /\ now \in Nat /\ marks \in Seq(Mark) /\ now + 1 \in Nat /\ marks[i].pos \in Places
  BY NextStamp, ElementOfSeq, FieldTypes DEF FilesInv
<1>2. now' = now + 1 /\ removed' = removed \cup {marks[i].pos} /\ lost' = lost /\ Edit(left)
  BY DEF Unstar
<1>3. left \in Seq(Mark) /\ Len(left) <= Len(marks)
  BY <1>1, PickedFile, Zenon DEF Shorter
<1>4. left = Picked(marks, DOMAIN marks \ {i})
  OBVIOUS
<1> HIDE DEF left
<1>5. Len(left) <= Capacity
  <2>1. Len(left) \in Nat /\ Len(marks) \in Nat /\ Len(marks) <= Capacity /\ Capacity \in Nat
    BY <1>1, <1>3, LenProperties, ConstantsAssumption DEF Typed
  <2> QED BY <1>3, <2>1
<1>6. /\ pc = "idle" /\ UNCHANGED <<recs, server, pc, s>>
      /\ \/ marks' = left
         \/ DOMAIN marks' = {} /\ "torn" \in Faults
      /\ marks' \in Seq(Mark) /\ Len(marks') <= Capacity
      /\ faults' \in 0 .. MaxFaults /\ edits' \in 0 .. MaxEdits
  BY <1>1, <1>2, <1>3, <1>5, EditDoes
<1>8. removed' \subseteq Places
  BY <1>1, <1>2 DEF Typed
<1>9. Typed'
  BY <1>1, <1>2, <1>6, <1>8 DEF Typed
<1> QED
  BY <1>2, <1>4, <1>6, <1>9

\* m is a list with bookmark i settled.
Settles(m, i) ==
  /\ m \in Seq(Mark) /\ Len(m) = Len(marks) /\ DOMAIN m = DOMAIN marks
  /\ \A j \in DOMAIN marks : j # i => m[j] = marks[j]
  /\ m[i].pos = marks[i].pos /\ m[i].settled
  /\ m[i].ts = IF marks[i].ts = 0 THEN now + 1 ELSE marks[i].ts

\* Settle settles one.
LEMMA SettleDoes ==
  ASSUME FilesInv, NEW i \in DOMAIN marks, Settle(i)
  PROVE  /\ pc = "idle" /\ UNCHANGED <<recs, server, pc, s, removed, lost>> /\ now' = now + 1
         /\ \/ Settles(marks', i)
            \/ DOMAIN marks' = {} /\ "torn" \in Faults
         /\ Typed'
<1> DEFINE b == marks[i]
           ts == IF b.ts = 0 THEN UniqueTimestamp(marks, now') ELSE b.ts
           m == [marks EXCEPT ![i].settled = TRUE, ![i].ts = ts]
           b2 == [b EXCEPT !.settled = TRUE, !.ts = ts]
<1>1. /\ Typed /\ now \in Nat /\ marks \in Seq(Mark) /\ now + 1 \in Nat /\ b \in Mark
      /\ UniqueTimestamp(marks, now + 1) = now + 1 /\ Len(marks) <= Capacity
  BY NextStamp, ElementOfSeq DEF FilesInv, Typed
<1>2. now' = now + 1 /\ UNCHANGED <<removed, lost>> /\ Edit([marks EXCEPT ![i].settled = TRUE,
                        ![i].ts = IF @ = 0 THEN UniqueTimestamp(marks, now') ELSE @])
  BY DEF Settle
<1>3. ts = (IF b.ts = 0 THEN now + 1 ELSE b.ts) /\ ts \in Nat
  BY <1>1, <1>2, FieldTypes
<1>4. [marks EXCEPT ![i].settled = TRUE, ![i].ts = IF @ = 0 THEN UniqueTimestamp(marks, now') ELSE @]
        = [marks EXCEPT ![i] = b2]
  BY <1>1 DEF Mark
<1> HIDE DEF ts
<1>5. b2 \in Mark /\ b2.ts = ts /\ b2.pos = b.pos /\ b2.settled
  <2>1. b \in [ts : Nat, pos : Places, settled : BOOLEAN]
    BY <1>1 DEF Mark
  <2> DEFINE c == b
  <2>2. c \in [ts : Nat, pos : Places, settled : BOOLEAN] /\ b2 = [c EXCEPT !.settled = TRUE, !.ts = ts] /\ c = b
    BY <2>1
  <2> HIDE DEF b2, b, c
  <2> QED BY <1>3, <2>2 DEF Mark
<1> HIDE DEF b2
<1> DEFINE q == [marks EXCEPT ![i] = b2]
<1>6. q \in Seq(Mark) /\ Len(q) = Len(marks) /\ DOMAIN q = DOMAIN marks /\ q[i] = b2
      /\ \A j \in DOMAIN marks : j # i => q[j] = marks[j]
  BY <1>1, <1>5
<1>7. Edit(q)
  BY <1>2, <1>4
<1> HIDE DEF q
<1>8. Settles(q, i)
  BY <1>3, <1>5, <1>6, Zenon DEF Settles, b
<1>9. /\ pc = "idle" /\ UNCHANGED <<recs, server, pc, s>>
      /\ \/ marks' = q
         \/ DOMAIN marks' = {} /\ "torn" \in Faults
      /\ marks' \in Seq(Mark) /\ Len(marks') <= Capacity
      /\ faults' \in 0 .. MaxFaults /\ edits' \in 0 .. MaxEdits
  BY <1>1, <1>6, <1>7, EditDoes
<1>10. Typed'
  BY <1>1, <1>2, <1>9 DEF Typed
<1>11. Settles(marks', i) \/ (DOMAIN marks' = {} /\ "torn" \in Faults)
  BY <1>8, <1>9
<1> QED
  BY <1>2, <1>9, <1>10, <1>11

\* ClearCache takes the bookmarks with the book's cache.
LEMMA ClearCacheDoes ==
  ASSUME Typed, ClearCache
  PROVE  /\ pc = "idle" /\ UNCHANGED <<recs, now, server, pc, s, removed, lost>>
         /\ DOMAIN marks' = {} /\ "cleared" \in Faults
         /\ Typed'
<1> DEFINE none == <<>>
<1>1. /\ pc = "idle" /\ UNCHANGED <<recs, now, server, pc, s, edits, removed, lost>>
      /\ marks' = none /\ Fault("cleared")
  BY DEF ClearCache
<1>2. none \in Seq(Mark) /\ DOMAIN none = {} /\ Len(none) = 0 /\ Capacity \in Nat
  BY EmptySeq, ConstantsAssumption
<1> HIDE DEF none
<1>3. faults' \in 0 .. MaxFaults /\ "cleared" \in Faults
  BY <1>1, FaultKind, FaultsCounted
<1>4. Typed'
  BY <1>1, <1>2, <1>3 DEF Typed
<1> QED
  BY <1>1, <1>2, <1>3, <1>4

\* WebAdd puts one more bookmark at the end of the server's.
LEMMA WebAddDoes ==
  ASSUME Typed, NEW p \in Places, WebAdd(p)
  PROVE  /\ UNCHANGED <<marks, recs, now, pc, s, removed, lost>>
         /\ \A i \in DOMAIN server :
              server[i].pos = p => /\ server[i].state # "live"
                                   /\ server[i].state = "webDeleted" => ReAdds
         /\ \A i \in DOMAIN server : i \in DOMAIN server' /\ server'[i] = server[i]
         /\ \A j \in DOMAIN server' :
              j \notin DOMAIN server =>
                /\ server'[j].pos = p /\ server'[j].key = NoKey /\ server'[j].state = "live"
                /\ j = Len(server')
         /\ Typed'
<1> DEFINE x == [pos |-> p, key |-> NoKey, web |-> TRUE, ready |-> FALSE, state |-> "live"]
           longer == Append(server, x)
<1>1. /\ server' = longer /\ UNCHANGED <<marks, recs, now, pc, s, faults, edits, removed, lost>>
      /\ \A i \in DOMAIN server :
           server[i].pos = p => /\ server[i].state # "live"
                                /\ server[i].state = "webDeleted" => ReAdds
  BY DEF WebAdd, device
<1>2. x \in Item
  <2>1. NoKey \in Keys /\ "live" \in ItemStates
    BY NoKeyIsKey DEF ItemStates
  <2> QED BY <2>1, ItemFields
<1>3. x.pos = p /\ x.key = NoKey /\ x.state = "live"
  OBVIOUS
<1>4. longer = Append(server, x)
  OBVIOUS
<1> HIDE DEF x
<1>5. server \in Seq(Item)
  BY DEF Typed
<1>6. longer \in Seq(Item) /\ Longer(longer, server, x)
  BY <1>2, <1>4, <1>5, AppendFile
<1> HIDE DEF longer
<1>7. /\ \A i \in DOMAIN server : i \in DOMAIN longer /\ longer[i] = server[i]
      /\ \A j \in DOMAIN longer :
           j \notin DOMAIN server =>
             longer[j].pos = p /\ longer[j].key = NoKey /\ longer[j].state = "live" /\ j = Len(longer)
  BY <1>3, <1>6, Zenon DEF Longer
<1>8. Typed'
  BY <1>1, <1>6 DEF Typed
<1> QED
  BY <1>1, <1>7, <1>8

\* WebDelete marks one as deleted on the web.
LEMMA WebDeleteDoes ==
  ASSUME Typed, NEW i \in DOMAIN server, WebDelete(i)
  PROVE  /\ UNCHANGED <<marks, recs, now, pc, s, removed, lost>>
         /\ server[i].state \in {"live", "parked"}
         /\ DOMAIN server' = DOMAIN server /\ server' \in Seq(Item)
         /\ \A j \in DOMAIN server :
              /\ server'[j].pos = server[j].pos /\ server'[j].key = server[j].key
              /\ j # i => server'[j].state = server[j].state
         /\ server'[i].state = "webDeleted"
         /\ Typed'
<1> DEFINE x == server[i]
           y == [x EXCEPT !.state = "webDeleted"]
           q == [server EXCEPT ![i] = y]
<1>1. /\ x.state \in {"live", "parked"} /\ UNCHANGED <<marks, recs, now, pc, s, faults, edits, removed, lost>>
      /\ server' = [server EXCEPT ![i].state = "webDeleted"]
  BY DEF WebDelete, device
<1>2. server \in Seq(Item) /\ x \in Item
  BY ElementOfSeq DEF Typed
<1>3. [server EXCEPT ![i].state = "webDeleted"] = q
  BY <1>2
<1>4. y \in Item /\ y.pos = x.pos /\ y.key = x.key /\ y.state = "webDeleted"
  <2>1. Item = [pos : Places, key : Keys, web : BOOLEAN, ready : BOOLEAN, state : ItemStates]
    BY DEF Item, Keys, ItemStates
  <2>2. "webDeleted" \in ItemStates
    BY DEF ItemStates
  <2> DEFINE c == x
  <2>3. y = [c EXCEPT !.state = "webDeleted"] /\ c \in Item /\ c = x
    BY <1>2
  <2> HIDE DEF c, y, x, ItemStates
  <2> QED BY <2>1, <2>2, <2>3
<1> HIDE DEF y
<1>5. /\ q \in Seq(Item) /\ DOMAIN q = DOMAIN server /\ q[i] = y
      /\ \A j \in DOMAIN server : j # i => q[j] = server[j]
  BY <1>2, <1>4
<1>6. server' = q
  BY <1>1, <1>3
<1> HIDE DEF q
<1>7. \A j \in DOMAIN server :
        /\ q[j].pos = server[j].pos /\ q[j].key = server[j].key
        /\ j # i => q[j].state = server[j].state
  BY <1>4, <1>5
<1>8. Typed'
  BY <1>1, <1>5, <1>6 DEF Typed
<1> QED
  BY <1>1, <1>4, <1>5, <1>6, <1>7, <1>8

\* PowerCut ends a sync.
LEMMA PowerCutDoes ==
  ASSUME Typed, PowerCut
  PROVE  pc' = "idle" /\ s' = NoSync /\ UNCHANGED <<marks, recs, now, server, removed, lost>> /\ Typed'
<1>1. pc' = "idle" /\ s' = NoSync /\ UNCHANGED <<marks, recs, now, server, edits, removed, lost>> /\ Fault("power")
  BY DEF PowerCut, Return, device
<1>2. faults' \in 0 .. MaxFaults
  BY <1>1, FaultKind, FaultsCounted
<1>3. Typed'
  BY <1>1, <1>2, NoSyncIs, ConstantsAssumption DEF Typed, Steps
<1> QED
  BY <1>1, <1>3

-----------------------------------------------------------------------------
(* Every step leaves the files sound.                                      *)

\* A list whose timestamps agree with the others; the same but for one of the next
\* second.
Sound(q) == PlacesOf(q) \subseteq Stamps /\ OneEach(q)
Near(q, p) == PlacesOf(q) \subseteq Stamps \cup {<<now + 1, p>>} /\ OneEach(q)

\* The four lists are sound, and so is one of nothing.
LEMMA ListsSound ==
  ASSUME FilesInv
  PROVE  /\ Sound(marks) /\ Sound(s.marks) /\ Sound(recs.list) /\ Sound(s.list)
         /\ AllStamped(recs.list) /\ AllStamped(s.list)
         /\ \A q : DOMAIN q = {} => Sound(q) /\ AllStamped(q)
         /\ \A q, p : Sound(q) => Near(q, p)
<1>1. /\ PlacesOf(marks) \subseteq Stamps /\ PlacesOf(s.marks) \subseteq Stamps
      /\ PlacesOf(recs.list) \subseteq Stamps /\ PlacesOf(s.list) \subseteq Stamps
  BY DEF Stamps
<1>2. \A q : DOMAIN q = {} => Sound(q) /\ AllStamped(q)
  BY NoneOfNothing DEF Sound
<1>3. \A q, p : Sound(q) => Near(q, p)
  BY Zenon DEF Sound, Near
<1> QED
  BY <1>1, <1>2, <1>3, Zenon DEF FilesInv, Stamped, Sound

\* What a list with one more of the next second is.
LEMMA NearLonger ==
  ASSUME FilesInv, NEW T, NEW q \in Seq(T), Sound(q), \A i \in DOMAIN q : q[i].ts <= now /\ q[i].ts \in Nat,
         NEW x \in T, x.ts = now + 1
  PROVE  Near(Append(q, x), x.pos) /\ (AllStamped(q) => AllStamped(Append(q, x)))
<1> DEFINE q2 == Append(q, x)
<1>1. now \in Nat /\ now + 1 # 0 /\ \A i \in DOMAIN q : q[i].ts # x.ts
  BY DEF FilesInv, Typed
<1>2. Longer(q2, q, x)
  BY AppendFile
<1> HIDE DEF q2
<1>3. PlacesOf(q2) \subseteq PlacesOf(q) \cup {<<now + 1, x.pos>>} /\ OneEach(q2)
  BY <1>1, <1>2, Zenon DEF Longer, Sound
<1>4. AllStamped(q) => AllStamped(q2)
  BY <1>1, <1>2, Zenon DEF Longer
<1>5. Near(q2, x.pos)
  BY <1>3 DEF Near, Sound
<1> QED
  BY <1>4, <1>5 DEF q2

\* A list with fewer is sound.
LEMMA SoundShorter ==
  ASSUME NEW T, NEW q \in Seq(T), Sound(q), NEW S, NEW q2, Shorter(q2, q, S)
  PROVE  Sound(q2) /\ (AllStamped(q) => AllStamped(q2))
<1>1. /\ PlacesOf(q2) \subseteq PlacesOf(q) /\ OneEach(q2)
      /\ AllStamped(q) => AllStamped(q2)
  BY Zenon DEF Shorter, Sound
<1> QED
  BY <1>1 DEF Sound

\* What is left of a sound list is sound.
LEMMA FewerSound ==
  ASSUME NEW q, NEW p, Fewer(q, p)
  PROVE  /\ Sound(p) => Sound(q)
         /\ \A x : Near(p, x) => Near(q, x)
         /\ AllStamped(p) => AllStamped(q)
<1>1. PlacesOf(q) \subseteq PlacesOf(p) /\ (AllStamped(p) => AllStamped(q)) /\ (OneEach(p) => OneEach(q))
  BY FewerPlaces DEF Fewer
<1> QED
  BY <1>1 DEF Sound, Near

\* Lists that are sound leave the timestamps in order.
LEMMA StillStamped ==
  ASSUME FilesInv, Typed', now <= now',
         Sound(marks'), Sound(s'.marks), Sound(recs'.list), Sound(s'.list),
         AllStamped(recs'.list), AllStamped(s'.list), s'.minted \subseteq s.minted
  PROVE  Stamped'
<1> Typed /\ Stamped
  BY DEF FilesInv
<1>1. Stamps \in SUBSET (Nat \X Places) /\ now \in Nat /\ now' \in Nat /\ Agreeing(Stamps, now)
      /\ \A t \in s.minted : t <= now /\ t \in Nat
  <2>1. Stamps \in SUBSET (Nat \X Places)
    BY PlacesTyped
  <2>2. s.minted \subseteq Nat
    BY SyncFields
  <2> QED BY <2>1, <2>2 DEF Typed, Stamped
<1>2. Stamps' \in SUBSET Stamps
  BY DEF Sound, Stamps
<1>3. Agreeing(Stamps', now')
  BY <1>1, <1>2, AgreeingFewer
<1>4. \A t \in s'.minted : t <= now'
  BY <1>1
<1> QED
  BY <1>3, <1>4 DEF Stamped, Sound

\* So do lists near it, when the clock has moved on.
LEMMA NextStamped ==
  ASSUME FilesInv, Typed', now' = now + 1, NEW p,
         Near(marks', p), Near(s'.marks, p), Near(recs'.list, p), Near(s'.list, p),
         AllStamped(recs'.list), AllStamped(s'.list), s'.minted \subseteq s.minted \cup {now + 1}
  PROVE  Stamped'
<1> Typed /\ Stamped
  BY DEF FilesInv
<1>1. Stamps \in SUBSET (Nat \X Places) /\ now \in Nat /\ now' \in Nat /\ Agreeing(Stamps, now)
      /\ now < now' /\ \A t \in s.minted : t <= now /\ t \in Nat
  <2>1. Stamps \in SUBSET (Nat \X Places)
    BY PlacesTyped
  <2>2. now \in Nat /\ now' \in Nat /\ now < now'
    BY DEF Typed
  <2>3. s.minted \subseteq Nat
    BY SyncFields
  <2> QED BY <2>1, <2>2, <2>3 DEF Stamped
<1>2. Stamps' \in SUBSET (Stamps \cup {<<now', p>>})
  BY DEF Near, Stamps
<1>3. Agreeing(Stamps', now')
  BY <1>1, <1>2, AgreeingOneMore
<1>4. \A t \in s'.minted : t <= now'
  BY <1>1
<1> QED
  BY <1>3, <1>4 DEF Stamped, Near

\* At first nothing is there but perhaps bookmarks without a timestamp.
LEMMA InitSound ==
  ASSUME Init
  PROVE  FilesInv
<1> DEFINE none == <<>>
<1>1. none \in Seq(Mark) /\ none \in Seq(Item) /\ none \in Seq(Record) /\ Len(none) = 0 /\ DOMAIN none = {}
  BY EmptySeq
<1>3. /\ marks = none \/ marks \in {m \in OldMarks : LateMarks /\ Capacity >= 2 /\ m[1].pos # m[2].pos}
      /\ recs = NoRecordFile /\ now \in Nat /\ server = none /\ pc = "idle" /\ s = NoSync
      /\ faults = 0 /\ edits = 0 /\ removed = {} /\ lost = {}
  BY DEF Init
<1>4. marks \in Seq(Mark) /\ Len(marks) <= Capacity /\ \A i \in DOMAIN marks : marks[i].ts = 0
  <2>1. CASE marks = none
    BY <1>1, <2>1, ConstantsAssumption
  <2>2. CASE marks \in {m \in OldMarks : LateMarks /\ Capacity >= 2 /\ m[1].pos # m[2].pos}
    <3>1. marks \in OldMarks /\ Capacity >= 2
      BY <2>2
    <3>2. PICK p \in Places, q \in Places, known \in BOOLEAN :
            marks = <<[ts |-> 0, pos |-> p, settled |-> known], [ts |-> 0, pos |-> q, settled |-> known]>>
      BY <3>1 DEF OldMarks
    <3> DEFINE x == [ts |-> 0, pos |-> p, settled |-> known]
               y == [ts |-> 0, pos |-> q, settled |-> known]
    <3>3. x \in Mark /\ y \in Mark /\ x.ts = 0 /\ y.ts = 0 /\ marks = <<x, y>>
      BY <3>2, FieldTypes
    <3> HIDE DEF x, y
    <3>4. marks \in Seq(Mark) /\ Len(marks) = 2 /\ \A i \in DOMAIN marks : marks[i].ts = 0
      BY <3>3
    <3> QED BY <3>1, <3>4, ConstantsAssumption
  <2> QED BY <1>3, <2>1, <2>2
<1>5. recs.list = none /\ ~recs.here /\ recs \in RecordFile
  BY <1>1, <1>3 DEF NoRecordFile, RecordFile
<1> HIDE DEF none
<1>6. Typed
  BY <1>1, <1>3, <1>4, <1>5, NoSyncIs, ConstantsAssumption DEF Typed, Steps
<1>7. /\ PlacesOf(marks) = {} /\ PlacesOf(s.marks) = {} /\ PlacesOf(recs.list) = {} /\ PlacesOf(s.list) = {}
      /\ OneEach(marks) /\ OneEach(s.marks) /\ OneEach(recs.list) /\ AllStamped(recs.list)
      /\ OneEach(s.list) /\ AllStamped(s.list)
  <2>1. PlacesOf(marks) = {} /\ OneEach(marks)
    BY <1>4 DEF PlacesOf, OneEach
  <2>2. DOMAIN recs.list = {} /\ DOMAIN s.list = {} /\ DOMAIN s.marks = {}
    BY <1>1, <1>3, <1>5, NoSyncIs
  <2> QED BY <2>1, <2>2, NoneOfNothing
<1>8. Stamps = {} /\ s.minted = {}
  BY <1>3, <1>7, NoSyncIs DEF Stamps
<1>9. Agreeing(Stamps, now)
  BY <1>8 DEF Agreeing
<1>10. Stamped
  BY <1>7, <1>8, <1>9 DEF Stamped
<1>11. Loaded
  <2>1. DOMAIN recs.list = {} /\ DOMAIN s.incoming = {}
    BY <1>1, <1>3, <1>5, NoSyncIs
  <2> QED BY <1>3, <2>1 DEF Loaded, Early, Late
<1> QED
  BY <1>6, <1>10, <1>11 DEF FilesInv

\* The server keeps the bookmarks it has where they are.
Kin(next) == \A i \in DOMAIN server : i \in DOMAIN next /\ next[i].pos = server[i].pos

\* Changes to bookmarks the server has.
Placed == \A n \in DOMAIN s.incoming :
            /\ s.incoming[n].item \in DOMAIN server
            /\ server[s.incoming[n].item].pos = s.incoming[n].pos

\* They stay so when none comes in.
LEMMA StillPlaced ==
  ASSUME Loaded, Kin(server'), s'.incoming = s.incoming \/ DOMAIN s'.incoming = {}
  PROVE  Placed'
<1>1. Placed
  BY DEF Loaded, Placed
<1>2. CASE s'.incoming = s.incoming
  BY <1>1, <1>2, Zenon DEF Placed, Kin
<1>3. CASE DOMAIN s'.incoming = {}
  BY <1>3 DEF Placed
<1> QED
  BY <1>2, <1>3

\* A step that leaves the server alone.
LEMMA KinItself == Kin(server)
BY DEF Kin

\* A sync that ends leaves the file, or less of it.
LEMMA StoppedSound ==
  ASSUME FilesInv, Typed', pc' = "idle", s' = NoSync, UNCHANGED <<marks, server, now>>,
         NEW p, Sound(p), AllStamped(p), Fewer(recs'.list, p), ~recs'.here => DOMAIN recs'.list = {}
  PROVE  FilesInv'
<1>1. Typed /\ Loaded /\ now <= now'
  BY DEF FilesInv, Typed
<1>2. /\ Sound(marks) /\ \A q : DOMAIN q = {} => Sound(q) /\ AllStamped(q)
  BY ListsSound
<1>3. Sound(recs'.list) /\ AllStamped(recs'.list)
  BY FewerSound
<1>4. /\ Sound(marks') /\ Sound(s'.marks) /\ Sound(s'.list) /\ AllStamped(s'.list)
      /\ s'.minted \subseteq s.minted
  BY <1>2, NoSyncIs
<1>5. Stamped'
  BY <1>1, <1>3, <1>4, StillStamped
<1>6. Placed'
  BY NoSyncIs DEF Placed
<1>7. Loaded'
  BY <1>6 DEF Loaded, Placed, Early
<1> QED
  BY <1>5, <1>7 DEF FilesInv

\* What a sync has loaded before it applies changes.
LEMMA EarlyIs ==
  ASSUME FilesInv, pc \in Early
  PROVE  /\ Typed /\ Loaded /\ now \in Nat /\ s.list \in Seq(Record) /\ recs.list \in Seq(Record)
         /\ s.marks = marks /\ s.minted = {} /\ s.acks = {}
         /\ Within(recs.list, s.list) /\ (~recs.here => DOMAIN recs.list = {})
         /\ recs.watermark <= s.watermark /\ recs.watermark \in Nat /\ s.watermark \in Nat
         /\ "short" \notin Faults => s.list = recs.list /\ s.watermark = recs.watermark
<1>1. /\ Typed /\ Loaded /\ now \in Nat /\ s.list \in Seq(Record) /\ recs.list \in Seq(Record)
      /\ recs.watermark \in Nat /\ s.watermark \in Nat
  BY SyncFields DEF FilesInv, Typed
<1>2. /\ s.marks = marks /\ s.minted = {} /\ s.acks = {}
      /\ recs.watermark <= s.watermark
      /\ "short" \notin Faults => s.list = recs.list /\ s.watermark = recs.watermark
  BY DEF FilesInv, Loaded
<1>3. Within(recs.list, s.list) /\ (~recs.here => DOMAIN recs.list = {})
  BY DEF FilesInv, Loaded, Early
<1> QED
  BY <1>1, <1>2, <1>3

\* Begin takes over what the files hold.
LEMMA BeginSound ==
  ASSUME FilesInv, Begin
  PROVE  FilesInv'
<1>1. /\ pc = "idle" /\ pc' = "mint" /\ UNCHANGED <<marks, recs, now, server, removed, lost>>
      /\ s'.marks = marks /\ s'.list = recs.list /\ s'.watermark = recs.watermark
      /\ s'.late = recs.watermark + 1 /\ DOMAIN s'.incoming = {}
      /\ s'.minted = {} /\ s'.acks = {} /\ Typed'
  BY BeginDoes DEF FilesInv
<1>2. now \in Nat /\ now <= now' /\ recs.watermark \in Nat /\ Loaded
  BY <1>1, SyncFields DEF FilesInv, Typed
<1>3. Sound(marks) /\ Sound(recs.list) /\ AllStamped(recs.list)
  BY ListsSound
<1>4. Stamped'
  BY <1>1, <1>2, <1>3, StillStamped
<1>5. Placed'
  BY <1>1, <1>2, KinItself, StillPlaced
<1>6. Loaded'
  <2>1. s'.late > s'.watermark /\ (~recs'.here => DOMAIN recs'.list = {})
    BY <1>1, <1>2 DEF Loaded
  <2>2. Within(recs'.list, s'.list) /\ recs'.watermark <= s'.watermark
    BY <1>1, <1>2 DEF Within
  <2> QED BY <1>1, <1>5, <2>1, <2>2 DEF Loaded, Placed, Early
<1> QED
  BY <1>1, <1>4, <1>6 DEF FilesInv

\* Mint writes a record of a mark's own timestamp.
LEMMA MintSound ==
  ASSUME FilesInv, Mint
  PROVE  FilesInv'
<1>1. pc = "mint" /\ UNCHANGED <<marks, now, server>> /\ Typed'
  BY MintDoes
<1>2. PICK r, f :
        /\ Mints(r) /\ Puts(f, r) /\ Remnant(recs', f)
        /\ \/ pc' = "idle" /\ s' = NoSync
           \/ /\ pc' = "mint" /\ s'.marks = s.marks /\ s'.watermark = s.watermark
              /\ s'.late > s'.watermark /\ s'.incoming = s.incoming
              /\ s'.minted = s.minted /\ s'.acks = s.acks
              /\ Within(recs'.list, s'.list)
              /\ s'.list = s.list \/ s'.list = Append(s.list, r)
        /\ \/ recs' = recs /\ s'.list = s.list
           \/ recs' = f /\ s'.list = Append(s.list, r)
           \/ pc' = "idle" \/ "short" \in Faults
  BY MintDoes, Zenon
<1>3. /\ Typed /\ Loaded /\ now <= now' /\ s.list \in Seq(Record) /\ recs.list \in Seq(Record)
      /\ s.marks = marks /\ s.minted = {} /\ s.acks = {} /\ DOMAIN s.incoming = {}
      /\ Within(recs.list, s.list)
      /\ recs.watermark <= s.watermark /\ recs.watermark \in Nat /\ s.watermark \in Nat
      /\ "short" \notin Faults => s.list = recs.list /\ s.watermark = recs.watermark
  <2>1. pc \in Early
    BY <1>1 DEF Early
  <2>2. DOMAIN s.incoming = {}
    BY <1>1 DEF FilesInv, Loaded
  <2> QED BY <1>1, <2>1, <2>2, EarlyIs
<1>4. /\ Sound(marks) /\ Sound(s.marks) /\ Sound(recs.list) /\ Sound(s.list)
      /\ AllStamped(recs.list) /\ AllStamped(s.list)
  BY ListsSound
<1>5. ASSUME NEW p \in Seq(Record), Sound(p), AllStamped(p), Within(p, s.list)
      PROVE  Sound(Append(p, r)) /\ AllStamped(Append(p, r))
  <2>1. /\ r \in Record /\ r.ts # 0 /\ \A n \in DOMAIN s.list : s.list[n].ts # r.ts
        /\ \E i \in DOMAIN s.marks : s.marks[i].ts = r.ts /\ s.marks[i].pos = r.pos
    BY <1>2 DEF Mints
  <2>2. PICK i \in DOMAIN s.marks : s.marks[i].ts = r.ts /\ s.marks[i].pos = r.pos
    BY <2>1
  <2>3. PlacesOf(s.marks) \subseteq Stamps
    BY <1>4 DEF Sound
  <2>4. <<r.ts, r.pos>> \in Stamps
    BY <2>1, <2>2, <2>3, StampOf
  <2>5. \A n \in DOMAIN p : p[n].ts # r.ts
    BY <1>5, <2>1, Zenon DEF Within
  <2> DEFINE q == Append(p, r)
  <2>6. Longer(q, p, r)
    BY <2>1, AppendFile
  <2> HIDE DEF q
  <2>7. PlacesOf(q) \subseteq PlacesOf(p) \cup {<<r.ts, r.pos>>} /\ OneEach(q) /\ AllStamped(q)
    BY <1>5, <2>1, <2>5, <2>6, Zenon DEF Longer, Sound
  <2>8. Sound(q) /\ AllStamped(q)
    BY <1>5, <2>4, <2>7 DEF Sound
  <2> QED BY <2>8 DEF q
<1>6. /\ Sound(Append(s.list, r)) /\ AllStamped(Append(s.list, r))
      /\ Sound(f.list) /\ AllStamped(f.list)
  <2>1. Within(s.list, s.list)
    BY DEF Within
  <2>2. f.list = Append(recs.list, r)
    BY <1>2 DEF Puts
  <2> QED BY <1>3, <1>4, <1>5, <2>1, <2>2
<1>7. /\ Fewer(recs'.list, f.list) /\ (~recs'.here => DOMAIN recs'.list = {})
      /\ recs'.watermark = recs.watermark \/ recs'.watermark = 0
  BY <1>2 DEF Remnant, Puts
<1>8. CASE pc' = "idle" /\ s' = NoSync
  BY <1>1, <1>6, <1>7, <1>8, StoppedSound
<1>9. CASE pc' = "mint"
  <2>1. /\ s'.marks = s.marks /\ s'.watermark = s.watermark
        /\ s'.late > s'.watermark /\ s'.incoming = s.incoming
        /\ s'.minted = s.minted /\ s'.acks = s.acks
        /\ Within(recs'.list, s'.list)
        /\ s'.list = s.list \/ s'.list = Append(s.list, r)
    BY <1>2, <1>9
  <2>2. Sound(recs'.list) /\ AllStamped(recs'.list)
    BY <1>6, <1>7, FewerSound
  <2>3. Sound(s'.list) /\ AllStamped(s'.list) /\ Sound(s'.marks) /\ Sound(marks')
    BY <1>1, <1>4, <1>6, <2>1
  <2>4. Stamped'
    BY <1>1, <1>3, <2>1, <2>2, <2>3, StillStamped
  <2>5. Placed'
    BY <1>1, <1>3, <2>1, KinItself, StillPlaced
  <2>6. recs'.watermark <= s'.watermark
    BY <1>3, <1>7, <2>1
  <2>7. "short" \notin Faults => s'.list = recs'.list /\ s'.watermark = recs'.watermark
    BY <1>2, <1>3, <1>9, <2>1, Zenon DEF Puts
  <2>8. Loaded'
    BY <1>1, <1>3, <1>7, <1>9, <2>1, <2>5, <2>6, <2>7 DEF Loaded, Placed, Early
  <2> QED BY <1>1, <2>4, <2>8 DEF FilesInv
<1> QED
  BY <1>2, <1>8, <1>9

\* Kept are some of a list's records.
LEMMA KeptIs ==
  ASSUME Typed
  PROVE  Kept(recs.list) \in Seq(Record)
         /\ Shorter(Kept(recs.list), recs.list, {n \in DOMAIN recs.list : recs.list[n].ts \in SyncTimes(s.marks)})
BY SyncFields, PickedFile DEF Kept

\* Retain leaves some of the records in both.
LEMMA RetainSound ==
  ASSUME FilesInv, Retain
  PROVE  FilesInv'
<1>1. /\ pc = "mint" /\ UNCHANGED <<marks, now, server, removed>>
      /\ Fewer(recs'.list, recs.list) /\ (~recs'.here => DOMAIN recs'.list = {})
      /\ recs'.watermark = recs.watermark \/ recs'.watermark = 0
      /\ \/ pc' = "idle" /\ s' = NoSync
         \/ /\ pc' = "exchange" /\ s'.marks = s.marks /\ s'.watermark = s.watermark
            /\ s'.incoming = s.incoming /\ s'.minted = s.minted /\ s'.acks = s.acks
            /\ Within(recs'.list, s'.list)
            /\ s'.list = s.list \/ s'.list = Kept(s.list)
      /\ \/ /\ recs'.watermark = recs.watermark
            /\ \/ recs'.list = Kept(recs.list)
                  /\ s'.list = (IF recs.here THEN Kept(s.list) ELSE s.list)
               \/ recs' = recs /\ s' = s
         \/ pc' = "idle" \/ "short" \in Faults
      /\ Typed'
  BY RetainDoes
<1>2. /\ Typed /\ Loaded /\ now <= now' /\ s.list \in Seq(Record)
      /\ s.marks = marks /\ s.minted = {} /\ s.acks = {} /\ DOMAIN s.incoming = {}
      /\ ~recs.here => DOMAIN recs.list = {}
      /\ recs.watermark <= s.watermark /\ recs.watermark \in Nat /\ s.watermark \in Nat
      /\ "short" \notin Faults => s.list = recs.list /\ s.watermark = recs.watermark
  <2>1. pc \in Early
    BY <1>1 DEF Early
  <2>2. DOMAIN s.incoming = {}
    BY <1>1 DEF FilesInv, Loaded
  <2> QED BY <1>1, <2>1, <2>2, EarlyIs
<1>3. /\ Sound(marks) /\ Sound(s.marks) /\ Sound(recs.list) /\ Sound(s.list)
      /\ AllStamped(recs.list) /\ AllStamped(s.list)
  BY ListsSound
<1>4. /\ Sound(Kept(s.list)) /\ AllStamped(Kept(s.list))
      /\ DOMAIN s.list = {} => Kept(s.list) = s.list
  <2> DEFINE in == {n \in DOMAIN s.list : s.list[n].ts \in SyncTimes(s.marks)}
             kept == Picked(s.list, in)
  <2>1. Shorter(kept, s.list, in)
    BY <1>2, PickedFile
  <2>2. DOMAIN s.list = {} => kept = s.list
    BY <2>1, Zenon DEF Shorter
  <2> HIDE DEF kept, in
  <2>3. Sound(kept) /\ AllStamped(kept)
    BY <1>2, <1>3, <2>1, SoundShorter
  <2> QED BY <2>2, <2>3 DEF kept, in, Kept
<1>5. CASE pc' = "idle" /\ s' = NoSync
  BY <1>1, <1>3, <1>5, StoppedSound
<1>6. CASE pc' = "exchange"
  <2>1. /\ s'.marks = s.marks /\ s'.watermark = s.watermark
        /\ s'.incoming = s.incoming /\ s'.minted = s.minted /\ s'.acks = s.acks
        /\ Within(recs'.list, s'.list)
        /\ s'.list = s.list \/ s'.list = Kept(s.list)
    BY <1>1, <1>6
  <2>2. Sound(recs'.list) /\ AllStamped(recs'.list)
    BY <1>1, <1>3, FewerSound
  <2>3. Sound(s'.list) /\ AllStamped(s'.list) /\ Sound(s'.marks) /\ Sound(marks')
    BY <1>1, <1>3, <1>4, <2>1
  <2>4. Stamped'
    BY <1>1, <1>2, <2>1, <2>2, <2>3, StillStamped
  <2>5. Placed'
    BY <1>1, <1>2, <2>1, KinItself, StillPlaced
  <2>6. recs'.watermark <= s'.watermark
    BY <1>1, <1>2, <2>1
  <2>7. "short" \notin Faults => s'.list = recs'.list /\ s'.watermark = recs'.watermark
    BY <1>1, <1>2, <1>4, <1>6, <2>1, Zenon
  <2>8. Loaded'
    BY <1>1, <1>2, <1>6, <2>1, <2>5, <2>6, <2>7 DEF Loaded, Placed, Early
  <2> QED BY <1>1, <2>4, <2>8 DEF FilesInv
<1> QED
  BY <1>1, <1>5, <1>6

\* The bookmarks stay where they are when the server hears of others.
LEMMA AnswerKin ==
  ASSUME Typed
  PROVE  Kin(Answer)
<1> DEFINE keys == {KeyOf(s.list[n]) : n \in DOMAIN s.list}
<1>1. Outgoing \in Seq(Record) /\ KeysComplete \in BOOLEAN
  BY OutgoingAre, SyncFields DEF KeysComplete
<1>2. AfterRequest(Answer, Outgoing, keys, KeysComplete)
  BY <1>1, ReceivedIs, Zenon DEF Answer
<1> QED
  BY <1>2, Zenon DEF AfterRequest, Kin

\* What is taken of the server's offers are changes to bookmarks it has.
LEMMA ExchangeSound ==
  ASSUME FilesInv, Exchange
  PROVE  FilesInv'
<1>1. /\ pc = "exchange" /\ UNCHANGED <<marks, recs, now, removed, lost>>
      /\ server' = server \/ server' = Answer
      /\ \/ pc' = "idle" /\ s' = NoSync
         \/ /\ pc' = "pull" /\ s'.incoming = Collected(<<>>, Offers)
            /\ s'.marks = s.marks /\ s'.list = s.list /\ s'.watermark = s.watermark
            /\ s'.minted = s.minted /\ s'.acks = s.acks
      /\ Typed'
  BY ExchangeDoes DEF FilesInv
<1>2. /\ Typed /\ Loaded /\ now <= now' /\ Within(recs.list, s.list)
      /\ s.marks = marks /\ s.minted = {} /\ s.acks = {} /\ recs.watermark <= s.watermark
      /\ ~recs.here => DOMAIN recs.list = {}
      /\ "short" \notin Faults => s.list = recs.list /\ s.watermark = recs.watermark
  <2>1. pc \in Early
    BY <1>1 DEF Early
  <2> QED BY <1>1, <2>1, EarlyIs
<1>3. /\ Sound(marks) /\ Sound(recs.list) /\ AllStamped(recs.list)
      /\ Sound(s.list) /\ AllStamped(s.list)
      /\ \A q : DOMAIN q = {} => Sound(q) /\ AllStamped(q)
  BY ListsSound
<1>4. /\ Sound(s'.marks) /\ Sound(s'.list) /\ AllStamped(s'.list) /\ s'.minted \subseteq s.minted
  BY <1>1, <1>2, <1>3, NoSyncIs
<1>5. Stamped'
  BY <1>1, <1>2, <1>3, <1>4, StillStamped
<1>6. Kin(server')
  BY <1>1, <1>2, AnswerKin, KinItself
<1>7. Placed'
  <2>1. CASE s' = NoSync
    BY <1>2, <1>6, <2>1, NoSyncIs, StillPlaced
  <2>2. CASE s'.incoming = Collected(<<>>, Offers)
    <3>1. \A n \in DOMAIN s'.incoming : IsOffer(s'.incoming[n])
      BY <1>2, <2>2, FirstTaken, OffersAre
    <3> QED BY <1>6, <3>1, Zenon DEF IsOffer, Kin, Placed
  <2> QED BY <1>1, <2>1, <2>2
<1>8. Loaded'
  BY <1>1, <1>2, <1>7 DEF Loaded, Placed, Early
<1> QED
  BY <1>1, <1>5, <1>8 DEF FilesInv

\* So are those of a further request.
LEMMA PullSound ==
  ASSUME FilesInv, Pull
  PROVE  FilesInv'
<1>1. /\ pc = "pull" /\ UNCHANGED <<marks, recs, now, removed, lost>>
      /\ SameBookmarks(server')
      /\ \/ pc' = "advance" /\ s' = s
         \/ /\ pc' = "pull" /\ s'.incoming = Collected(s.incoming, Offers)
            /\ s'.marks = s.marks /\ s'.list = s.list /\ s'.watermark = s.watermark
            /\ s'.minted = s.minted /\ s'.acks = s.acks
      /\ Typed'
  BY PullDoes DEF FilesInv
<1>2. /\ Typed /\ Loaded /\ now <= now' /\ Within(recs.list, s.list)
      /\ s.marks = marks /\ s.minted = {} /\ s.acks = {} /\ recs.watermark <= s.watermark
      /\ ~recs.here => DOMAIN recs.list = {}
      /\ "short" \notin Faults => s.list = recs.list /\ s.watermark = recs.watermark
  <2>1. pc \in Early
    BY <1>1 DEF Early
  <2> QED BY <1>1, <2>1, EarlyIs
<1>3. /\ Sound(marks) /\ Sound(recs.list) /\ AllStamped(recs.list)
      /\ Sound(s.list) /\ AllStamped(s.list)
  BY ListsSound
<1>4. /\ Sound(s'.marks) /\ Sound(s'.list) /\ AllStamped(s'.list) /\ s'.minted \subseteq s.minted
  BY <1>1, <1>2, <1>3
<1>5. Stamped'
  BY <1>1, <1>2, <1>3, <1>4, StillStamped
<1>6. Kin(server')
  BY <1>1, Zenon DEF SameBookmarks, Kin
<1>7. Placed'
  <2>1. CASE s' = s
    BY <1>2, <1>6, <2>1, StillPlaced
  <2>2. CASE s'.incoming = Collected(s.incoming, Offers)
    <3>1. /\ Takes(s'.incoming, s.incoming, Offers) /\ Placed
          /\ \A k \in DOMAIN Offers : IsOffer(Offers[k])
      BY <1>2, <2>2, SyncFields, OffersAre, CollectedIs DEF Loaded, Placed
    <3>2. \A n \in DOMAIN s'.incoming :
            \/ \E m \in DOMAIN s.incoming : s'.incoming[n] = s.incoming[m]
            \/ IsOffer(s'.incoming[n])
      BY <3>1, Zenon DEF Takes
    <3>3. \A n \in DOMAIN s'.incoming :
            s'.incoming[n].item \in DOMAIN server /\ server[s'.incoming[n].item].pos = s'.incoming[n].pos
      BY <3>1, <3>2, Zenon DEF Placed, IsOffer
    <3> QED BY <1>6, <3>3, Zenon DEF Kin, Placed
  <2> QED BY <1>1, <2>1, <2>2
<1>8. Loaded'
  BY <1>1, <1>2, <1>7 DEF Loaded, Placed, Early
<1> QED
  BY <1>1, <1>5, <1>8 DEF FilesInv

\* Advance leaves the records, or fewer of them.
LEMMA AdvanceSound ==
  ASSUME FilesInv, Advance
  PROVE  FilesInv'
<1>1. /\ pc \in {"pull", "advance"} /\ UNCHANGED <<marks, now, server, removed>>
      /\ OnlyMarked
      /\ \/ pc' = "idle" /\ s' = NoSync
         \/ /\ pc' = "apply" /\ s'.incoming = s.incoming
            /\ s'.marks = s.marks /\ s'.list = s.list
            /\ s'.minted = s.minted /\ s'.acks = s.acks
      /\ Typed'
  BY AdvanceDoes
<1>2. /\ Typed /\ Loaded /\ now <= now' /\ Within(recs.list, s.list)
  <2>1. pc \in Early
    BY <1>1 DEF Early
  <2> QED BY <1>1, <2>1, EarlyIs
<1>3. /\ Sound(marks) /\ Sound(s.marks) /\ Sound(recs.list) /\ AllStamped(recs.list)
      /\ Sound(s.list) /\ AllStamped(s.list)
  BY ListsSound
<1>4. Fewer(recs'.list, recs.list) /\ (~recs'.here => DOMAIN recs'.list = {})
  BY <1>1 DEF OnlyMarked
<1>5. CASE pc' = "idle" /\ s' = NoSync
  BY <1>1, <1>3, <1>4, <1>5, StoppedSound
<1>6. CASE pc' = "apply"
  <2>1. /\ s'.incoming = s.incoming /\ s'.marks = s.marks /\ s'.list = s.list
        /\ s'.minted = s.minted /\ s'.acks = s.acks
    BY <1>1, <1>6
  <2>2. Sound(recs'.list) /\ AllStamped(recs'.list)
    BY <1>3, <1>4, FewerSound
  <2>3. Sound(s'.list) /\ AllStamped(s'.list) /\ Sound(s'.marks) /\ Sound(marks')
    BY <1>1, <1>3, <2>1
  <2>4. Stamped'
    BY <1>1, <1>2, <2>1, <2>2, <2>3, StillStamped
  <2>5. Placed'
    BY <1>1, <1>2, <2>1, KinItself, StillPlaced
  <2>6. Within(recs'.list, s'.list)
    BY <1>2, <1>4, <2>1, WithinStill DEF Fewer
  <2>7. Loaded'
    BY <1>4, <1>6, <2>5, <2>6 DEF Loaded, Placed, Early
  <2> QED BY <1>1, <2>4, <2>7 DEF FilesInv
<1> QED
  BY <1>1, <1>5, <1>6

\* A step that applies a change to what the sync has loaded, or ends the sync.
LEMMA ApplySound ==
  ASSUME FilesInv, pc \in Late, Typed', UNCHANGED now,
         Fewer(recs'.list, recs.list), ~recs'.here => DOMAIN recs'.list = {},
         Kin(server'), Sound(marks'),
         \/ pc' = "idle" /\ s' = NoSync
         \/ /\ pc' \in Late /\ Sound(s'.marks) /\ s'.list = s.list
            /\ s'.incoming = s.incoming /\ s'.minted = s.minted
  PROVE  FilesInv'
<1>1. Typed /\ Loaded /\ now <= now' /\ Within(recs.list, s.list)
  BY DEF FilesInv, Typed, Loaded, Late
<1>2. /\ Sound(recs.list) /\ Sound(s.list) /\ AllStamped(recs.list) /\ AllStamped(s.list)
      /\ \A q : DOMAIN q = {} => Sound(q) /\ AllStamped(q)
  BY ListsSound
<1>3. /\ Sound(s'.marks) /\ Sound(s'.list) /\ AllStamped(s'.list) /\ s'.minted \subseteq s.minted
      /\ Sound(recs'.list) /\ AllStamped(recs'.list)
  BY <1>2, NoSyncIs, FewerSound
<1>4. Stamped'
  BY <1>1, <1>2, <1>3, StillStamped
<1>5. Placed'
  BY <1>1, NoSyncIs, StillPlaced
<1>6. pc' # "idle" => Within(recs'.list, s'.list)
  BY <1>1, WithinStill DEF Fewer, Late
<1>7. Loaded'
  BY <1>1, <1>5, <1>6 DEF Loaded, Placed, Early, Late
<1> QED
  BY <1>4, <1>7 DEF FilesInv

\* A step that leaves the file leaves it whole.
LEMMA SameFile ==
  ASSUME FilesInv, recs' = recs
  PROVE  Fewer(recs'.list, recs.list) /\ (~recs'.here => DOMAIN recs'.list = {})
BY DEF FilesInv, Loaded, Fewer, Within

\* A deletion takes bookmarks from what the sync has loaded.
LEMMA ApplyDeleteSound ==
  ASSUME FilesInv, ApplyDelete
  PROVE  FilesInv'
<1>1. /\ pc = "apply" /\ pc' = "apply" /\ UNCHANGED <<marks, recs, now, server, removed, lost>>
      /\ s'.marks = Left(s.marks)
      /\ s'.list = s.list /\ s'.incoming = s.incoming /\ s'.minted = s.minted
      /\ Typed'
  BY ApplyDeleteDoes DEF FilesInv
<1>2. Sound(marks) /\ Sound(s.marks) /\ s.marks \in Seq(Mark)
  BY ListsSound, SyncFields DEF FilesInv
<1>3. Sound(Left(s.marks))
  <2> DEFINE in == {i \in DOMAIN s.marks : s.marks[i].ts # Gone \/ Gone = 0}
             left == Picked(s.marks, in)
  <2>1. Shorter(left, s.marks, in)
    BY <1>2, PickedFile
  <2> HIDE DEF left, in
  <2>2. Sound(left)
    BY <1>2, <2>1, SoundShorter
  <2> QED BY <2>2 DEF left, in, Left
<1> QED
  BY <1>1, <1>2, <1>3, KinItself, SameFile, ApplySound DEF Late

\* The other answers add nothing but acknowledgments.
LEMMA ApplyAnswerSound ==
  ASSUME FilesInv, ApplyDuplicate \/ ApplyUnplaceable \/ ApplyLater
  PROVE  FilesInv'
<1>1. /\ pc = "apply" /\ pc' = "apply" /\ UNCHANGED <<marks, recs, now, server, removed, lost>>
      /\ s'.marks = s.marks
      /\ s'.list = s.list /\ s'.incoming = s.incoming /\ s'.minted = s.minted
      /\ Typed'
  BY ApplyAnswerDoes, ApplyLaterDoes DEF FilesInv
<1>2. Sound(marks) /\ Sound(s.marks)
  BY ListsSound
<1> QED
  BY <1>1, <1>2, KinItself, SameFile, ApplySound DEF Late

\* An addition takes the next second for its mark and its record.
LEMMA ApplyAddSound ==
  ASSUME FilesInv, ApplyAdd
  PROVE  FilesInv'
<1> DEFINE p == TheChange.pos
<1>1. /\ pc = "apply" /\ UNCHANGED <<marks, server, removed>> /\ now' = now + 1 /\ Typed'
  BY ApplyAddDoes
<1>2. PICK r, a, f :
        /\ Adds(r, a) /\ Puts(f, r) /\ Remnant(recs', f)
        /\ \/ pc' = "idle" /\ s' = NoSync
           \/ /\ pc' = "apply" /\ s'.list = Append(s.list, r)
              /\ s'.incoming = s.incoming /\ s'.minted = s.minted \cup {now + 1}
              /\ \E m \in Mark : m.ts = now + 1 /\ m.pos = p /\ s'.marks = Append(s.marks, m)
  BY ApplyAddDoes, Zenon
<1>3. /\ r \in Record /\ r.ts = now + 1 /\ r.pos = p /\ f.list = Append(recs.list, r)
      /\ Fewer(recs'.list, f.list) /\ (~recs'.here => DOMAIN recs'.list = {})
  BY <1>2 DEF Adds, Puts, Remnant
<1>4. /\ Typed /\ Stamped /\ Loaded
      /\ s.marks \in Seq(Mark) /\ s.list \in Seq(Record) /\ recs.list \in Seq(Record)
      /\ Within(recs.list, s.list)
  BY <1>1, SyncFields DEF FilesInv, Loaded
<1>5. /\ Sound(marks) /\ Sound(s.marks) /\ Sound(recs.list) /\ Sound(s.list)
      /\ AllStamped(recs.list) /\ AllStamped(s.list)
      /\ \A q : DOMAIN q = {} => Sound(q) /\ AllStamped(q)
      /\ \A q, x : Sound(q) => Near(q, x)
  BY ListsSound
<1> HIDE DEF p
<1>6. /\ Near(f.list, p) /\ AllStamped(f.list)
      /\ Near(Append(s.list, r), p) /\ AllStamped(Append(s.list, r))
  BY <1>3, <1>4, <1>5, Past, NearLonger
<1>7. Near(recs'.list, p) /\ AllStamped(recs'.list) /\ Near(marks', p)
  BY <1>1, <1>3, <1>5, <1>6, FewerSound
<1>8. CASE pc' = "idle" /\ s' = NoSync
  <2>1. /\ Near(s'.marks, p) /\ Near(s'.list, p) /\ AllStamped(s'.list)
        /\ s'.minted \subseteq s.minted \cup {now + 1}
    BY <1>5, <1>8, NoSyncIs
  <2>2. Stamped'
    BY <1>1, <1>7, <2>1, NextStamped
  <2>3. Placed'
    BY <1>8, NoSyncIs DEF Placed
  <2>4. Loaded'
    BY <1>3, <1>8, <2>3 DEF Loaded, Placed, Early
  <2> QED BY <1>1, <2>2, <2>4 DEF FilesInv
<1>9. CASE pc' = "apply"
  <2>1. PICK m \in Mark : m.ts = now + 1 /\ m.pos = p /\ s'.marks = Append(s.marks, m)
    BY <1>2, <1>9
  <2>2. /\ s'.list = Append(s.list, r) /\ s'.incoming = s.incoming
        /\ s'.minted = s.minted \cup {now + 1}
    BY <1>2, <1>9
  <2>3. Near(s'.marks, p)
    BY <1>4, <1>5, <2>1, Past, NearLonger
  <2>4. Stamped'
    BY <1>1, <1>6, <1>7, <2>2, <2>3, NextStamped
  <2>5. Placed'
    BY <1>1, <1>4, <2>2, KinItself, StillPlaced
  <2>6. Within(f.list, s'.list)
    <3>1. Longer(s'.list, s.list, r) /\ Longer(f.list, recs.list, r)
      BY <1>3, <1>4, <2>2, AppendFile
    <3>2. /\ \A k \in DOMAIN s.list : k \in DOMAIN s'.list /\ s'.list[k] = s.list[k]
          /\ \E k \in DOMAIN s'.list : s'.list[k] = r
          /\ \A n \in DOMAIN f.list : (n \in DOMAIN recs.list /\ f.list[n] = recs.list[n]) \/ f.list[n] = r
      BY <3>1, Zenon DEF Longer
    <3>3. ASSUME NEW n \in DOMAIN f.list PROVE \E k \in DOMAIN s'.list : s'.list[k] = f.list[n]
      <4>1. CASE f.list[n] = r
        BY <3>2, <4>1
      <4>2. CASE n \in DOMAIN recs.list /\ f.list[n] = recs.list[n]
        <5>1. PICK k \in DOMAIN s.list : s.list[k] = recs.list[n]
          BY <1>4, <4>2, Zenon DEF Within
        <5> QED BY <3>2, <4>2, <5>1
      <4> QED BY <3>2, <4>1, <4>2
    <3> QED BY <3>3, Zenon DEF Within
  <2>7. Within(recs'.list, s'.list)
    BY <1>3, <2>6, WithinStill DEF Fewer
  <2>8. Loaded'
    BY <1>3, <1>9, <2>5, <2>7 DEF Loaded, Placed, Early
  <2> QED BY <1>1, <2>4, <2>8 DEF FilesInv
<1> QED
  BY <1>2, <1>8, <1>9

\* Save writes what the sync has made of the bookmarks.
LEMMA SaveSound ==
  ASSUME FilesInv, Save
  PROVE  FilesInv'
<1>1. /\ pc = "apply" /\ pc' = "cover" /\ UNCHANGED <<recs, now, server, s, removed, lost>>
      /\ marks' = s.marks \/ marks' = marks \/ DOMAIN marks' = {}
      /\ Typed'
  BY SaveDoes DEF FilesInv
<1>2. Sound(marks) /\ Sound(s.marks) /\ \A q : DOMAIN q = {} => Sound(q)
  BY ListsSound
<1> QED
  BY <1>1, <1>2, KinItself, SameFile, ApplySound DEF Late

\* Cover moves the watermark, or leaves fewer records.
LEMMA CoverSound ==
  ASSUME FilesInv, Cover
  PROVE  FilesInv'
<1>1. /\ pc = "cover" /\ UNCHANGED <<marks, now, server, removed>>
      /\ OnlyMarked
      /\ \/ pc' = "idle" /\ s' = NoSync
         \/ pc' = "ack" /\ s' = s
      /\ Typed'
  BY CoverDoes
<1>2. Sound(marks) /\ Sound(s.marks)
  BY ListsSound
<1>3. Fewer(recs'.list, recs.list) /\ (~recs'.here => DOMAIN recs'.list = {})
  BY <1>1 DEF OnlyMarked
<1> QED
  BY <1>1, <1>2, <1>3, KinItself, ApplySound DEF Late

\* The server keeps its bookmarks when it is told of some.
LEMMA AckSound ==
  ASSUME FilesInv, Ack
  PROVE  FilesInv'
<1>1. /\ pc = "ack" /\ pc' = "idle" /\ s' = NoSync /\ UNCHANGED <<marks, recs, now, removed, lost>>
      /\ server' = server \/ server' = Acknowledged(s.acks, s.dels)
      /\ Typed'
  BY AckDoes DEF FilesInv
<1>2. Sound(marks) /\ Typed
  BY ListsSound DEF FilesInv
<1>3. Kin(server')
  <2>1. CASE server' = server
    BY <2>1, KinItself
  <2>2. CASE server' = Acknowledged(s.acks, s.dels)
    <3>1. /\ DOMAIN server' = DOMAIN server
          /\ \A i \in DOMAIN server : server'[i].pos = server[i].pos
      BY <1>2, <2>2, SyncFields, AcknowledgedIs
    <3> QED BY <3>1 DEF Kin
  <2> QED BY <1>1, <2>1, <2>2
<1> QED
  BY <1>1, <1>2, <1>3, SameFile, ApplySound DEF Late

\* A reader's edit, between syncs.
LEMMA EditSound ==
  ASSUME FilesInv, pc = "idle", UNCHANGED <<recs, server, pc, s>>, Typed', now <= now',
         Sound(marks') \/ (now' = now + 1 /\ \E p : Near(marks', p))
  PROVE  FilesInv'
<1>1. /\ Loaded /\ s'.minted \subseteq s.minted /\ recs' = recs /\ s' = s /\ server' = server
  BY DEF FilesInv
<1>2. /\ Sound(s.marks) /\ Sound(recs.list) /\ Sound(s.list) /\ AllStamped(recs.list) /\ AllStamped(s.list)
      /\ \A q, p : Sound(q) => Near(q, p)
  BY ListsSound
<1>3. Stamped'
  <2>1. CASE Sound(marks')
    BY <1>1, <1>2, <2>1, StillStamped
  <2>2. CASE now' = now + 1 /\ \E p : Near(marks', p)
    <3>1. PICK p : Near(marks', p)
      BY <2>2
    <3>2. Near(s'.marks, p) /\ Near(recs'.list, p) /\ Near(s'.list, p)
      BY <1>1, <1>2
    <3> QED BY <1>1, <1>2, <2>2, <3>1, <3>2, NextStamped
  <2> QED BY <2>1, <2>2
<1>4. Placed'
  BY <1>1, KinItself, StillPlaced
<1>5. Loaded'
  BY <1>1, <1>4 DEF Loaded, Placed, Early, Late
<1> QED
  BY <1>3, <1>5 DEF FilesInv

\* A new bookmark has a second of its own.
LEMMA StarSound ==
  ASSUME FilesInv, NEW p \in Places, NEW settled \in BOOLEAN, Star(p, settled)
  PROVE  FilesInv'
<1>1. /\ pc = "idle" /\ UNCHANGED <<recs, server, pc, s, removed, lost>> /\ now' = now + 1
      /\ \/ \E m \in Mark : m.ts = now + 1 /\ m.pos = p /\ marks' = Append(marks, m)
         \/ marks' = marks
         \/ DOMAIN marks' = {} /\ "torn" \in Faults
      /\ Typed'
  BY StarDoes
<1>2. Sound(marks) /\ \A q : DOMAIN q = {} => Sound(q)
  BY ListsSound
<1>3. Typed /\ Stamped /\ marks \in Seq(Mark) /\ now <= now'
  BY <1>1 DEF FilesInv, Typed
<1>4. Sound(marks') \/ \E x : Near(marks', x)
  <2>1. CASE \E m \in Mark : m.ts = now + 1 /\ m.pos = p /\ marks' = Append(marks, m)
    <3>1. PICK m \in Mark : m.ts = now + 1 /\ m.pos = p /\ marks' = Append(marks, m)
      BY <2>1
    <3>2. Near(Append(marks, m), m.pos)
      BY <1>2, <1>3, <3>1, Past, NearLonger
    <3> QED BY <3>1, <3>2
  <2> QED BY <1>1, <1>2, <2>1
<1> QED
  BY <1>1, <1>3, <1>4, EditSound

\* Removing one removes it alone.
LEMMA UnstarSound ==
  ASSUME FilesInv, NEW i \in DOMAIN marks, Unstar(i)
  PROVE  FilesInv'
<1> DEFINE others == DOMAIN marks \ {i}
           left == Picked(marks, others)
<1>1. /\ pc = "idle" /\ UNCHANGED <<recs, server, pc, s>> /\ now' = now + 1
      /\ marks' = left \/ DOMAIN marks' = {}
      /\ Typed'
  BY UnstarDoes
<1>2. Sound(marks) /\ \A q : DOMAIN q = {} => Sound(q)
  BY ListsSound
<1>3. marks \in Seq(Mark) /\ now <= now'
  BY <1>1 DEF FilesInv, Typed
<1>4. Shorter(left, marks, others)
  BY <1>3, PickedFile
<1> HIDE DEF left, others
<1>5. Sound(left)
  BY <1>2, <1>3, <1>4, SoundShorter
<1> QED
  BY <1>1, <1>2, <1>3, <1>5, EditSound

\* A bookmark settled has the timestamp it had, or the next.
LEMMA SettleSound ==
  ASSUME FilesInv, NEW i \in DOMAIN marks, Settle(i)
  PROVE  FilesInv'
<1>1. /\ pc = "idle" /\ UNCHANGED <<recs, server, pc, s, removed, lost>> /\ now' = now + 1
      /\ Settles(marks', i) \/ DOMAIN marks' = {}
      /\ Typed'
  BY SettleDoes
<1>2. Sound(marks) /\ \A q : DOMAIN q = {} => Sound(q)
  BY ListsSound
<1>3. /\ marks \in Seq(Mark) /\ now <= now' /\ now \in Nat /\ Typed /\ Stamped
      /\ \A j \in DOMAIN marks : marks[j].ts \in Nat /\ marks[j].ts <= now
  BY <1>1, Past DEF FilesInv, Typed
<1>4. ASSUME Settles(marks', i) PROVE Near(marks', marks[i].pos)
  <2> DEFINE p == marks[i].pos
             q == marks'
  <2>1. /\ DOMAIN q = DOMAIN marks
        /\ \A j \in DOMAIN marks : j # i => q[j] = marks[j]
        /\ q[i].pos = p
        /\ q[i].ts = IF marks[i].ts = 0 THEN now + 1 ELSE marks[i].ts
    BY <1>4 DEF Settles
  <2> HIDE DEF q
  <2>2. ASSUME NEW j \in DOMAIN q, q[j].ts # 0 PROVE <<q[j].ts, q[j].pos>> \in Stamps \cup {<<now + 1, p>>}
    <3>0. PlacesOf(marks) \subseteq Stamps
      BY <1>2 DEF Sound
    <3>1. CASE j # i
      BY <2>1, <2>2, <3>0, <3>1, StampOf
    <3>2. CASE j = i /\ marks[i].ts = 0
      BY <2>1, <3>2
    <3>3. CASE j = i /\ marks[i].ts # 0
      BY <2>1, <3>0, <3>3, StampOf
    <3> QED BY <3>1, <3>2, <3>3
  <2>3. PlacesOf(q) \subseteq Stamps \cup {<<now + 1, p>>}
    BY <2>2 DEF PlacesOf
  <2>4. OneEach(q)
    <3>1. OneEach(marks) /\ \A j \in DOMAIN marks : marks[j].ts # now + 1
      BY <1>2, <1>3 DEF Sound
    <3> SUFFICES ASSUME NEW j \in DOMAIN q, NEW k \in DOMAIN q, q[j].ts # 0, q[k].ts = q[j].ts
                 PROVE  j = k
      BY DEF OneEach
    <3>2. CASE j # i /\ k # i
      BY <2>1, <3>1, <3>2, Zenon DEF OneEach
    <3>3. CASE (j = i \/ k = i) /\ marks[i].ts = 0
      BY <2>1, <3>1, <3>3
    <3>4. CASE (j = i \/ k = i) /\ marks[i].ts # 0
      <4>1. marks[j].ts = marks[k].ts /\ marks[j].ts # 0
        BY <2>1, <3>4
      <4> QED BY <2>1, <3>1, <4>1, Zenon DEF OneEach
    <3> QED BY <3>2, <3>3, <3>4
  <2> QED BY <2>3, <2>4 DEF Near, q
<1> QED
  BY <1>1, <1>2, <1>3, <1>4, EditSound

\* Clearing the cache leaves no bookmarks.
LEMMA ClearCacheSound ==
  ASSUME FilesInv, ClearCache
  PROVE  FilesInv'
<1>1. /\ pc = "idle" /\ UNCHANGED <<recs, now, server, pc, s, removed, lost>>
      /\ DOMAIN marks' = {} /\ Typed'
  BY ClearCacheDoes DEF FilesInv
<1>2. Sound(marks') /\ now <= now'
  BY <1>1, ListsSound DEF FilesInv, Typed
<1> QED
  BY <1>1, <1>2, EditSound

\* What the web page does leaves the device's files.
LEMMA WebSound ==
  ASSUME FilesInv, UNCHANGED <<marks, recs, now, pc, s>>, Kin(server'), Typed'
  PROVE  FilesInv'
<1>1. /\ Loaded /\ s'.minted \subseteq s.minted /\ now <= now'
      /\ marks' = marks /\ recs' = recs /\ s' = s /\ pc' = pc
  BY DEF FilesInv, Typed
<1>2. /\ Sound(marks) /\ Sound(s.marks) /\ Sound(recs.list) /\ Sound(s.list)
      /\ AllStamped(recs.list) /\ AllStamped(s.list)
  BY ListsSound
<1>3. Stamped'
  BY <1>1, <1>2, StillStamped
<1>4. Placed'
  BY <1>1, StillPlaced
<1>5. Loaded'
  BY <1>1, <1>4 DEF Loaded, Placed, Early, Late
<1> QED
  BY <1>3, <1>5 DEF FilesInv

\* A bookmark made on the web comes after the others.
LEMMA WebAddSound ==
  ASSUME FilesInv, NEW p \in Places, WebAdd(p)
  PROVE  FilesInv'
<1>1. /\ UNCHANGED <<marks, recs, now, pc, s>> /\ Typed'
      /\ \A i \in DOMAIN server : i \in DOMAIN server' /\ server'[i] = server[i]
  BY WebAddDoes DEF FilesInv
<1>2. Kin(server')
  BY <1>1 DEF Kin
<1> QED
  BY <1>1, <1>2, WebSound

\* One deleted there stays in its place.
LEMMA WebDeleteSound ==
  ASSUME FilesInv, NEW i \in DOMAIN server, WebDelete(i)
  PROVE  FilesInv'
<1>1. /\ UNCHANGED <<marks, recs, now, pc, s>> /\ Typed'
      /\ DOMAIN server' = DOMAIN server
      /\ \A j \in DOMAIN server : server'[j].pos = server[j].pos
  BY WebDeleteDoes DEF FilesInv
<1>2. Kin(server')
  BY <1>1 DEF Kin
<1> QED
  BY <1>1, <1>2, WebSound

\* A power cut ends the sync and leaves the files.
LEMMA PowerCutSound ==
  ASSUME FilesInv, PowerCut
  PROVE  FilesInv'
<1>1. pc' = "idle" /\ s' = NoSync /\ UNCHANGED <<marks, recs, now, server, removed, lost>> /\ Typed'
  BY PowerCutDoes DEF FilesInv
<1>2. /\ Typed /\ Loaded /\ now <= now'
      /\ ~recs.here => DOMAIN recs.list = {}
  BY <1>1 DEF FilesInv, Typed, Loaded
<1>3. /\ Sound(marks) /\ Sound(recs.list) /\ AllStamped(recs.list)
      /\ \A q : DOMAIN q = {} => Sound(q) /\ AllStamped(q)
  BY ListsSound
<1>4. /\ Sound(s'.marks) /\ Sound(s'.list) /\ AllStamped(s'.list) /\ s'.minted \subseteq s.minted
  BY <1>1, <1>3, NoSyncIs
<1>5. Stamped'
  BY <1>1, <1>2, <1>3, <1>4, StillStamped
<1>6. Placed'
  BY <1>1, <1>2, KinItself, NoSyncIs, StillPlaced
<1>7. Loaded'
  BY <1>1, <1>2, <1>6 DEF Loaded, Placed, Early, Late
<1> QED
  BY <1>1, <1>5, <1>7 DEF FilesInv

\* Every step, and none.
LEMMA NextSound ==
  ASSUME FilesInv, [Next]_vars
  PROVE  FilesInv'
<1>1. CASE UNCHANGED vars
  <2>1. /\ marks' = marks /\ recs' = recs /\ now' = now /\ server' = server /\ pc' = pc /\ s' = s
        /\ faults' = faults /\ edits' = edits /\ removed' = removed /\ lost' = lost
    BY <1>1 DEF vars
  <2>2. Typed'
    BY <2>1 DEF FilesInv, Typed
  <2> QED BY <2>1, <2>2, KinItself, WebSound
<1>2. CASE SyncStep
  BY <1>2, BeginSound, MintSound, RetainSound, ExchangeSound, PullSound, AdvanceSound, ApplyDeleteSound,
     ApplyAnswerSound, ApplyAddSound, SaveSound, CoverSound, AckSound DEF SyncStep, Apply
<1>3. CASE Reader
  <2>1. CASE \E p \in Places \ Unplaceable, settled \in {TRUE, ~LateMarks} : Star(p, settled)
    <3>1. PICK p \in Places, settled \in BOOLEAN : Star(p, settled)
      BY <2>1, ConstantsAssumption
    <3> QED BY <3>1, StarSound
  <2>2. CASE \E i \in DOMAIN marks : Unstar(i)
    BY <2>2, UnstarSound
  <2>3. CASE \E i \in DOMAIN marks : Settle(i)
    BY <2>3, SettleSound
  <2> QED BY <1>3, <2>1, <2>2, <2>3 DEF Reader
<1>4. CASE Web
  BY <1>4, WebAddSound, WebDeleteSound DEF Web
<1> QED
  BY <1>1, <1>2, <1>3, <1>4, PowerCutSound, ClearCacheSound DEF Next

\* Whatever is lost, cut short or written half: the files stay sound.
LEMMA FilesAlwaysSound == Spec => []FilesInv
<1>1. Init => FilesInv
  BY InitSound
<1>2. FilesInv /\ [Next]_vars => FilesInv'
  BY NextSound
<1> QED
  BY <1>1, <1>2, PTL DEF Spec

\* Under every fault, the bookmark file never holds more than its capacity nor two
\* bookmarks of one timestamp, and every variable keeps its type (BookmarkStore.h,
\* uniqueTimestamp and save; BookOrbitBookmarkStore.cpp, put).
THEOREM TypesAlwaysHold == Spec => []TypeOK
<1>1. FilesInv => TypeOK
  BY SyncFields DEF FilesInv, Typed, Stamped, OneEach, TypeOK
<1> QED
  BY <1>1, FilesAlwaysSound, PTL

-----------------------------------------------------------------------------
(* What the watermark covers the server knows.                             *)

\* The server keeps the bookmarks it has, and the keys it has.
Keeps(next) ==
  \A i \in DOMAIN server :
    /\ i \in DOMAIN next /\ next[i].pos = server[i].pos
    /\ next[i].key = server[i].key \/ server[i].key = NoKey

\* And so what it knows.
LEMMA StillKnown ==
  ASSUME NEW next, Keeps(next), NEW r \in Record, Knows(server, r)
  PROVE  Knows(next, r)
<1>1. KeyOf(r) # NoKey
  BY KeyFacts
<1> QED
  BY <1>1, Zenon DEF Keeps, Knows

\* Of the lists, only records are asked about.
LEMMA RecordsListed ==
  ASSUME Typed
  PROVE  /\ \A n \in DOMAIN recs.list : recs.list[n] \in Record
         /\ \A n \in DOMAIN s.list : s.list[n] \in Record
BY SyncFields, ElementOfSeq

\* A step that writes no other record, and none it works on.
LEMMA CoveredStays ==
  ASSUME FilesInv, Covered, Keeps(server'),
         Within(recs'.list, recs.list),
         recs'.watermark = recs.watermark \/ recs'.watermark = 0,
         \/ pc' = "idle"
         \/ /\ s'.list = s.list /\ s'.minted = s.minted
            /\ pc' \in {"mint", "exchange"} => s'.watermark = s.watermark
            /\ \/ pc' = pc
               \/ pc \in {"pull", "advance"} /\ pc' \in {"pull", "advance"}
               \/ pc \in Late /\ pc' \in Late
  PROVE  Covered'
<1>1. /\ \A n \in DOMAIN recs.list : Knows(server, recs.list[n]) => Knows(server', recs.list[n])
      /\ \A n \in DOMAIN s.list : Knows(server, s.list[n]) => Knows(server', s.list[n])
  BY RecordsListed, StillKnown DEF FilesInv
<1>2. ASSUME NEW n \in DOMAIN recs'.list, recs'.list[n].id <= recs'.watermark
      PROVE  Knows(server', recs'.list[n])
  <2>1. PICK k \in DOMAIN recs.list : recs.list[k] = recs'.list[n]
    BY Zenon DEF Within
  <2>2. recs.list[k].id \in Nat /\ recs.watermark \in Nat
    BY RecordsListed, SyncFields, FieldTypes DEF FilesInv
  <2>3. recs.list[k].id <= recs.watermark
    BY <1>2, <2>1, <2>2
  <2> QED BY <1>1, <2>1, <2>3 DEF Covered
<1>3. pc' \in {"pull", "advance"} => \A n \in DOMAIN s'.list : Knows(server', s'.list[n])
  BY <1>1 DEF Covered, Late
<1>4. pc' \in Late =>
        \A n \in DOMAIN s'.list : s'.list[n].ts \in s'.minted => Knows(server', s'.list[n])
  BY <1>1 DEF Covered, Late
<1>5. pc' \in {"mint", "exchange"} =>
        \A n \in DOMAIN s'.list : s'.list[n].id <= s'.watermark => Knows(server', s'.list[n])
  BY <1>1 DEF Covered, Late
<1> QED
  BY <1>2, <1>3, <1>4, <1>5 DEF Covered, Late

\* A step that leaves the file.
LEMMA CoveredLeft ==
  ASSUME FilesInv, Covered, Keeps(server'), recs' = recs,
         \/ pc' = "idle"
         \/ /\ s'.list = s.list /\ s'.minted = s.minted
            /\ pc' \in {"mint", "exchange"} => s'.watermark = s.watermark
            /\ \/ pc' = pc
               \/ pc \in {"pull", "advance"} /\ pc' \in {"pull", "advance"}
               \/ pc \in Late /\ pc' \in Late
  PROVE  Covered'
<1>1. Within(recs'.list, recs.list)
  BY DEF Within
<1> QED
  BY <1>1, CoveredStays

\* A server left alone keeps its bookmarks; so does one that answers, or is told.
LEMMA ServerKeeps ==
  ASSUME Typed
  PROVE  /\ Keeps(server) /\ Keeps(Answer)
         /\ \A next : SameBookmarks(next) => Keeps(next)
         /\ Keeps(Acknowledged(s.acks, s.dels))
<1>1. Keeps(server)
  BY DEF Keeps
<1>2. Keeps(Answer)
  <2> DEFINE keys == {KeyOf(s.list[n]) : n \in DOMAIN s.list}
  <2>1. Outgoing \in Seq(Record) /\ KeysComplete \in BOOLEAN
    BY OutgoingAre, SyncFields DEF KeysComplete
  <2>2. AfterRequest(Answer, Outgoing, keys, KeysComplete)
    BY <2>1, ReceivedIs, Zenon DEF Answer
  <2>3. \A i \in DOMAIN server : Linked(Outgoing, i) # {} => server[i].key = NoKey
    BY <2>1, LinkedAre
  <2> QED BY <2>2, <2>3, Zenon DEF AfterRequest, Keeps
<1>3. ASSUME NEW next, SameBookmarks(next) PROVE Keeps(next)
  BY <1>3, Zenon DEF SameBookmarks, Keeps
<1>4. Keeps(Acknowledged(s.acks, s.dels))
  <2> DEFINE next == Acknowledged(s.acks, s.dels)
  <2>1. /\ DOMAIN next = DOMAIN server
        /\ \A i \in DOMAIN server :
             /\ next[i].pos = server[i].pos
             /\ next[i].key = server[i].key \/ server[i].key = NoKey
    BY SyncFields, AcknowledgedIs, SMTT(30)
  <2> HIDE DEF next
  <2>2. Keeps(next)
    BY <2>1 DEF Keeps
  <2> QED BY <2>2 DEF next
<1> QED
  BY <1>1, <1>2, <1>3, <1>4

\* What goes out, the server knows when it answers.
LEMMA SentIsKnown ==
  ASSUME Typed, NEW k \in DOMAIN Outgoing
  PROVE  Knows(Answer, Outgoing[k])
<1> DEFINE q == Outgoing
           keys == {KeyOf(s.list[n]) : n \in DOMAIN s.list}
           same == {m \in DOMAIN q : KeyOf(q[m]) = KeyOf(q[k])}
           m == Min(same)
<1>1. q \in Seq(Record) /\ KeysComplete \in BOOLEAN /\ q[k] \in Record
  BY OutgoingAre, SyncFields, ElementOfSeq DEF KeysComplete
<1>2. AfterRequest(Answer, q, keys, KeysComplete)
  BY <1>1, ReceivedIs, Zenon DEF Answer
<1>3. CASE \E i \in DOMAIN server : server[i].key = KeyOf(q[k])
  <2>1. Knows(server, q[k])
    BY <1>3 DEF Knows
  <2> QED BY <1>1, <2>1, ServerKeeps, StillKnown
<1>4. CASE \A i \in DOMAIN server : server[i].key # KeyOf(q[k])
  <2>1. same # {} /\ same \in SUBSET (DOMAIN q)
    OBVIOUS
  <2> HIDE DEF q
  <2>2. m \in same /\ \A n \in same : m <= n /\ n \in Nat
    BY <1>1, <2>1, FirstOf
  <2>3. m \in DOMAIN q /\ KeyOf(q[m]) = KeyOf(q[k]) /\ m \in Nat
    BY <2>2
  <2>4. \A n \in 1 .. m - 1 : KeyOf(q[n]) # KeyOf(q[m])
    <3> SUFFICES ASSUME NEW n \in 1 .. m - 1, KeyOf(q[n]) = KeyOf(q[m]) PROVE FALSE
      OBVIOUS
    <3>1. n \in DOMAIN q
      BY <1>1, <2>3, LenProperties
    <3>2. n \in same
      BY <2>3, <3>1
    <3> QED BY <2>2, <2>3, <3>2
  <2>5. m \in News(q)
    BY <1>4, <2>3, <2>4 DEF News
  <2> HIDE DEF m, same
  <2>6. CASE m \in Unlinked(q)
    <3>1. \E j \in DOMAIN Answer : Answer[j].key = KeyOf(q[m])
      BY <1>2, <2>6, Zenon DEF AfterRequest
    <3> QED BY <2>3, <3>1 DEF Knows, q
  <2>7. CASE m \notin Unlinked(q)
    <3>1. PICK i \in DOMAIN server : Linked(q, i) # {} /\ m = Min(Linked(q, i))
      BY <2>5, <2>7 DEF Unlinked
    <3>2. i \in DOMAIN Answer /\ Answer[i].key = KeyOf(q[m])
      BY <1>2, <3>1, Zenon DEF AfterRequest
    <3> QED BY <2>3, <3>2 DEF Knows, q
  <2> QED BY <2>6, <2>7
<1> QED
  BY <1>3, <1>4

\* What the files hold is covered when it is loaded.
LEMMA BeginCovered ==
  ASSUME FilesInv, Covered, Begin
  PROVE  Covered'
<1>1. /\ pc' = "mint" /\ recs' = recs /\ server' = server
      /\ s'.list = recs.list /\ s'.watermark = recs.watermark
  BY BeginDoes DEF FilesInv
<1> QED
  BY <1>1 DEF Covered, Late

\* A record minted is above the watermark.
LEMMA MintCovered ==
  ASSUME FilesInv, Covered, Mint
  PROVE  Covered'
<1>1. pc = "mint" /\ server' = server /\ pc \in Early
  BY MintDoes DEF Early
<1>2. PICK r, f :
        /\ Mints(r) /\ Puts(f, r) /\ Remnant(recs', f)
        /\ \/ pc' = "idle" /\ s' = NoSync
           \/ /\ pc' = "mint" /\ s'.watermark = s.watermark
              /\ s'.list = s.list \/ s'.list = Append(s.list, r)
  BY MintDoes, Zenon
<1>3. /\ Typed /\ s.list \in Seq(Record) /\ recs.list \in Seq(Record)
      /\ recs.watermark <= s.watermark /\ recs.watermark \in Nat /\ s.watermark \in Nat
  BY <1>1, EarlyIs
<1>4. /\ r \in Record /\ r.id \in Nat /\ r.id > s.watermark
      /\ f.list = Append(recs.list, r) /\ f.watermark = recs.watermark
      /\ Within(recs'.list, f.list)
      /\ recs'.watermark = recs.watermark \/ recs'.watermark = 0
  BY <1>2, FieldTypes, Zenon DEF Mints, Puts, Remnant, Fewer
<1>5. Longer(f.list, recs.list, r)
  BY <1>3, <1>4, AppendFile
<1>6. ASSUME NEW n \in DOMAIN recs'.list, recs'.list[n].id <= recs'.watermark
      PROVE  Knows(server', recs'.list[n])
  <2>1. PICK k \in DOMAIN f.list : f.list[k] = recs'.list[n]
    BY <1>4, Zenon DEF Within
  <2>2. f.list[k] # r
    BY <1>3, <1>4, <1>6, <2>1
  <2>3. k \in DOMAIN recs.list /\ f.list[k] = recs.list[k]
    BY <1>5, <2>2, Zenon DEF Longer
  <2>4. recs.list[k].id \in Nat
    BY <1>3, <2>3, RecordsListed, FieldTypes
  <2>5. recs.list[k].id <= recs.watermark
    BY <1>3, <1>4, <1>6, <2>1, <2>3, <2>4
  <2> QED BY <1>1, <2>1, <2>3, <2>5 DEF Covered
<1>7. ASSUME pc' = "mint", NEW n \in DOMAIN s'.list, s'.list[n].id <= s'.watermark
      PROVE  Knows(server', s'.list[n])
  <2>1. (n \in DOMAIN s.list /\ s'.list[n] = s.list[n]) \/ s'.list[n] = r
    <3>1. CASE s'.list = s.list
      BY <1>7, <3>1
    <3>2. CASE s'.list = Append(s.list, r)
      <4>1. Longer(s'.list, s.list, r)
        BY <1>3, <1>4, <3>2, AppendFile
      <4> QED BY <1>7, <4>1, Zenon DEF Longer
    <3> QED BY <1>2, <1>7, <3>1, <3>2
  <2>2. s'.watermark = s.watermark
    BY <1>2, <1>7
  <2>3. s'.list[n] # r
    BY <1>3, <1>4, <1>7, <2>2
  <2> QED BY <1>1, <1>7, <2>1, <2>2, <2>3 DEF Covered
<1> QED
  BY <1>2, <1>6, <1>7 DEF Covered, Late

\* Retain leaves some of the records.
LEMMA RetainCovered ==
  ASSUME FilesInv, Covered, Retain
  PROVE  Covered'
<1>1. /\ pc = "mint" /\ server' = server /\ Fewer(recs'.list, recs.list)
      /\ recs'.watermark = recs.watermark \/ recs'.watermark = 0
      /\ \/ pc' = "idle"
         \/ /\ pc' = "exchange" /\ s'.watermark = s.watermark
            /\ s'.list = s.list \/ s'.list = Kept(s.list)
  BY RetainDoes
<1>2. Keeps(server') /\ Within(recs'.list, recs.list)
  BY <1>1, ServerKeeps DEF FilesInv, Fewer
<1>3. CASE pc' = "idle"
  BY <1>1, <1>2, <1>3, CoveredStays
<1>4. CASE pc' = "exchange"
  <2>1. ASSUME NEW n \in DOMAIN recs'.list, recs'.list[n].id <= recs'.watermark
        PROVE  Knows(server', recs'.list[n])
    <3>1. PICK k \in DOMAIN recs.list : recs.list[k] = recs'.list[n]
      BY <1>2, Zenon DEF Within
    <3>2. recs.list[k].id \in Nat /\ recs.watermark \in Nat
      BY RecordsListed, SyncFields, FieldTypes DEF FilesInv
    <3>3. recs.list[k].id <= recs.watermark
      BY <1>1, <2>1, <3>1, <3>2
    <3> QED BY <1>1, <3>1, <3>3 DEF Covered
  <2>2. ASSUME NEW n \in DOMAIN s'.list PROVE \E k \in DOMAIN s.list : s'.list[n] = s.list[k]
    <3> DEFINE in == {k \in DOMAIN s.list : s.list[k].ts \in SyncTimes(s.marks)}
               kept == Picked(s.list, in)
    <3>1. s.list \in Seq(Record)
      BY SyncFields DEF FilesInv
    <3>2. Shorter(kept, s.list, in)
      BY <3>1, PickedFile
    <3>3. s'.list = s.list \/ s'.list = kept
      BY <1>1, <1>4 DEF Kept
    <3> HIDE DEF kept
    <3>4. \A k \in DOMAIN kept : \E i \in DOMAIN s.list : kept[k] = s.list[i]
      BY <3>2, Zenon DEF Shorter
    <3> QED BY <2>2, <3>3, <3>4
  <2>3. ASSUME NEW n \in DOMAIN s'.list, s'.list[n].id <= s'.watermark
        PROVE  Knows(server', s'.list[n])
    BY <1>1, <1>4, <2>2, <2>3 DEF Covered
  <2> QED BY <1>4, <2>1, <2>3 DEF Covered, Late
<1> QED
  BY <1>1, <1>3, <1>4

\* After an exchange the server knows every record, covered or just sent.
LEMMA ExchangeCovered ==
  ASSUME FilesInv, Covered, OneBatch, Exchange
  PROVE  Covered'
<1>1. /\ pc = "exchange" /\ recs' = recs
      /\ server' = server \/ server' = Answer
      /\ \/ pc' = "idle"
         \/ /\ pc' = "pull" /\ s'.list = s.list /\ server' = Answer
  BY ExchangeDoes DEF FilesInv
<1>2. Typed /\ Within(recs.list, s.list) /\ Len(s.list) <= Batch
  BY <1>1 DEF FilesInv, Loaded, OneBatch
<1>3. Keeps(server')
  BY <1>1, <1>2, ServerKeeps
<1>4. CASE pc' = "idle"
  BY <1>1, <1>3, <1>4, CoveredLeft
<1>5. CASE pc' = "pull"
  <2>1. \A n \in DOMAIN s.list : Knows(server', s.list[n])
    <3> SUFFICES ASSUME NEW n \in DOMAIN s.list PROVE Knows(server', s.list[n])
      OBVIOUS
    <3>1. s.list[n] \in Record /\ s.list[n].id \in Nat /\ s.watermark \in Nat
      BY <1>2, RecordsListed, SyncFields, FieldTypes
    <3>2. CASE s.list[n].id <= s.watermark
      <4>1. Knows(server, s.list[n])
        BY <1>1, <3>2 DEF Covered
      <4> QED BY <1>3, <3>1, <4>1, StillKnown
    <3>3. CASE s.list[n].id > s.watermark
      <4>1. PICK k \in DOMAIN Outgoing : Outgoing[k] = s.list[n]
        BY <1>2, <3>3, OutgoingAre
      <4> QED BY <1>1, <1>2, <1>5, <4>1, SentIsKnown
    <3> QED BY <3>1, <3>2, <3>3
  <2>2. \A n \in DOMAIN recs'.list : Knows(server', recs'.list[n])
    BY <1>1, <1>2, <2>1, Zenon DEF Within
  <2> QED BY <1>1, <1>5, <2>1, <2>2 DEF Covered, Late
<1> QED
  BY <1>1, <1>4, <1>5

\* The watermark moves when the server knows all of them.
LEMMA AdvanceCovered ==
  ASSUME FilesInv, Covered, Advance
  PROVE  Covered'
<1>1. /\ pc \in {"pull", "advance"} /\ server' = server /\ OnlyMarked
      /\ pc' = "idle" \/ (pc' = "apply" /\ s'.minted = s.minted)
  BY AdvanceDoes
<1>2. Within(recs.list, s.list) /\ s.minted = {}
  <2>1. pc \in Early
    BY <1>1 DEF Early
  <2> QED BY <2>1, EarlyIs
<1>3. Within(recs'.list, s.list)
  BY <1>1, <1>2, WithinStill DEF OnlyMarked, Fewer
<1>4. \A n \in DOMAIN recs'.list : Knows(server', recs'.list[n])
  <2>1. \A n \in DOMAIN s.list : Knows(server, s.list[n])
    BY <1>1 DEF Covered
  <2> QED BY <1>1, <1>3, <2>1, Zenon DEF Within
<1> QED
  BY <1>1, <1>2, <1>4 DEF Covered, Late

\* A bookmark added is of a place the server has one at.
LEMMA ApplyAddCovered ==
  ASSUME FilesInv, Covered, ApplyAdd
  PROVE  Covered'
<1>1. pc = "apply" /\ server' = server /\ s.next \in DOMAIN s.incoming
  BY ApplyAddDoes
<1>2. PICK r, a, f :
        /\ Adds(r, a) /\ Puts(f, r) /\ Remnant(recs', f)
        /\ \/ pc' = "idle"
           \/ pc' = "apply" /\ s'.list = Append(s.list, r) /\ s'.minted = s.minted \cup {now + 1}
  BY ApplyAddDoes, Zenon
<1>3. /\ Typed /\ Stamped /\ recs.list \in Seq(Record) /\ s.list \in Seq(Record) /\ now \in Nat
      /\ TheChange.item \in DOMAIN server /\ server[TheChange.item].pos = TheChange.pos
      /\ recs.watermark \in Nat
  BY <1>1, SyncFields DEF FilesInv, Typed, Loaded, TheChange
<1>4. /\ r \in Record /\ r.ts = now + 1 /\ r.pos = TheChange.pos
      /\ f.list = Append(recs.list, r) /\ Within(recs'.list, f.list)
      /\ recs'.watermark = recs.watermark \/ recs'.watermark = 0
  BY <1>2, Zenon DEF Adds, Puts, Remnant, Fewer
<1>5. Knows(server, r)
  BY <1>3, <1>4 DEF Knows
<1>6. ASSUME NEW n \in DOMAIN recs'.list, recs'.list[n].id <= recs'.watermark
      PROVE  Knows(server', recs'.list[n])
  <2>1. PICK k \in DOMAIN f.list : f.list[k] = recs'.list[n]
    BY <1>4, Zenon DEF Within
  <2>2. CASE f.list[k] = r
    BY <1>1, <1>5, <2>1, <2>2
  <2>3. CASE f.list[k] # r
    <3>1. Longer(f.list, recs.list, r)
      BY <1>3, <1>4, AppendFile
    <3>2. k \in DOMAIN recs.list /\ f.list[k] = recs.list[k]
      BY <2>3, <3>1, Zenon DEF Longer
    <3>3. recs.list[k].id \in Nat
      BY <1>3, <3>2, RecordsListed, FieldTypes
    <3>4. recs.list[k].id <= recs.watermark
      BY <1>3, <1>4, <1>6, <2>1, <3>2, <3>3
    <3> QED BY <1>1, <2>1, <3>2, <3>4 DEF Covered
  <2> QED BY <2>2, <2>3
<1>7. ASSUME pc' = "apply", NEW n \in DOMAIN s'.list, s'.list[n].ts \in s'.minted
      PROVE  Knows(server', s'.list[n])
  <2>1. Longer(s'.list, s.list, r) /\ s'.minted = s.minted \cup {now + 1}
    BY <1>2, <1>3, <1>4, <1>7, AppendFile
  <2>2. CASE s'.list[n] = r
    BY <1>1, <1>5, <2>2
  <2>3. CASE s'.list[n] # r
    <3>1. n \in DOMAIN s.list /\ s'.list[n] = s.list[n]
      BY <1>7, <2>1, <2>3, Zenon DEF Longer
    <3>2. s.list[n].ts \in Nat /\ s.list[n].ts <= now
      BY <1>3, <3>1, Past
    <3>3. s.list[n].ts \in s.minted
      BY <1>3, <1>7, <2>1, <3>1, <3>2
    <3> QED BY <1>1, <3>1, <3>3 DEF Covered, Late
  <2> QED BY <2>2, <2>3
<1> QED
  BY <1>2, <1>6, <1>7 DEF Covered, Late

\* Cover moves the watermark only when what is above it was minted here.
LEMMA CoverCovered ==
  ASSUME FilesInv, Covered, Cover
  PROVE  Covered'
<1>1. /\ pc = "cover" /\ server' = server /\ OnlyMarked
      /\ recs'.watermark = recs.watermark \/ recs'.watermark = 0 \/ ~LocalStillPending
      /\ pc' = "idle" \/ (pc' = "ack" /\ s' = s)
  BY CoverDoes
<1>2. Typed /\ Within(recs.list, s.list)
  BY <1>1 DEF FilesInv, Loaded
<1>3. Within(recs'.list, recs.list)
  BY <1>1 DEF OnlyMarked, Fewer
<1>4. CASE recs'.watermark = recs.watermark \/ recs'.watermark = 0
  BY <1>1, <1>2, <1>3, <1>4, ServerKeeps, CoveredStays DEF Late
<1>5. CASE ~LocalStillPending
  <2>1. \A n \in DOMAIN recs.list : Knows(server, recs.list[n])
    <3> SUFFICES ASSUME NEW n \in DOMAIN recs.list PROVE Knows(server, recs.list[n])
      OBVIOUS
    <3>1. PICK k \in DOMAIN s.list : s.list[k] = recs.list[n]
      BY <1>2, Zenon DEF Within
    <3>2. recs.list[n].id \in Nat /\ recs.watermark \in Nat
      BY <1>2, RecordsListed, SyncFields, FieldTypes
    <3>3. CASE recs.list[n].id <= recs.watermark
      BY <3>3 DEF Covered
    <3>4. CASE recs.list[n].id > recs.watermark
      <4>1. s.list[k].ts \in s.minted
        BY <1>5, <3>1, <3>4 DEF LocalStillPending
      <4> QED BY <1>1, <3>1, <4>1 DEF Covered, Late
    <3> QED BY <3>2, <3>3, <3>4
  <2>2. \A n \in DOMAIN recs'.list : Knows(server', recs'.list[n])
    BY <1>1, <1>3, <2>1, Zenon DEF Within
  <2> QED BY <1>1, <2>2 DEF Covered, Late
<1> QED
  BY <1>1, <1>4, <1>5

\* Every step, and none.
LEMMA NextCovered ==
  ASSUME FilesInv, Covered, OneBatch, [Next]_vars
  PROVE  Covered'
<1> Typed
  BY DEF FilesInv
<1>1. CASE UNCHANGED vars
  <2>1. recs' = recs /\ server' = server /\ pc' = pc /\ s' = s
    BY <1>1 DEF vars
  <2> QED BY <2>1, ServerKeeps, CoveredLeft
<1>2. CASE Begin
  BY <1>2, BeginCovered
<1>3. CASE Pull
  <2>1. /\ pc = "pull" /\ recs' = recs /\ SameBookmarks(server') /\ pc' \in {"pull", "advance"}
        /\ s'.list = s.list /\ s'.minted = s.minted /\ s'.watermark = s.watermark
    BY <1>3, PullDoes
  <2> QED BY <2>1, ServerKeeps, CoveredLeft
<1>4. CASE ApplyDelete \/ ApplyDuplicate \/ ApplyUnplaceable \/ ApplyLater
  <2>1. /\ pc = "apply" /\ pc' = "apply" /\ recs' = recs /\ server' = server
        /\ s'.list = s.list /\ s'.minted = s.minted
    BY <1>4, ApplyDeleteDoes, ApplyAnswerDoes, ApplyLaterDoes
  <2> QED BY <2>1, ServerKeeps, CoveredLeft
<1>5. CASE Save
  BY <1>5, SaveDoes, ServerKeeps, CoveredLeft DEF Late
<1>6. CASE Ack
  BY <1>6, AckDoes, ServerKeeps, CoveredLeft
<1>7. CASE SyncStep
  BY <1>2, <1>3, <1>4, <1>5, <1>6, <1>7, MintCovered, RetainCovered, ExchangeCovered, AdvanceCovered,
     ApplyAddCovered, CoverCovered DEF SyncStep, Apply
<1>8. CASE Reader
  <2>1. CASE \E p \in Places \ Unplaceable, settled \in {TRUE, ~LateMarks} : Star(p, settled)
    <3>1. PICK p \in Places, settled \in BOOLEAN : Star(p, settled)
      BY <2>1, ConstantsAssumption
    <3> QED BY <3>1, StarDoes, ServerKeeps, CoveredLeft
  <2>2. CASE \E i \in DOMAIN marks : Unstar(i)
    BY <2>2, UnstarDoes, ServerKeeps, CoveredLeft
  <2>3. CASE \E i \in DOMAIN marks : Settle(i)
    BY <2>3, SettleDoes, ServerKeeps, CoveredLeft
  <2> QED BY <1>8, <2>1, <2>2, <2>3 DEF Reader
<1>9. CASE Web
  <2>1. recs' = recs /\ pc' = pc /\ s' = s /\ Keeps(server')
    <3>1. ASSUME NEW p \in Places, WebAdd(p) PROVE recs' = recs /\ pc' = pc /\ s' = s /\ Keeps(server')
      BY <3>1, WebAddDoes DEF Keeps
    <3>2. ASSUME NEW i \in DOMAIN server, WebDelete(i)
          PROVE  recs' = recs /\ pc' = pc /\ s' = s /\ Keeps(server')
      BY <3>2, WebDeleteDoes DEF Keeps
    <3> QED BY <1>9, <3>1, <3>2 DEF Web
  <2> QED BY <2>1, CoveredLeft
<1>10. CASE PowerCut \/ ClearCache
  BY <1>10, PowerCutDoes, ClearCacheDoes, ServerKeeps, CoveredLeft
<1> QED
  BY <1>1, <1>7, <1>8, <1>9, <1>10 DEF Next

\* Whatever fails, while no sync has more to send than a batch carries: a record the
\* watermark covers, and so is never sent again, the server knows by its key or by a
\* bookmark of its place (syncBookmarks, BookOrbitSyncExtras.cpp).  With more than a
\* batch the watermark can pass records that were never sent.
THEOREM CoveredIsAlwaysKnown == Spec /\ []OneBatch => []CoveredIsKnown
<1>1. Init => Covered
  <2> SUFFICES ASSUME Init PROVE Covered
    OBVIOUS
  <2>1. DOMAIN recs.list = {} /\ pc = "idle"
    BY EmptySeq DEF Init, NoRecordFile
  <2> QED BY <2>1 DEF Covered, Late
<1>2. FilesInv /\ Covered /\ OneBatch /\ [Next]_vars => Covered'
  BY NextCovered
<1>3. Covered => CoveredIsKnown
  BY DEF Covered, Knows, CoveredIsKnown
<1> QED
  BY <1>1, <1>2, <1>3, FilesAlwaysSound, PTL DEF Spec

-----------------------------------------------------------------------------
(* Records kept are of bookmarks that are here.                            *)

\* While retain does not fail, and a sync works on the whole record file.
LEMMA NextRetained ==
  ASSUME FilesInv, Retained, "retain" \notin Faults, "short" \notin Faults, [Next]_vars
  PROVE  Retained'
<1>1. Typed /\ (pc = "idle" => s = NoSync)
  BY DEF FilesInv, Loaded
<1>2. CASE ~(pc' \in Early \ {"mint"})
  BY <1>2 DEF Retained
<1>3. CASE Retain
  <2> DEFINE kept == Kept(recs.list)
             in == {n \in DOMAIN recs.list : recs.list[n].ts \in SyncTimes(s.marks)}
  <2>1. /\ pc' = "idle" \/ (pc' = "exchange" /\ s'.marks = s.marks)
        /\ pc' = "idle" \/ s'.list = (IF recs.here THEN Kept(s.list) ELSE s.list)
    BY <1>3, RetainDoes
  <2>2. s.list = recs.list /\ (~recs.here => DOMAIN recs.list = {})
    BY <1>3, EarlyIs, RetainDoes DEF Early
  <2>3. Shorter(kept, recs.list, in)
    BY <1>1, KeptIs
  <2> HIDE DEF kept
  <2>4. \A k \in DOMAIN kept : \E n \in in : kept[k] = recs.list[n]
    BY <2>3, Zenon DEF Shorter
  <2>5. \A k \in DOMAIN kept : kept[k].ts \in SyncTimes(s.marks)
    BY <2>4
  <2>6. \A k \in DOMAIN kept : Here(kept[k], s.marks)
    BY <2>5 DEF SyncTimes, Syncable, Here
  <2>7. CASE pc' = "idle"
    BY <1>2, <2>7 DEF Early
  <2>8. CASE pc' = "exchange" /\ s'.marks = s.marks
    <3>1. CASE recs.here
      <4>1. s'.list = kept
        BY <2>1, <2>2, <2>8, <3>1 DEF kept
      <4> QED BY <2>6, <2>8, <4>1 DEF Retained
    <3>2. CASE ~recs.here
      <4>1. DOMAIN s'.list = {}
        BY <2>1, <2>2, <2>8, <3>2
      <4> QED BY <4>1 DEF Retained
    <3> QED BY <3>1, <3>2
  <2> QED BY <2>1, <2>7, <2>8
<1>4. CASE pc' \in Early \ {"mint"} /\ pc \in Early \ {"mint"} /\ s'.list = s.list /\ s'.marks = s.marks
  BY <1>4 DEF Retained
<1>5. CASE UNCHANGED vars
  <2>1. pc' = pc /\ s' = s
    BY <1>5 DEF vars
  <2> QED BY <2>1 DEF Retained
<1>6. CASE Begin
  BY <1>1, <1>2, <1>6, BeginDoes DEF Early
<1>7. CASE Mint
  BY <1>2, <1>7, MintDoes DEF Early
<1>8. CASE Exchange
  BY <1>1, <1>2, <1>4, <1>8, ExchangeDoes DEF Early
<1>9. CASE Pull
  BY <1>1, <1>2, <1>4, <1>9, PullDoes DEF Early
<1>10. CASE Advance
  BY <1>1, <1>2, <1>10, AdvanceDoes DEF Early
<1>11. CASE Apply
  <2>1. pc' = "apply" \/ pc' = "idle"
    BY <1>1, <1>11, ApplyDeleteDoes, ApplyAnswerDoes, ApplyAddDoes, ApplyLaterDoes DEF Apply
  <2> QED BY <1>2, <2>1 DEF Early
<1>12. CASE Save \/ Cover \/ Ack
  <2>1. pc' \in {"idle", "cover", "ack"}
    BY <1>1, <1>12, SaveDoes, CoverDoes, AckDoes DEF FilesInv
  <2> QED BY <1>2, <2>1 DEF Early
<1>13. CASE Reader \/ PowerCut \/ ClearCache
  <2>1. CASE \E p \in Places \ Unplaceable, settled \in {TRUE, ~LateMarks} : Star(p, settled)
    <3>1. PICK p \in Places, settled \in BOOLEAN : Star(p, settled)
      BY <2>1, ConstantsAssumption
    <3> QED BY <1>2, <3>1, StarDoes DEF Early
  <2>2. CASE (\E i \in DOMAIN marks : Unstar(i)) \/ (\E i \in DOMAIN marks : Settle(i)) \/ PowerCut \/ ClearCache
    <3>1. pc' = "idle"
      BY <1>1, <2>2, UnstarDoes, SettleDoes, PowerCutDoes, ClearCacheDoes
    <3> QED BY <1>2, <3>1 DEF Early
  <2> QED BY <1>13, <2>1, <2>2 DEF Reader
<1>14. CASE Web
  <2>1. pc' = pc /\ s' = s
    BY <1>1, <1>14, WebAddDoes, WebDeleteDoes DEF Web
  <2> QED BY <2>1 DEF Retained
<1> QED
  BY <1>3, <1>5, <1>6, <1>7, <1>8, <1>9, <1>10, <1>11, <1>12, <1>13, <1>14 DEF Next, SyncStep

-----------------------------------------------------------------------------
(* Bookmarks waiting on the server.                                        *)

\* The first record of a place.
LEMMA FirstIs ==
  ASSUME Typed, NEW p, At(p) # {}
  PROVE  /\ Min(At(p)) \in At(p) /\ Min(At(p)) \in DOMAIN s.list
         /\ First(p) = s.list[Min(At(p))] /\ First(p) \in Record /\ First(p).pos = p
         /\ \A n \in At(p) : Min(At(p)) <= n /\ n \in Nat
<1>1. s.list \in Seq(Record) /\ At(p) \in SUBSET (DOMAIN s.list)
  BY SyncFields DEF At
<1>2. Min(At(p)) \in At(p) /\ \A n \in At(p) : Min(At(p)) <= n /\ n \in Nat
  BY <1>1, FirstOf
<1>3. Min(At(p)) \in DOMAIN s.list /\ s.list[Min(At(p))].pos = p
  BY <1>2 DEF At
<1>4. s.list[Min(At(p))] \in Record
  BY <1>1, <1>3, ElementOfSeq
<1> QED
  BY <1>2, <1>3, <1>4 DEF First

\* The places' records are those of the list.
LEMMA AtSame ==
  ASSUME s'.list = s.list
  PROVE  \A p : At(p)' = At(p) /\ First(p)' = First(p)
BY DEF At, First

\* A server left alone has the same bookmarks.
LEMMA SameItself ==
  ASSUME Typed
  PROVE  SameBookmarks(server)
BY DEF Typed, SameBookmarks

\* The same bookmarks wait as before.
LEMMA StillWaiting ==
  ASSUME Waiting, SameBookmarks(server')
  PROVE  Waiting'
<1>1. \A i \in DOMAIN server : Alone(i) => Alone(i)'
  BY DEF SameBookmarks, Alone
<1> QED
  BY <1>1 DEF Waiting, SameBookmarks

\* Without additions where a deletion is owed, a new one is alone at its place.
LEMMA WebAddWaiting ==
  ASSUME Typed, Waiting, ~ReAdds, NEW p \in Places, WebAdd(p)
  PROVE  Waiting'
<1>1. /\ \A i \in DOMAIN server :
           server[i].pos = p => server[i].state # "live" /\ server[i].state # "webDeleted"
      /\ \A i \in DOMAIN server : i \in DOMAIN server' /\ server'[i] = server[i]
      /\ \A j \in DOMAIN server' :
           j \notin DOMAIN server =>
             /\ server'[j].pos = p /\ server'[j].key = NoKey /\ server'[j].state = "live"
             /\ j = Len(server')
  BY WebAddDoes
<1>2. ASSUME NEW i \in DOMAIN server, Alone(i), server[i].state = "live"
      PROVE  Alone(i)'
  BY <1>1, <1>2 DEF Alone
<1>3. ASSUME NEW i \in DOMAIN server', i \notin DOMAIN server
      PROVE  Alone(i)'
  BY <1>1, <1>3 DEF Alone
<1> QED
  BY <1>1, <1>2, <1>3 DEF Waiting

\* A parked one that is deleted has no key.
LEMMA WebDeleteWaiting ==
  ASSUME Typed, Waiting, NEW i \in DOMAIN server, WebDelete(i)
  PROVE  /\ Waiting'
         /\ \A k \in DOMAIN server : k # i /\ Alone(k) => Alone(k)'
<1>1. /\ server[i].state \in {"live", "parked"} /\ DOMAIN server' = DOMAIN server
      /\ \A j \in DOMAIN server :
           /\ server'[j].pos = server[j].pos /\ server'[j].key = server[j].key
           /\ j # i => server'[j].state = server[j].state
      /\ server'[i].state = "webDeleted"
  BY WebDeleteDoes
<1>2. ASSUME NEW k \in DOMAIN server, k # i, Alone(k) PROVE Alone(k)'
  <2>1. server[i].pos = server[k].pos => server[i].key = NoKey
    BY <1>1, <1>2 DEF Alone, Waiting
  <2> QED BY <1>1, <1>2, <2>1 DEF Alone
<1>3. Waiting'
  BY <1>1, <1>2 DEF Waiting
<1> QED
  BY <1>2, <1>3

\* A record sent to a place where one waits is linked to that one.
LEMMA AnswerWaiting ==
  ASSUME Typed, Waiting, server' = Answer
  PROVE  Waiting'
<1> DEFINE q == Outgoing
           keys == {KeyOf(s.list[n]) : n \in DOMAIN s.list}
<1>1. q \in Seq(Record) /\ KeysComplete \in BOOLEAN
  BY OutgoingAre, SyncFields DEF KeysComplete
<1>2. AfterRequest(server', q, keys, KeysComplete)
  BY <1>1, ReceivedIs, Zenon DEF Answer
<1>3. \A n \in DOMAIN q : KeyOf(q[n]) # NoKey /\ KeyOf(q[n])[2] = q[n].pos
  BY <1>1, ElementOfSeq, KeyFacts
<1>4. \A i \in DOMAIN server :
        /\ \A n \in Linked(q, i) : n \in DOMAIN q /\ q[n].pos = server[i].pos
        /\ Linked(q, i) # {} => /\ server[i].state = "live" /\ server[i].key = NoKey
                                /\ Min(Linked(q, i)) \in Linked(q, i)
  BY <1>1, LinkedAre
<1>5. \A n \in Unlinked(q) : n \in News(q) /\ n \in DOMAIN q
  BY DEF Unlinked, News
<1> HIDE DEF q, keys
<1>6. \A i \in DOMAIN server :
        /\ i \in DOMAIN server' /\ server'[i].pos = server[i].pos
        /\ server'[i].state = server[i].state \/ server'[i].state = "deviceDeleted"
        /\ server'[i].state = "live" => server[i].state = "live"
  BY <1>2, Zenon DEF AfterRequest
<1>7. \A i \in DOMAIN server :
        \/ server'[i].key = server[i].key /\ Linked(q, i) = {}
        \/ /\ server[i].state = "live" /\ server[i].key = NoKey
           /\ server'[i].key # NoKey /\ server'[i].key[2] = server[i].pos
  <2> SUFFICES ASSUME NEW i \in DOMAIN server, Linked(q, i) # {}
               PROVE  /\ server[i].state = "live" /\ server[i].key = NoKey
                      /\ server'[i].key # NoKey /\ server'[i].key[2] = server[i].pos
    BY <1>2, Zenon DEF AfterRequest
  <2>1. server'[i].key = KeyOf(q[Min(Linked(q, i))])
    BY <1>2, Zenon DEF AfterRequest
  <2> QED BY <1>3, <1>4, <2>1
<1>8. \A j \in DOMAIN server' :
        j \notin DOMAIN server =>
          /\ server'[j].state = "live" /\ server'[j].key # NoKey /\ server'[j].key[2] = server'[j].pos
          /\ \E n \in News(q) : q[n].pos = server'[j].pos /\ n \in Unlinked(q)
  <2> SUFFICES ASSUME NEW j \in DOMAIN server', j \notin DOMAIN server
               PROVE  /\ server'[j].state = "live" /\ server'[j].key # NoKey
                      /\ server'[j].key[2] = server'[j].pos
                      /\ \E n \in News(q) : q[n].pos = server'[j].pos /\ n \in Unlinked(q)
    OBVIOUS
  <2>1. PICK n \in Unlinked(q) : /\ server'[j].pos = q[n].pos /\ server'[j].key = KeyOf(q[n])
                                 /\ server'[j].state = "live"
    BY <1>2, Zenon DEF AfterRequest
  <2> QED BY <1>3, <1>5, <2>1
<1>9. ASSUME NEW i \in DOMAIN server', server'[i].state = "live", server'[i].key = NoKey
      PROVE  Alone(i)'
  <2>1. i \in DOMAIN server /\ server[i].state = "live" /\ server[i].key = NoKey /\ Linked(q, i) = {}
    BY <1>6, <1>7, <1>8, <1>9
  <2>2. Alone(i)
    BY <2>1 DEF Waiting
  <2>3. ASSUME NEW n \in News(q) PROVE q[n].pos # server[i].pos
    BY <2>1 DEF Linked
  <2> SUFFICES ASSUME NEW j \in DOMAIN server', j # i, server'[j].pos = server'[i].pos
               PROVE  /\ server'[j].state # "live"
                      /\ server'[j].state = "webDeleted" => server'[j].key = NoKey
    BY DEF Alone
  <2>4. j \in DOMAIN server
    BY <1>6, <1>8, <2>1, <2>3
  <2>5. /\ server[j].state # "live"
        /\ server[j].state = "webDeleted" => server[j].key = NoKey
    BY <1>6, <2>1, <2>2, <2>4 DEF Alone
  <2> QED BY <1>6, <1>7, <2>4, <2>5
<1>10. ASSUME NEW i \in DOMAIN server' 
       PROVE  /\ server'[i].key # NoKey => server'[i].key[2] = server'[i].pos
              /\ server'[i].state = "parked" => server'[i].key = NoKey
  <2>1. CASE i \in DOMAIN server
    BY <1>6, <1>7, <2>1 DEF Waiting
  <2>2. CASE i \notin DOMAIN server
    BY <1>8, <2>2
  <2> QED BY <2>1, <2>2
<1> QED
  BY <1>9, <1>10 DEF Waiting

-----------------------------------------------------------------------------
(* Changes taken and answered.                                             *)

\* What is acknowledged as applied has its record; what failed has none.
LEMMA AckedIs ==
  ASSUME FilesInv, Taken, Acked, NEW a \in s.acks
  PROVE  \E c \in Change :
           /\ Added(c) /\ c.item = a.item /\ server[a.item].pos = c.pos
           /\ a.failed => At(c.pos) = {}
           /\ ~a.failed => At(c.pos) # {} /\ a.key = KeyOf(First(c.pos))
<1>1. PICK n \in DOMAIN s.incoming : Answered(a, s.incoming[n])
  BY DEF Acked
<1> DEFINE c == s.incoming[n]
<1>2. c \in Change /\ server[c.item].pos = c.pos
  BY SyncFields, ElementOfSeq DEF FilesInv, Loaded
<1>3. Added(c)
  BY <1>1 DEF Taken, Answered
<1> QED
  BY <1>1, <1>2, <1>3 DEF Answered

\* What an acknowledgment does: a key is given to a bookmark that is alone.
TellsApart(next) ==
  /\ DOMAIN next = DOMAIN server
  /\ \A i \in DOMAIN server :
       /\ next[i].pos = server[i].pos
       /\ \/ i \in s.dels /\ next[i].state = "gone"
          \/ next[i].state = "parked" /\ \E a \in s.acks : a.item = i /\ a.failed
          \/ next[i].state = server[i].state
       /\ next[i].key # server[i].key =>
            /\ server[i].key = NoKey /\ Alone(i) /\ next[i].key[2] = server[i].pos
            /\ server[i].state \in {"live", "webDeleted"}
            /\ \A a \in s.acks : a.item = i => ~a.failed
            /\ \E n \in DOMAIN s.list : next[i].key = KeyOf(s.list[n])
                                        /\ (pc = "ack" => Here(s.list[n], marks))

\* That is what it does.
LEMMA ToldIs ==
  ASSUME FilesInv, Taken, Acked, server' = Acknowledged(s.acks, s.dels)
  PROVE  TellsApart(server')
<1> Typed
  BY DEF FilesInv
<1>1. /\ DOMAIN server' = DOMAIN server
      /\ \A i \in DOMAIN server :
           /\ server'[i].pos = server[i].pos
           /\ \/ i \in s.dels /\ server'[i].state = "gone"
              \/ server'[i].state = "parked" /\ \E a \in s.acks : a.item = i /\ a.failed
              \/ server'[i].state = server[i].state
           /\ \/ server'[i].key = server[i].key
              \/ /\ server[i].key = NoKey
                 /\ \E a \in s.acks : a.item = i /\ ~a.failed /\ server'[i].key = a.key
  <2> DEFINE next == server'
  <2>1. s.acks \in SUBSET AckRecord /\ next = Acknowledged(s.acks, s.dels)
    BY SyncFields
  <2> HIDE DEF next
  <2>2. /\ next \in Seq(Item) /\ DOMAIN next = DOMAIN server
        /\ \A i \in DOMAIN server :
             /\ next[i].pos = server[i].pos
             /\ \/ i \in s.dels /\ next[i].state = "gone"
                \/ /\ next[i].state = "parked" /\ i \notin s.dels
                   /\ \E a \in s.acks : a.item = i /\ a.failed
                \/ next[i].state = server[i].state /\ i \notin s.dels
             /\ \/ next[i].key = server[i].key
                \/ /\ server[i].key = NoKey
                   /\ \E a \in s.acks : a.item = i /\ ~a.failed /\ next[i].key = a.key
    BY <2>1, AcknowledgedIs
  <2> QED BY <2>2, Zenon DEF next
<1>2. ASSUME NEW i \in DOMAIN server, server'[i].key # server[i].key
      PROVE  /\ server[i].key = NoKey /\ Alone(i) /\ server'[i].key[2] = server[i].pos
             /\ server[i].state \in {"live", "webDeleted"}
             /\ \A a \in s.acks : a.item = i => ~a.failed
             /\ \E n \in DOMAIN s.list : server'[i].key = KeyOf(s.list[n])
                                         /\ (pc = "ack" => Here(s.list[n], marks))
  <2>1. PICK a \in s.acks : a.item = i /\ ~a.failed /\ server'[i].key = a.key
    BY <1>1, <1>2
  <2>2. PICK c \in Change : /\ Added(c) /\ c.item = a.item /\ server[a.item].pos = c.pos
                            /\ ~a.failed => At(c.pos) # {} /\ a.key = KeyOf(First(c.pos))
    BY AckedIs
  <2>3. server'[i].key[2] = server[i].pos
    BY <2>1, <2>2, FirstIs, KeyFacts
  <2>4. server[i].key = NoKey /\ Alone(i) /\ server[i].state \in {"live", "webDeleted"}
    BY <1>1, <1>2, <2>1, <2>2 DEF Added
  <2>5. ASSUME NEW b \in s.acks, b.item = i, b.failed PROVE FALSE
    <3>1. PICK d \in Change : /\ server[b.item].pos = d.pos
                              /\ b.failed => At(d.pos) = {}
      BY AckedIs
    <3> QED BY <2>1, <2>2, <2>5, <3>1
  <2>6. Min(At(c.pos)) \in DOMAIN s.list /\ First(c.pos) = s.list[Min(At(c.pos))]
    BY <2>1, <2>2, FirstIs
  <2>7. pc = "ack" => Here(First(c.pos), marks)
    BY <2>1, <2>2 DEF Added, Acked, Late
  <2>8. \E n \in DOMAIN s.list : server'[i].key = KeyOf(s.list[n])
                                 /\ (pc = "ack" => Here(s.list[n], marks))
    BY <2>1, <2>2, <2>6, <2>7
  <2> QED BY <2>3, <2>4, <2>5, <2>8
<1> QED
  BY <1>1, <1>2 DEF TellsApart

\* An acknowledgment leaves no two bookmarks waiting at one place.
LEMMA ToldWaiting ==
  ASSUME FilesInv, Waiting, Taken, Acked, server' = Acknowledged(s.acks, s.dels)
  PROVE  Waiting'
<1>1. /\ DOMAIN server' = DOMAIN server
      /\ \A i \in DOMAIN server :
           /\ server'[i].pos = server[i].pos
           /\ \/ i \in s.dels /\ server'[i].state = "gone"
              \/ server'[i].state = "parked" /\ \E a \in s.acks : a.item = i /\ a.failed
              \/ server'[i].state = server[i].state
  BY ToldIs, Zenon DEF TellsApart
<1>2. ASSUME NEW i \in DOMAIN server, server'[i].key # server[i].key
      PROVE  /\ server[i].key = NoKey /\ Alone(i) /\ server'[i].key[2] = server[i].pos
             /\ server[i].state \in {"live", "webDeleted"}
             /\ \A a \in s.acks : a.item = i => ~a.failed
  BY <1>2, ToldIs, Zenon DEF TellsApart
<1>3. ASSUME NEW i \in DOMAIN server, NEW a \in s.acks, a.item = i, a.failed
      PROVE  server[i].key = NoKey
  <2>1. PICK c \in Change : /\ Added(c) /\ c.item = a.item /\ (a.failed => At(c.pos) = {})
    BY AckedIs
  <2> QED BY <1>3, <2>1 DEF Added
<1>4. ASSUME NEW i \in DOMAIN server, server'[i].state = "live", server'[i].key = NoKey
      PROVE  Alone(i)'
  <2>1. server[i].state = "live" /\ server[i].key = NoKey
    BY <1>1, <1>2, <1>4
  <2>2. Alone(i)
    BY <2>1 DEF Waiting
  <2> SUFFICES ASSUME NEW j \in DOMAIN server, j # i, server[j].pos = server[i].pos
               PROVE  /\ server'[j].state # "live"
                      /\ server'[j].state = "webDeleted" => server'[j].key = NoKey
    BY <1>1 DEF Alone
  <2>3. server[j].state # "live" /\ (server[j].state = "webDeleted" => server[j].key = NoKey)
    BY <2>2 DEF Alone
  <2>4. server'[j].key = server[j].key
    <3> SUFFICES ASSUME server'[j].key # server[j].key PROVE FALSE
      OBVIOUS
    <3>1. Alone(j)
      BY <1>2
    <3> QED BY <2>1, <3>1 DEF Alone
  <2> QED BY <1>1, <2>3, <2>4
<1>5. ASSUME NEW i \in DOMAIN server
      PROVE  /\ server'[i].key # NoKey => server'[i].key[2] = server'[i].pos
             /\ server'[i].state = "parked" => server'[i].key = NoKey
  <2>1. CASE server'[i].key = server[i].key
    BY <1>1, <1>3, <2>1 DEF Waiting
  <2>2. CASE server'[i].key # server[i].key
    BY <1>1, <1>2, <2>2
  <2> QED BY <2>1, <2>2
<1> QED
  BY <1>1, <1>4, <1>5 DEF Waiting

\* A bookmark that waits, and is offered, is taken as it is.
LEMMA PendingAdded ==
  ASSUME Waiting, NEW c, ~(pc \in Late), c.item \in DOMAIN server, server[c.item].state = "live",
         server[c.item].key = NoKey
  PROVE  Added(c)
BY DEF Waiting, Added

\* A place of the batch sent: linked to the one that waits there.
LEMMA LinkedFirst ==
  ASSUME Typed, NEW i \in DOMAIN server, NEW m, Linked(Outgoing, i) # {},
         m = Min(Linked(Outgoing, i)),
         NEW n \in Unlinked(Outgoing), Outgoing[n].pos = server[i].pos
  PROVE  /\ At(server[i].pos) # {}
         /\ KeyOf(Outgoing[n]) # KeyOf(First(server[i].pos))
<1> DEFINE q == Outgoing
           p == server[i].pos
           x == Min(At(p))
<1>1. q \in Seq(Record)
  BY OutgoingAre
<1>2. PICK g : Sends(g)
  BY OutgoingAre
<1>3. /\ \A k \in DOMAIN q : g[k] \in DOMAIN s.list /\ q[k] = s.list[g[k]] /\ g[k] \in Nat /\ k \in Nat
      /\ \A j, k \in DOMAIN q : j < k => g[j] < g[k]
      /\ \A k \in DOMAIN q, h \in DOMAIN s.list :
           h <= g[k] /\ s.list[h].id > s.watermark => \E j \in DOMAIN q : j <= k /\ g[j] = h
      /\ \A k \in DOMAIN q : q[k].id > s.watermark
  BY <1>2, OutgoingAre DEF Sends
<1>4. /\ m \in DOMAIN q /\ q[m].pos = p /\ m \in Linked(q, i)
      /\ server[i].state = "live" /\ server[i].key = NoKey
      /\ \A k \in Linked(q, i) : m <= k
  BY <1>1, LinkedAre
<1>5. n \in News(q) /\ n \in DOMAIN q /\ n # m /\ n \in Linked(q, i)
  BY <1>4 DEF Unlinked, News, Linked
<1> HIDE DEF q
<1>6. m < n
  <2>1. m \in Nat /\ n \in Nat
    BY <1>3, <1>4, <1>5
  <2>2. m <= n /\ m # n
    BY <1>4, <1>5
  <2> QED BY <2>1, <2>2
<1>7. g[m] \in At(p) /\ g[n] \in At(p)
  BY <1>3, <1>4, <1>5 DEF At, q
<1>8. /\ x \in DOMAIN s.list /\ First(p) = s.list[x] /\ First(p) \in Record
      /\ \A k \in At(p) : x <= k
  BY <1>7, FirstIs
<1> HIDE DEF x, p
<1>9. ASSUME KeyOf(q[n]) = KeyOf(First(p)) PROVE FALSE
  <2>1. s.list[x].id = q[n].id
    BY <1>8, <1>9 DEF KeyOf
  <2>2. x <= g[n] /\ s.list[x].id > s.watermark
    BY <1>3, <1>5, <1>7, <1>8, <2>1
  <2>3. PICK k \in DOMAIN q : k <= n /\ g[k] = x
    BY <1>3, <1>5, <1>8, <2>2
  <2>4. KeyOf(q[k]) = KeyOf(q[n])
    BY <1>3, <1>8, <1>9, <2>3
  <2>5. k = n
    <3>1. \A j \in 1 .. n - 1 : KeyOf(q[j]) # KeyOf(q[n])
      BY <1>5 DEF News
    <3>2. k \in Nat /\ n \in Nat /\ k \in 1 .. Len(q)
      BY <1>1, <1>3, <1>5, LenProperties
    <3>3. ~(k < n)
      BY <2>4, <3>1, <3>2
    <3> QED BY <2>3, <3>2, <3>3
  <2>6. g[m] < x
    BY <1>3, <1>4, <1>5, <1>6, <2>3, <2>5
  <2> QED BY <1>3, <1>4, <1>7, <1>8, <2>3, <2>6
<1> QED
  BY <1>7, <1>9 DEF q, p

\* A sync that has taken nothing owes no answer.
LEMMA NothingTaken ==
  ASSUME DOMAIN s'.incoming = {}, s'.acks = {}, pc' \notin {"cover", "ack"}
  PROVE  Taken' /\ Acked'
BY DEF Taken, Acked

\* Changes each accounted for.
LEMMA AllTaken ==
  ASSUME \A n \in DOMAIN s'.incoming :
           \E c \in Change : /\ c = s'.incoming[n]
                             /\ c.deleted => Deleted(c)'
                             /\ ~c.deleted => Added(c)',
         \A m, n \in DOMAIN s'.incoming :
           s'.incoming[m].deleted # s'.incoming[n].deleted => s'.incoming[m].item # s'.incoming[n].item
  PROVE  Taken'
<1>1. ASSUME NEW n \in DOMAIN s'.incoming
      PROVE  (IF s.incoming[n].deleted THEN Deleted(s.incoming[n]) ELSE Added(s.incoming[n]))'
  <2>1. PICK c \in Change : /\ c = s'.incoming[n]
                            /\ c.deleted => Deleted(c)'
                            /\ ~c.deleted => Added(c)'
    OBVIOUS
  <2>2. CASE c.deleted
    BY <2>1, <2>2 DEF Deleted
  <2>3. CASE ~c.deleted
    BY <2>1, <2>3 DEF Added
  <2> QED BY <2>2, <2>3
<1> QED
  BY <1>1 DEF Taken

\* Of the bookmarks waiting, the server keeps those it is asked about.
LEMMA AnswerAdded ==
  ASSUME Typed, Waiting, server' = Answer, Waiting', s'.list = s.list, pc' = "pull",
         NEW c \in Change, IsOffer(c), ~c.deleted
  PROVE  Added(c)'
<1> DEFINE q == Outgoing
           keys == {KeyOf(s.list[n]) : n \in DOMAIN s.list}
           i == c.item
           m == Min(Linked(q, i))
<1>1. q \in Seq(Record) /\ KeysComplete \in BOOLEAN
  BY OutgoingAre, SyncFields DEF KeysComplete
<1>2. AfterRequest(server', q, keys, KeysComplete)
  BY <1>1, ReceivedIs, Zenon DEF Answer
<1>3. /\ i \in DOMAIN server /\ c.pos = server[i].pos /\ server[i].state = "live" /\ server[i].key = NoKey
      /\ Alone(i)
  BY DEF IsOffer, Pending, Waiting
<1> HIDE DEF q, keys, i
<1>4. /\ i \in DOMAIN server' /\ server'[i].pos = server[i].pos /\ server'[i].state = "live"
  BY <1>2, <1>3, Zenon DEF AfterRequest
<1>5. CASE Linked(q, i) = {}
  <2>1. server'[i].key = NoKey
    BY <1>2, <1>3, <1>5, Zenon DEF AfterRequest
  <2> QED BY <1>4, <2>1, PendingAdded DEF Waiting, Added, Late, i
<1>6. CASE Linked(q, i) # {}
  <2>1. /\ server'[i].key = KeyOf(q[m]) /\ m \in Linked(q, i)
    BY <1>1, <1>2, <1>3, <1>6, LinkedAre, Zenon DEF AfterRequest
  <2>2. m \in News(q) /\ m \in DOMAIN q /\ q[m].pos = c.pos /\ q[m] \in Record
    BY <1>1, <1>3, <2>1, LinkedAre, ElementOfSeq
  <2>3. At(c.pos) # {}
    <3>1. PICK g : Sends(g)
      BY OutgoingAre
    <3>2. g[m] \in DOMAIN s.list /\ q[m] = s.list[g[m]]
      BY <2>2, <3>1 DEF Sends, q
    <3> QED BY <2>2, <3>2 DEF At
  <2>4. KeyOf(First(c.pos)) # NoKey
    BY <2>3, FirstIs, KeyFacts
  <2>5. ASSUME NEW j \in DOMAIN server', j # i, server'[j].pos = c.pos,
               server'[j].state \in {"live", "webDeleted"}
        PROVE  server'[j].key # KeyOf(First(c.pos))
    <3>1. CASE j \in DOMAIN server
      <4>1. /\ server[j].pos = c.pos
            /\ server'[j].state = server[j].state
            /\ server'[j].key = server[j].key \/ server[j].state = "live"
        <5>1. Linked(q, j) # {} => server[j].state = "live"
          BY <1>1, <3>1, LinkedAre
        <5>2. server'[j].pos = server[j].pos /\ server'[j].state = server[j].state
          BY <1>2, <2>5, <3>1 DEF AfterRequest
        <5>3. Linked(q, j) = {} => server'[j].key = server[j].key
          BY <1>2, <3>1, Zenon DEF AfterRequest
        <5> QED BY <2>5, <5>1, <5>2, <5>3
      <4>2. server[j].state # "live" /\ server[j].key = NoKey
        BY <1>3, <2>5, <3>1, <4>1 DEF Alone
      <4> QED BY <2>4, <4>1, <4>2
    <3>2. CASE j \notin DOMAIN server
      <4>1. PICK n \in Unlinked(q) : /\ server'[j].pos = q[n].pos /\ server'[j].key = KeyOf(q[n])
                                     /\ server'[j].state = "live"
        BY <1>2, <3>2, Zenon DEF AfterRequest
      <4>2. KeyOf(q[n]) # KeyOf(First(c.pos))
        BY <1>3, <1>6, <2>5, <4>1, LinkedFirst DEF q
      <4> QED BY <4>1, <4>2
    <3> QED BY <3>1, <3>2
  <2>6. KeyOf(q[m]) # NoKey
    BY <2>2, KeyFacts
  <2>7. At(c.pos)' = At(c.pos) /\ First(c.pos)' = First(c.pos)
    BY AtSame
  <2> QED BY <1>4, <2>1, <2>3, <2>5, <2>6, <2>7 DEF Added, Late, i
<1> QED
  BY <1>5, <1>6

\* The first changes are taken as the server holds them.
LEMMA ExchangeTaken ==
  ASSUME FilesInv, Waiting, Waiting', Exchange
  PROVE  Taken' /\ Acked'
<1>1. /\ pc = "exchange"
      /\ \/ pc' = "idle" /\ s' = NoSync
         \/ /\ pc' = "pull" /\ s'.incoming = Collected(<<>>, Offers) /\ s'.list = s.list
            /\ s'.acks = s.acks /\ server' = Answer
  BY ExchangeDoes DEF FilesInv
<1>2. CASE s' = NoSync /\ pc' = "idle"
  BY <1>2, NoSyncIs, NothingTaken
<1>3. CASE pc' = "pull" /\ s'.incoming = Collected(<<>>, Offers) /\ s'.list = s.list
           /\ s'.acks = s.acks /\ server' = Answer
  <2>1. Typed /\ s.acks = {}
    BY <1>1 DEF FilesInv, Loaded, Early
  <2>2. \A n \in DOMAIN s'.incoming : s'.incoming[n] \in Change /\ IsOffer(s'.incoming[n])
    BY <1>3, <2>1, FirstTaken, OffersAre, ElementOfSeq
  <2>3. ASSUME NEW c \in Change, IsOffer(c), c.deleted PROVE Deleted(c)'
    <3> DEFINE q == Outgoing
               keys == {KeyOf(s.list[n]) : n \in DOMAIN s.list}
    <3>1. q \in Seq(Record) /\ KeysComplete \in BOOLEAN
      BY <2>1, OutgoingAre, SyncFields DEF KeysComplete
    <3>2. AfterRequest(server', q, keys, KeysComplete)
      BY <1>3, <2>1, <3>1, ReceivedIs, Zenon DEF Answer
    <3>3. /\ c.item \in DOMAIN server /\ c.key = server[c.item].key
          /\ server[c.item].state = "webDeleted" /\ server[c.item].key # NoKey
      BY <2>3 DEF IsOffer, PendingDelete
    <3>4. Linked(q, c.item) = {}
      BY <2>1, <3>1, <3>3, LinkedAre
    <3> HIDE DEF q, keys
    <3>5. server'[c.item].state = "webDeleted" /\ server'[c.item].key = server[c.item].key
      BY <3>2, <3>3, <3>4, Zenon DEF AfterRequest
    <3> QED BY <3>3, <3>5 DEF Deleted
  <2>4. ASSUME NEW n \in DOMAIN s'.incoming
        PROVE  \E c \in Change : /\ c = s'.incoming[n]
                                 /\ c.deleted => Deleted(c)'
                                 /\ ~c.deleted => Added(c)'
    <3>1. PICK c \in Change : c = s'.incoming[n] /\ IsOffer(c)
      BY <2>2
    <3>2. c.deleted => Deleted(c)'
      BY <2>3, <3>1
    <3>3. ~c.deleted => Added(c)'
      BY <1>3, <2>1, <3>1, AnswerAdded
    <3> QED BY <3>1, <3>2, <3>3
  <2>5. ASSUME NEW m \in DOMAIN s'.incoming, NEW n \in DOMAIN s'.incoming,
               s'.incoming[m].deleted # s'.incoming[n].deleted
        PROVE  s'.incoming[m].item # s'.incoming[n].item
    <3>1. PICK c \in Change : c = s'.incoming[m] /\ IsOffer(c)
      BY <2>2
    <3>2. PICK d \in Change : d = s'.incoming[n] /\ IsOffer(d)
      BY <2>2
    <3>3. c.deleted \in BOOLEAN /\ d.deleted \in BOOLEAN /\ c.deleted # d.deleted
      BY <2>5, <3>1, <3>2 DEF Change
    <3>4. \A x : IsOffer(x) => /\ x.deleted => server[x.item].state = "webDeleted"
                               /\ ~x.deleted => server[x.item].state = "live"
      BY DEF IsOffer, Pending, PendingDelete
    <3> QED BY <3>1, <3>2, <3>3, <3>4
  <2>6. Taken'
    BY <2>4, <2>5, AllTaken
  <2>7. Acked'
    BY <1>3, <2>1 DEF Acked
  <2> QED BY <2>6, <2>7
<1> QED
  BY <1>1, <1>2, <1>3

\* Changes already taken stand while the server's bookmarks and the records do.
LEMMA StillTaken ==
  ASSUME FilesInv, Taken, SameBookmarks(server'), s'.list = s.list, s'.incoming = s.incoming,
         pc' \in Late =>
           \A n \in DOMAIN s.incoming :
             ~s.incoming[n].deleted /\ At(s.incoming[n].pos) # {} =>
               Here(First(s.incoming[n].pos), s'.marks)
  PROVE  Taken'
<1>1. \A p : At(p)' = At(p) /\ First(p)' = First(p)
  BY AtSame
<1>2. \A i \in DOMAIN server : Alone(i) => Alone(i)'
  BY DEF SameBookmarks, Alone
<1>3. ASSUME NEW n \in DOMAIN s'.incoming
      PROVE  \E c \in Change : /\ c = s'.incoming[n]
                               /\ c.deleted => Deleted(c)'
                               /\ ~c.deleted => Added(c)'
  <2>1. PICK c \in Change : c = s.incoming[n]
    BY SyncFields, ElementOfSeq DEF FilesInv
  <2>2. c.item \in DOMAIN server
    BY <2>1 DEF FilesInv, Loaded
  <2>3. c.deleted => Deleted(c)
    BY <2>1 DEF Taken
  <2>4. ~c.deleted => Added(c)
    BY <2>1 DEF Taken
  <2>5. c.deleted => Deleted(c)'
    BY <2>2, <2>3 DEF Deleted, SameBookmarks
  <2>6. ~c.deleted => Added(c)'
    <3> SUFFICES ASSUME ~c.deleted PROVE Added(c)'
      OBVIOUS
    <3>1. /\ server'[c.item].state = server[c.item].state /\ server'[c.item].key = server[c.item].key
          /\ DOMAIN server' = DOMAIN server
      BY <2>2 DEF SameBookmarks
    <3>2. server'[c.item].key = NoKey => Alone(c.item)'
      BY <1>2, <2>2, <2>4, <3>1 DEF Added
    <3>3. server'[c.item].key # NoKey =>
            /\ At(c.pos)' # {}
            /\ \A j \in DOMAIN server' :
                 j # c.item /\ server'[j].pos = c.pos /\ server'[j].state \in {"live", "webDeleted"} =>
                   server'[j].key # KeyOf(First(c.pos)')
      BY <1>1, <2>4, <3>1 DEF Added, SameBookmarks
    <3>4. pc' \in Late /\ At(c.pos)' # {} => Here(First(c.pos)', s'.marks)
      BY <1>1, <2>1
    <3> QED BY <2>4, <3>1, <3>2, <3>3, <3>4 DEF Added
  <2> QED BY <2>1, <2>5, <2>6
<1>4. \A m, n \in DOMAIN s'.incoming :
        s'.incoming[m].deleted # s'.incoming[n].deleted => s'.incoming[m].item # s'.incoming[n].item
  BY DEF Taken
<1> QED
  BY <1>3, <1>4, AllTaken

\* What was answered stays answered.
LEMMA StillAcked ==
  ASSUME Acked, s'.list = s.list, s'.incoming = s.incoming,
         \A a \in s'.acks : a \in s.acks \/ \E n \in DOMAIN s.incoming : Answered(a, s.incoming[n]),
         pc' \in {"cover", "ack"} => s'.marks = marks'
  PROVE  Acked'
<1>1. \A p : At(p)' = At(p) /\ First(p)' = First(p)
  BY AtSame
<1>2. ASSUME NEW a, NEW n \in DOMAIN s.incoming, Answered(a, s.incoming[n])
      PROVE  Answered(a, s.incoming[n])'
  BY <1>1, <1>2 DEF Answered
<1> QED
  BY <1>2 DEF Acked

\* A further request brings changes to other bookmarks, as the server holds them.
LEMMA PullTaken ==
  ASSUME FilesInv, Retained, Waiting, Taken, Acked, Pull
  PROVE  Taken' /\ Acked'
<1>1. /\ pc = "pull" /\ SameBookmarks(server') /\ s'.list = s.list /\ s'.acks = s.acks
      /\ \/ pc' = "advance" /\ s' = s
         \/ pc' = "pull" /\ s'.incoming = Collected(s.incoming, Offers)
  BY PullDoes DEF FilesInv
<1>2. Typed /\ s.acks = {}
  BY <1>1 DEF FilesInv, Loaded, Early
<1>3. Acked'
  BY <1>1, <1>2 DEF Acked
<1>4. CASE pc' = "advance" /\ s' = s
  BY <1>1, <1>3, <1>4, StillTaken DEF Late
<1>5. CASE pc' = "pull" /\ s'.incoming = Collected(s.incoming, Offers)
  <2>1. /\ Takes(s'.incoming, s.incoming, Offers) /\ s'.incoming \in Seq(Change)
        /\ \A k \in DOMAIN Offers : IsOffer(Offers[k])
    <3> DEFINE next == s'.incoming
    <3>1. s.incoming \in Seq(Change) /\ Offers \in Seq(Change) /\ next = Collected(s.incoming, Offers)
          /\ \A k \in DOMAIN Offers : IsOffer(Offers[k])
      BY <1>2, <1>5, SyncFields, OffersAre
    <3> HIDE DEF next
    <3>2. Takes(next, s.incoming, Offers)
      BY <3>1, CollectedIs
    <3>3. next \in Seq(Change)
      BY <3>2, Zenon DEF Takes
    <3> QED BY <3>1, <3>2, <3>3 DEF next
  <2> DEFINE old(c) == \E m \in DOMAIN s.incoming : c = s.incoming[m]
             fresh(c) == IsOffer(c) /\ \A m \in DOMAIN s.incoming : s.incoming[m].item # c.item
  <2>2. \A n \in DOMAIN s'.incoming : old(s'.incoming[n]) \/ fresh(s'.incoming[n])
    BY <2>1, Zenon DEF Takes
  <2>3. \A n \in DOMAIN s'.incoming : s'.incoming[n] \in Change
    BY <2>1, ElementOfSeq
  <2>4. ASSUME NEW c \in Change, old(c)
        PROVE  /\ c.item \in DOMAIN server
               /\ c.deleted => Deleted(c)
               /\ ~c.deleted => Added(c)
    BY <2>4 DEF Taken, FilesInv, Loaded
  <2>5. ASSUME NEW c \in Change, fresh(c)
        PROVE  /\ c.item \in DOMAIN server
               /\ c.deleted => Deleted(c)
               /\ ~c.deleted => Added(c)
    <3>1. /\ c.item \in DOMAIN server /\ c.key = server[c.item].key
          /\ c.deleted => PendingDelete(c.item)
          /\ ~c.deleted => Pending(c.item)
      BY <2>5 DEF IsOffer
    <3> QED BY <1>1, <3>1, PendingAdded DEF PendingDelete, Pending, Deleted, Late
  <2> HIDE DEF old, fresh
  <2>6. ASSUME NEW n \in DOMAIN s'.incoming
        PROVE  \E c \in Change : /\ c = s'.incoming[n]
                                 /\ c.deleted => Deleted(c)'
                                 /\ ~c.deleted => Added(c)'
    <3>1. PICK c \in Change : c = s'.incoming[n] /\ (old(c) \/ fresh(c))
      BY <2>2, <2>3
    <3>2. /\ c.item \in DOMAIN server
          /\ c.deleted => Deleted(c)
          /\ ~c.deleted => Added(c)
      BY <2>4, <2>5, <3>1
    <3>3. c.deleted => Deleted(c)'
      BY <1>1, <3>2 DEF Deleted, SameBookmarks
    <3>4. ~c.deleted => Added(c)'
      <4>1. \A p : At(p)' = At(p) /\ First(p)' = First(p)
        BY <1>1, AtSame
      <4>2. Alone(c.item) => Alone(c.item)'
        BY <1>1, <3>2 DEF SameBookmarks, Alone
      <4>3. ~(pc' \in Late)
        BY <1>5 DEF Late
      <4> QED BY <1>1, <3>2, <4>1, <4>2, <4>3 DEF Added, SameBookmarks
    <3> QED BY <3>1, <3>3, <3>4
  <2>7. ASSUME NEW m \in DOMAIN s'.incoming, NEW n \in DOMAIN s'.incoming,
               s'.incoming[m].deleted # s'.incoming[n].deleted
        PROVE  s'.incoming[m].item # s'.incoming[n].item
    <3>1. PICK c \in Change : c = s'.incoming[m] /\ (old(c) \/ fresh(c))
      BY <2>2, <2>3
    <3>2. PICK d \in Change : d = s'.incoming[n] /\ (old(d) \/ fresh(d))
      BY <2>2, <2>3
    <3>3. c.deleted \in BOOLEAN /\ d.deleted \in BOOLEAN /\ c.deleted # d.deleted
      BY <2>7, <3>1, <3>2 DEF Change
    <3>4. CASE old(c) /\ old(d)
      BY <3>1, <3>2, <3>3, <3>4 DEF Taken, old
    <3>5. CASE (old(c) /\ fresh(d)) \/ (fresh(c) /\ old(d))
      BY <3>1, <3>2, <3>5 DEF old, fresh
    <3>6. CASE fresh(c) /\ fresh(d)
      <4>1. \A x : IsOffer(x) => /\ x.deleted => server[x.item].state = "webDeleted"
                                 /\ ~x.deleted => server[x.item].state = "live"
        BY DEF IsOffer, Pending, PendingDelete
      <4> QED BY <3>1, <3>2, <3>3, <3>6, <4>1 DEF fresh
    <3> QED BY <3>1, <3>2, <3>4, <3>5, <3>6
  <2>8. Taken'
    BY <2>6, <2>7, AllTaken
  <2> QED BY <1>3, <2>8
<1> QED
  BY <1>1, <1>4, <1>5

\* When changes come to be applied, every record's bookmark is here.
LEMMA AdvanceTaken ==
  ASSUME FilesInv, Retained, Taken, Acked, Advance
  PROVE  Taken' /\ Acked'
<1>1. /\ pc \in {"pull", "advance"} /\ server' = server
      /\ \/ pc' = "idle" /\ s' = NoSync
         \/ /\ pc' = "apply" /\ s'.incoming = s.incoming /\ s'.marks = s.marks /\ s'.list = s.list
            /\ s'.acks = s.acks
  BY AdvanceDoes DEF FilesInv
<1>2. CASE pc' = "idle" /\ s' = NoSync
  BY <1>2, NoSyncIs, NothingTaken
<1>3. CASE pc' = "apply" /\ s'.incoming = s.incoming /\ s'.marks = s.marks /\ s'.list = s.list
           /\ s'.acks = s.acks
  <2>1. \A p : At(p) # {} => Here(First(p), s'.marks)
    <3> SUFFICES ASSUME NEW p, At(p) # {} PROVE Here(First(p), s'.marks)
      OBVIOUS
    <3>1. Min(At(p)) \in DOMAIN s.list /\ First(p) = s.list[Min(At(p))]
      BY FirstIs DEF FilesInv
    <3> QED BY <1>1, <1>3, <3>1 DEF Retained, Early
  <2>2. Taken'
    BY <1>1, <1>3, <2>1, SameItself, StillTaken DEF FilesInv
  <2>3. Acked'
    BY <1>3, StillAcked
  <2> QED BY <2>2, <2>3
<1> QED
  BY <1>1, <1>2, <1>3

\* A deletion takes the mark of the record it names: not one that an addition of
\* another bookmark counts on.
LEMMA ApplyDeleteTaken ==
  ASSUME FilesInv, Waiting, Taken, Acked, ApplyDelete
  PROVE  Taken' /\ Acked'
<1>1. /\ pc = "apply" /\ pc' = "apply" /\ server' = server
      /\ s.next \in DOMAIN s.incoming /\ TheChange.deleted
      /\ s'.marks = Left(s.marks) /\ s'.list = s.list /\ s'.incoming = s.incoming /\ s'.acks = s.acks
  BY ApplyDeleteDoes DEF FilesInv
<1>2. /\ Typed /\ OneEach(s.list) /\ AllStamped(s.list) /\ s.marks \in Seq(Mark)
      /\ TheChange.item \in DOMAIN server /\ Deleted(TheChange)
  BY <1>1, SyncFields DEF FilesInv, Stamped, Loaded, Taken, TheChange
<1> DEFINE in == {i \in DOMAIN s.marks : s.marks[i].ts # Gone \/ Gone = 0}
<1>3. Shorter(s'.marks, s.marks, in)
  BY <1>1, <1>2, PickedFile DEF Left
<1>4. ASSUME NEW c \in Change, Added(c), server[c.item].pos = c.pos, c.item # TheChange.item,
             c.item \in DOMAIN server, At(c.pos) # {}
      PROVE  Here(First(c.pos), s'.marks)
  <2> DEFINE r == First(c.pos)
             named == {n \in DOMAIN s.list : KeyOf(s.list[n]) = TheChange.key}
  <2>1. /\ r \in Record /\ r.pos = c.pos /\ KeyOf(r)[2] = c.pos
        /\ Min(At(c.pos)) \in DOMAIN s.list /\ r = s.list[Min(At(c.pos))]
    BY <1>2, <1>4, FirstIs, KeyFacts
  <2>2. r.ts # 0
    BY <1>2, <2>1 DEF AllStamped
  <2>3. PICK i \in DOMAIN s.marks : s.marks[i].ts = r.ts /\ s.marks[i].settled
    BY <1>1, <1>4 DEF Added, Here, Late
  <2>4. Gone # r.ts \/ Gone = 0
    <3> SUFFICES ASSUME Gone = r.ts PROVE FALSE
      OBVIOUS
    <3>1. named # {}
      BY <2>2 DEF Gone
    <3>2. Min(named) \in named
      BY <1>2, <3>1, FirstOf, SyncFields
    <3>3. KeyOf(s.list[Min(named)]) = TheChange.key /\ Min(named) \in DOMAIN s.list
      BY <3>2
    <3>4. s.list[Min(named)].ts = r.ts
      BY <3>1 DEF Gone
    <3>5. Min(named) = Min(At(c.pos))
      BY <1>2, <2>1, <2>2, <3>3, <3>4 DEF OneEach
    <3>6. KeyOf(r) = TheChange.key
      BY <2>1, <3>3, <3>5
    <3>7. /\ server[TheChange.item].key = KeyOf(r) /\ server[TheChange.item].key # NoKey
          /\ server[TheChange.item].state = "webDeleted"
      BY <1>2, <3>6 DEF Deleted
    <3>8. server[TheChange.item].pos = c.pos
      BY <1>2, <2>1, <3>7 DEF Waiting
    <3> QED BY <1>2, <1>4, <3>7, <3>8 DEF Added, Alone
  <2>5. i \in in
    BY <2>2, <2>3, <2>4
  <2>6. PICK k \in DOMAIN s'.marks : s'.marks[k] = s.marks[i]
    BY <1>3, <2>5, Zenon DEF Shorter
  <2> QED BY <2>3, <2>6 DEF Here
<1>5. \A n \in DOMAIN s.incoming :
        ~s.incoming[n].deleted /\ At(s.incoming[n].pos) # {} =>
          Here(First(s.incoming[n].pos), s'.marks)
  <2> SUFFICES ASSUME NEW n \in DOMAIN s.incoming, ~s.incoming[n].deleted, At(s.incoming[n].pos) # {}
               PROVE  Here(First(s.incoming[n].pos), s'.marks)
    OBVIOUS
  <2>1. PICK c \in Change : c = s.incoming[n]
    BY <1>2, SyncFields, ElementOfSeq
  <2>2. Added(c) /\ server[c.item].pos = c.pos /\ c.item \in DOMAIN server
    BY <2>1 DEF Taken, FilesInv, Loaded
  <2>3. c.item # TheChange.item
    BY <1>1, <2>1 DEF Taken, TheChange
  <2> QED BY <1>4, <2>1, <2>2, <2>3
<1>6. Taken'
  BY <1>1, <1>2, <1>5, SameItself, StillTaken
<1>7. Acked'
  BY <1>1, StillAcked
<1> QED
  BY <1>6, <1>7

\* An answer given is to a change taken.
LEMMA ApplyAnswerTaken ==
  ASSUME FilesInv, Taken, Acked, ApplyDuplicate \/ ApplyUnplaceable \/ ApplyLater
  PROVE  Taken' /\ Acked'
<1>1. /\ pc = "apply" /\ pc' = "apply" /\ server' = server
      /\ s'.marks = s.marks /\ s'.list = s.list /\ s'.incoming = s.incoming
      /\ \/ s'.acks = s.acks
         \/ s.next \in DOMAIN s.incoming /\ \E a : s'.acks = s.acks \cup {a} /\ Answered(a, TheChange)
  BY ApplyAnswerDoes, ApplyLaterDoes DEF FilesInv
<1>2. \A n \in DOMAIN s.incoming :
        ~s.incoming[n].deleted /\ At(s.incoming[n].pos) # {} =>
          Here(First(s.incoming[n].pos), s'.marks)
  BY <1>1 DEF Taken, Added, Late
<1>3. Taken'
  BY <1>1, <1>2, SameItself, StillTaken DEF FilesInv
<1>4. \A a \in s'.acks : a \in s.acks \/ \E n \in DOMAIN s.incoming : Answered(a, s.incoming[n])
  BY <1>1 DEF TheChange
<1>5. Acked'
  BY <1>1, <1>4, StillAcked
<1> QED
  BY <1>3, <1>5

\* Save and Cover change nothing a change taken counts on.
LEMMA SaveTaken ==
  ASSUME FilesInv, Taken, Acked, Faults \cap {"retain", "open", "torn"} = {}, Save
  PROVE  Taken' /\ Acked'
<1>1. /\ pc = "apply" /\ pc' = "cover" /\ server' = server /\ s' = s /\ marks' = s.marks
  BY SaveDoes DEF FilesInv
<1>2. \A n \in DOMAIN s.incoming :
        ~s.incoming[n].deleted /\ At(s.incoming[n].pos) # {} =>
          Here(First(s.incoming[n].pos), s'.marks)
  BY <1>1 DEF Taken, Added, Late
<1>3. Taken'
  BY <1>1, <1>2, SameItself, StillTaken DEF FilesInv
<1>4. Acked'
  BY <1>1, StillAcked
<1> QED
  BY <1>3, <1>4

\* Likewise.
LEMMA CoverTaken ==
  ASSUME FilesInv, Taken, Acked, Cover
  PROVE  Taken' /\ Acked'
<1>1. /\ pc = "cover" /\ server' = server /\ marks' = marks
      /\ \/ pc' = "idle" /\ s' = NoSync
         \/ pc' = "ack" /\ s' = s
  BY CoverDoes DEF FilesInv
<1>2. CASE pc' = "idle" /\ s' = NoSync
  BY <1>2, NoSyncIs, NothingTaken
<1>3. CASE pc' = "ack" /\ s' = s
  <2>1. \A n \in DOMAIN s.incoming :
          ~s.incoming[n].deleted /\ At(s.incoming[n].pos) # {} =>
            Here(First(s.incoming[n].pos), s'.marks)
    BY <1>1, <1>3 DEF Taken, Added, Late
  <2>2. Taken'
    BY <1>1, <1>3, <2>1, SameItself, StillTaken DEF FilesInv
  <2>3. Acked'
    BY <1>1, <1>3, StillAcked DEF Acked
  <2> QED BY <2>2, <2>3
<1> QED
  BY <1>1, <1>2, <1>3

\* An addition is the first record of its place, and its mark is here.
LEMMA ApplyAddTaken ==
  ASSUME FilesInv, Taken, Acked, ApplyAdd
  PROVE  Taken' /\ Acked'
<1>0. PICK p : p = TheChange.pos
  OBVIOUS
<1> DEFINE one(m) == m.ts = now + 1 /\ m.pos = p /\ m.settled /\ s'.marks = Append(s.marks, m)
           both(r, a) == Adds(r, a) /\ s'.list = Append(s.list, r) /\ s'.acks = s.acks \cup {a}
<1>1. /\ pc = "apply" /\ UNCHANGED <<marks, server>>
       /\ s.next \in DOMAIN s.incoming /\ ~TheChange.deleted /\ At(p) = {} /\ p \notin Unplaceable
       /\ \/ pc' = "idle" /\ s' = NoSync
          \/ /\ pc' = "apply" /\ s'.incoming = s.incoming
             /\ \E m \in Mark : one(m)
             /\ \E r, a : both(r, a)
  BY <1>0, ApplyAddDoes
<1>2. CASE pc' = "idle" /\ s' = NoSync
  BY <1>2, NoSyncIs, NothingTaken
<1>3. SUFFICES ASSUME pc' = "apply", s'.incoming = s.incoming, \E m \in Mark : one(m),
                       \E r, a : both(r, a)
                PROVE  Taken' /\ Acked'
  BY <1>1, <1>2
<1>4. /\ pc = "apply" /\ pc' = "apply" /\ UNCHANGED <<marks, server>>
      /\ s.next \in DOMAIN s.incoming /\ ~TheChange.deleted /\ At(p) = {} /\ p \notin Unplaceable
      /\ s'.incoming = s.incoming
  BY <1>1, <1>3
<1>5. PICK m \in Mark : m.ts = now + 1 /\ m.settled /\ s'.marks = Append(s.marks, m)
  BY <1>3
<1>6. PICK r, a : Adds(r, a) /\ s'.list = Append(s.list, r) /\ s'.acks = s.acks \cup {a}
  BY <1>3
<1>7. /\ Typed /\ Typed' /\ s.marks \in Seq(Mark) /\ s.list \in Seq(Record)
      /\ r \in Record /\ r.ts = now + 1 /\ r.pos = p
      /\ a.item = TheChange.item /\ ~a.failed /\ a.key = KeyOf(r)
  BY <1>0, <1>6, SyncFields, ApplyAddDoes DEF FilesInv, Adds
<1>8. Longer(s'.marks, s.marks, m) /\ Longer(s'.list, s.list, r)
  BY <1>5, <1>6, <1>7, AppendFile
<1>9. /\ \A i \in DOMAIN s.marks : i \in DOMAIN s'.marks /\ s'.marks[i] = s.marks[i]
      /\ \E i \in DOMAIN s'.marks : s'.marks[i] = m
      /\ \A n \in DOMAIN s.list : n \in DOMAIN s'.list /\ s'.list[n] = s.list[n]
      /\ Len(s'.list) \in DOMAIN s'.list /\ s'.list[Len(s'.list)] = r
      /\ \A n \in DOMAIN s'.list : n \in DOMAIN s.list \/ n = Len(s'.list)
  BY <1>8, Zenon DEF Longer
<1>10. \A x : x # p => At(x)' = At(x) /\ (At(x) # {} => First(x)' = First(x))
  <2> SUFFICES ASSUME NEW x, x # p PROVE At(x)' = At(x) /\ (At(x) # {} => First(x)' = First(x))
    OBVIOUS
  <2>1. At(x)' = At(x)
    BY <1>7, <1>9 DEF At
  <2>2. ASSUME At(x) # {} PROVE First(x)' = First(x)
    <3>1. Min(At(x)) \in DOMAIN s.list
      BY <1>7, <2>2, FirstIs
    <3> QED BY <1>9, <2>1, <3>1 DEF First
  <2> QED BY <2>1, <2>2
<1>11. At(p)' # {} /\ First(p)' = r
  <2>1. At(p)' = {Len(s'.list)}
    BY <1>4, <1>7, <1>9 DEF At
  <2>2. Min(At(p)') = Len(s'.list)
    <3>1. s'.list \in Seq(Record)
      BY <1>6, <1>7
    <3>2. At(p)' \in SUBSET (DOMAIN s'.list) /\ At(p)' # {}
      BY <1>9, <2>1
    <3> DEFINE S == At(p)'
    <3> HIDE DEF S
    <3>3. Min(S) \in S
      BY <3>1, <3>2, FirstOf DEF S
    <3> QED BY <2>1, <3>3 DEF S
  <2> QED BY <1>9, <2>1, <2>2 DEF First
<1>12. ASSUME NEW c \in Change, Added(c) PROVE Added(c)'
  <2>1. Alone(c.item) => Alone(c.item)'
    BY <1>4 DEF Alone
  <2>2. CASE c.pos = p
    <3>1. server[c.item].key = NoKey
      BY <1>4, <1>12, <2>2 DEF Added
    <3>2. Here(First(c.pos)', s'.marks)
      BY <1>5, <1>7, <1>9, <1>11, <2>2 DEF Here
    <3> QED BY <1>4, <1>12, <2>1, <3>1, <3>2 DEF Added
  <2>3. CASE c.pos # p
    <3>1. At(c.pos)' = At(c.pos) /\ (At(c.pos) # {} => First(c.pos)' = First(c.pos))
      BY <1>10, <2>3
    <3>2. At(c.pos) # {} => Here(First(c.pos), s'.marks)
      BY <1>4, <1>9, <1>12 DEF Added, Here, Late
    <3> QED BY <1>4, <1>12, <2>1, <3>1, <3>2 DEF Added
  <2> QED BY <2>2, <2>3
<1>13. Taken'
  <2>1. ASSUME NEW n \in DOMAIN s'.incoming
        PROVE  \E c \in Change : /\ c = s'.incoming[n]
                                 /\ c.deleted => Deleted(c)'
                                 /\ ~c.deleted => Added(c)'
    <3>1. PICK c \in Change : c = s.incoming[n]
      BY <1>4, <1>7, <2>1, SyncFields, ElementOfSeq
    <3>2. /\ c.deleted => Deleted(c)
          /\ ~c.deleted => Added(c)
      BY <1>4, <2>1, <3>1 DEF Taken
    <3> QED BY <1>4, <1>12, <3>1, <3>2 DEF Deleted
  <2>2. \A j, n \in DOMAIN s'.incoming :
          s'.incoming[j].deleted # s'.incoming[n].deleted => s'.incoming[j].item # s'.incoming[n].item
    BY <1>4 DEF Taken
  <2> QED BY <2>1, <2>2, AllTaken
<1>14. Acked'
  <2>1. ASSUME NEW b \in s.acks, NEW n \in DOMAIN s.incoming, Answered(b, s.incoming[n])
        PROVE  Answered(b, s.incoming[n])'
    <3>1. PICK c : c = s.incoming[n]
      OBVIOUS
    <3>2. c.pos # p
      BY <1>4, <2>1, <3>1 DEF Answered
    <3>3. At(c.pos)' = At(c.pos) /\ (At(c.pos) # {} => First(c.pos)' = First(c.pos))
      BY <1>10, <3>2
    <3>4. Answered(b, c)'
      BY <2>1, <3>1, <3>3 DEF Answered
    <3> QED BY <1>4, <3>1, <3>4 DEF Answered
  <2>2. PICK c : c = TheChange
    OBVIOUS
  <2>3. Answered(a, c)'
    BY <1>0, <1>4, <1>7, <1>11, <2>2 DEF Answered
  <2>4. c = s'.incoming[s.next] /\ s.next \in DOMAIN s'.incoming
    BY <1>4, <2>2 DEF TheChange
  <2>5. \E n \in DOMAIN s'.incoming : Answered(a, s.incoming[n])'
    BY <2>3, <2>4 DEF Answered
  <2>6. \A b \in s.acks : \E n \in DOMAIN s'.incoming : Answered(b, s.incoming[n])'
    BY <1>4, <2>1 DEF Acked
  <2> QED BY <1>4, <1>6, <2>5, <2>6 DEF Acked
<1> QED
  BY <1>13, <1>14

\* A bookmark made on the web is not of a place of one taken.
LEMMA WebAddTaken ==
  ASSUME FilesInv, Taken, Acked, ~ReAdds, NEW p \in Places, WebAdd(p)
  PROVE  Taken' /\ Acked'
<1>1. /\ UNCHANGED <<marks, pc, s>>
      /\ \A i \in DOMAIN server :
           server[i].pos = p => server[i].state # "live" /\ server[i].state # "webDeleted"
      /\ \A i \in DOMAIN server : i \in DOMAIN server' /\ server'[i] = server[i]
      /\ \A j \in DOMAIN server' :
           j \notin DOMAIN server => server'[j].pos = p /\ server'[j].key = NoKey
  BY WebAddDoes DEF FilesInv
<1>2. Acked'
  BY <1>1, StillAcked DEF Acked
<1>3. ASSUME NEW c \in Change, Added(c), c.item \in DOMAIN server, server[c.item].pos = c.pos
      PROVE  Added(c)'
  <2>1. c.pos # p
    BY <1>1, <1>3 DEF Added
  <2>2. Alone(c.item) => Alone(c.item)'
    BY <1>1, <1>3, <2>1 DEF Alone
  <2>3. At(c.pos)' = At(c.pos) /\ First(c.pos)' = First(c.pos)
    BY <1>1, AtSame
  <2>4. \A j \in DOMAIN server' : server'[j].pos = c.pos => j \in DOMAIN server /\ server'[j] = server[j]
    BY <1>1, <2>1
  <2>5. server'[c.item] = server[c.item] /\ pc' = pc /\ s'.marks = s.marks
    BY <1>1, <1>3
  <2> QED BY <1>3, <2>2, <2>3, <2>4, <2>5 DEF Added
<1>4. ASSUME NEW n \in DOMAIN s'.incoming
      PROVE  \E c \in Change : /\ c = s'.incoming[n]
                               /\ c.deleted => Deleted(c)'
                               /\ ~c.deleted => Added(c)'
  <2>1. PICK c \in Change : c = s.incoming[n]
    BY <1>1, <1>4, SyncFields, ElementOfSeq DEF FilesInv
  <2>2. /\ c.deleted => Deleted(c)
        /\ ~c.deleted => Added(c)
        /\ c.item \in DOMAIN server /\ server[c.item].pos = c.pos
    BY <1>1, <1>4, <2>1 DEF Taken, FilesInv, Loaded
  <2> QED BY <1>1, <1>3, <2>1, <2>2 DEF Deleted
<1>5. Taken'
  BY <1>1, <1>4, AllTaken DEF Taken
<1> QED
  BY <1>2, <1>5

\* One deleted on the web is still the one taken, or owed no deletion.
LEMMA WebDeleteTaken ==
  ASSUME FilesInv, Waiting, Taken, Acked, NEW i \in DOMAIN server, WebDelete(i)
  PROVE  Taken' /\ Acked'
<1>1. /\ UNCHANGED <<marks, pc, s>>
      /\ server[i].state \in {"live", "parked"}
      /\ DOMAIN server' = DOMAIN server
      /\ \A j \in DOMAIN server :
           /\ server'[j].pos = server[j].pos /\ server'[j].key = server[j].key
           /\ j # i => server'[j].state = server[j].state
      /\ server'[i].state = "webDeleted"
  BY WebDeleteDoes DEF FilesInv
<1>2. Acked'
  BY <1>1, StillAcked DEF Acked
<1>3. ASSUME NEW c \in Change, Added(c), c.item \in DOMAIN server, server[c.item].pos = c.pos
      PROVE  Added(c)'
  <2>1. Alone(c.item) => Alone(c.item)'
    <3>1. server[i].state = "parked" => server[i].key = NoKey
      BY DEF Waiting
    <3> QED BY <1>1, <1>3, <3>1 DEF Alone
  <2>2. At(c.pos)' = At(c.pos) /\ First(c.pos)' = First(c.pos)
    BY <1>1, AtSame
  <2>3. server'[c.item].state \in {"live", "webDeleted"}
    BY <1>1, <1>3 DEF Added
  <2>4. ASSUME server'[c.item].key # NoKey, NEW j \in DOMAIN server', j # c.item,
               server'[j].pos = c.pos, server'[j].state \in {"live", "webDeleted"}
        PROVE  server'[j].key # KeyOf(First(c.pos))
    <3>1. At(c.pos) # {}
      BY <1>1, <1>3, <2>4 DEF Added
    <3>2. KeyOf(First(c.pos)) # NoKey
      BY <3>1, FirstIs, KeyFacts DEF FilesInv
    <3>3. server[j].state = "parked" => server[j].key = NoKey
      BY <1>1, <2>4 DEF Waiting
    <3>4. server[j].state \in {"live", "webDeleted", "parked"}
      BY <1>1, <2>4
    <3> QED BY <1>1, <1>3, <2>4, <3>2, <3>3, <3>4 DEF Added
  <2> QED BY <1>1, <1>3, <2>1, <2>2, <2>3, <2>4 DEF Added
<1>4. ASSUME NEW n \in DOMAIN s'.incoming
      PROVE  \E c \in Change : /\ c = s'.incoming[n]
                               /\ c.deleted => Deleted(c)'
                               /\ ~c.deleted => Added(c)'
  <2>1. PICK c \in Change : c = s.incoming[n]
    BY <1>1, <1>4, SyncFields, ElementOfSeq DEF FilesInv
  <2>2. /\ c.deleted => Deleted(c)
        /\ ~c.deleted => Added(c)
        /\ c.item \in DOMAIN server /\ server[c.item].pos = c.pos
    BY <1>1, <1>4, <2>1 DEF Taken, FilesInv, Loaded
  <2>3. c.deleted => Deleted(c)'
    BY <1>1, <2>2 DEF Deleted
  <2> QED BY <1>1, <1>3, <2>1, <2>2, <2>3
<1>5. Taken'
  BY <1>1, <1>4, AllTaken DEF Taken
<1> QED
  BY <1>2, <1>5

\* Every step, and none.
LEMMA NextAcked ==
  ASSUME FilesInv, AckInv, FilesInv', ~ReAdds, [Next]_vars,
         Faults \cap {"retain", "short", "open", "torn"} = {}
  PROVE  AckInv'
<1> Typed /\ Retained /\ Waiting /\ Taken /\ Acked
  BY DEF FilesInv, AckInv
<1>1. Retained'
  BY NextRetained
<1>2. CASE UNCHANGED vars
  <2>1. marks' = marks /\ recs' = recs /\ server' = server /\ pc' = pc /\ s' = s
    BY <1>2 DEF vars
  <2>2. Waiting'
    BY <2>1, SameItself, StillWaiting
  <2>3. \A n \in DOMAIN s.incoming :
          pc \in Late /\ ~s.incoming[n].deleted /\ At(s.incoming[n].pos) # {} =>
            Here(First(s.incoming[n].pos), s'.marks)
    BY <2>1 DEF Taken, Added
  <2>4. Taken'
    BY <2>1, <2>3, SameItself, StillTaken
  <2>5. Acked'
    BY <2>1, StillAcked DEF Acked
  <2> QED BY <1>1, <2>2, <2>4, <2>5 DEF AckInv
<1>3. ASSUME server' = server, Taken' /\ Acked' PROVE AckInv'
  BY <1>1, <1>3, SameItself, StillWaiting DEF AckInv
<1>4. CASE Begin \/ Mint \/ Retain
  <2>1. server' = server /\ DOMAIN s'.incoming = {} /\ s'.acks = {} /\ pc' \notin {"cover", "ack"}
    <3>1. pc = "mint" => DOMAIN s.incoming = {} /\ s.acks = {}
      BY DEF FilesInv, Loaded, Early
    <3>2. /\ server' = server
          /\ \/ s' = NoSync \/ (s'.incoming = s.incoming /\ s'.acks = s.acks /\ pc = "mint")
             \/ DOMAIN s'.incoming = {} /\ s'.acks = {}
          /\ pc' \in {"mint", "exchange", "idle"}
      BY <1>4, BeginDoes, MintDoes, RetainDoes
    <3> QED BY <3>1, <3>2, NoSyncIs
  <2> QED BY <1>3, <2>1, NothingTaken
<1>5. CASE Exchange
  <2>1. Waiting'
    <3>1. server' = server \/ server' = Answer
      BY <1>5, ExchangeDoes
    <3> QED BY <3>1, SameItself, StillWaiting, AnswerWaiting
  <2> QED BY <1>1, <1>5, <2>1, ExchangeTaken DEF AckInv
<1>6. CASE Pull
  <2>1. SameBookmarks(server')
    BY <1>6, PullDoes
  <2> QED BY <1>1, <1>6, <2>1, StillWaiting, PullTaken DEF AckInv
<1>7. CASE Advance
  BY <1>3, <1>7, AdvanceDoes, AdvanceTaken
<1>8. CASE Apply
  <2>1. server' = server
    BY <1>8, ApplyDeleteDoes, ApplyAnswerDoes, ApplyLaterDoes, ApplyAddDoes DEF Apply
  <2>2. Taken' /\ Acked'
    BY <1>8, ApplyDeleteTaken, ApplyAnswerTaken, ApplyAddTaken DEF Apply
  <2> QED BY <1>3, <2>1, <2>2
<1>9. CASE Save
  BY <1>3, <1>9, SaveDoes, SaveTaken
<1>10. CASE Cover
  BY <1>3, <1>10, CoverDoes, CoverTaken DEF FilesInv
<1>11. CASE Ack
  <2>1. /\ pc' = "idle" /\ s' = NoSync
        /\ server' = server \/ server' = Acknowledged(s.acks, s.dels)
    BY <1>11, AckDoes
  <2>2. Taken' /\ Acked'
    BY <2>1, NoSyncIs, NothingTaken
  <2> QED BY <1>1, <2>1, <2>2, SameItself, StillWaiting, ToldWaiting DEF AckInv
<1>12. CASE Reader \/ PowerCut \/ ClearCache
  <2>1. server' = server /\ pc' = "idle"
    <3>1. CASE \E p \in Places \ Unplaceable, settled \in {TRUE, ~LateMarks} : Star(p, settled)
      <4>1. PICK p \in Places, settled \in BOOLEAN : Star(p, settled)
        BY <3>1, ConstantsAssumption
      <4> QED BY <4>1, StarDoes
    <3> QED BY <1>12, <3>1, UnstarDoes, SettleDoes, PowerCutDoes, ClearCacheDoes DEF Reader
  <2>2. s' = NoSync
    BY <2>1 DEF FilesInv, Loaded
  <2> QED BY <1>3, <2>1, <2>2, NoSyncIs, NothingTaken
<1>13. CASE Web
  <2>1. ASSUME NEW p \in Places, WebAdd(p) PROVE AckInv'
    BY <1>1, <2>1, WebAddWaiting, WebAddTaken DEF AckInv
  <2>2. ASSUME NEW i \in DOMAIN server, WebDelete(i) PROVE AckInv'
    BY <1>1, <2>2, WebDeleteWaiting, WebDeleteTaken DEF AckInv
  <2> QED BY <1>13, <2>1, <2>2 DEF Web
<1> QED
  BY <1>2, <1>4, <1>5, <1>6, <1>7, <1>8, <1>9, <1>10, <1>11, <1>12, <1>13 DEF Next, SyncStep

\* What AckInv says of an acknowledgment about to be sent.
LEMMA AckedIsHere ==
  ASSUME FilesInv, AckInv
  PROVE  AcknowledgedIsHere
<1> SUFFICES ASSUME pc = "ack", NEW a \in s.acks, ~a.failed
             PROVE  \E n \in DOMAIN s.list, i \in DOMAIN marks :
                      KeyOf(s.list[n]) = a.key /\ marks[i].ts = s.list[n].ts
  BY DEF AcknowledgedIsHere
<1>1. PICK c \in Change : Added(c) /\ At(c.pos) # {} /\ a.key = KeyOf(First(c.pos))
  BY AckedIs DEF AckInv
<1>2. Min(At(c.pos)) \in DOMAIN s.list /\ First(c.pos) = s.list[Min(At(c.pos))]
  BY <1>1, FirstIs DEF FilesInv
<1>3. Here(First(c.pos), marks)
  BY <1>1 DEF Added, Late, AckInv, Acked
<1> QED
  BY <1>1, <1>2, <1>3 DEF Here

\* What the device acknowledges as applied it holds, with its record and on its card
\* (syncBookmarks, BookOrbitSyncExtras.cpp): while retain does not fail, no sync works
\* on less than the record file after a failure of the card, and the bookmark file can
\* be written; and no bookmark is made on the web where the device has not heard of a
\* deletion.  Whatever else fails, and whenever the power does, in the middle of
\* writing the record file too.  With one of these faults it is false: a record of a
\* bookmark that is gone stands for one of the web.
THEOREM AcknowledgedIsAlwaysHere ==
  ASSUME ~ReAdds, Faults \cap {"retain", "short", "open", "torn"} = {}
  PROVE  Spec => []AcknowledgedIsHere
<1>1. Init => AckInv
  <2> SUFFICES ASSUME Init PROVE AckInv
    OBVIOUS
  <2>1. DOMAIN server = {} /\ pc = "idle" /\ s = NoSync
    BY EmptySeq DEF Init
  <2> QED BY <2>1, NoSyncIs DEF AckInv, Retained, Waiting, Taken, Acked, Early
<1>2. FilesInv /\ AckInv /\ FilesInv' /\ [Next]_vars => AckInv'
  BY NextAcked
<1>3. FilesInv /\ AckInv => AcknowledgedIsHere
  BY AckedIsHere
<1> QED
  BY <1>1, <1>2, <1>3, FilesAlwaysSound, PTL DEF Spec

-----------------------------------------------------------------------------
(* What the server has linked is here, unless the reader removed it or its  *)
(* record was lost of the file.                                            *)

\* The faults that take a mark, or leave a record without one.
DeletionFaults == {"retain", "short", "open", "torn", "cleared"}

\* The records of bookmarks in m stay, and the bookmarks in m2, unless they are of
\* places where one was removed or a record lost.
StillIn(m, m2) ==
  \A n \in DOMAIN recs.list :
    Here(recs.list[n], m) /\ recs.list[n].pos \notin removed' \cup lost' =>
      Here(recs.list[n], m2) /\ \E k \in DOMAIN recs'.list : recs'.list[k] = recs.list[n]

\* They do when nothing is lost that is not noted, and no bookmark goes.
LEMMA StayIn ==
  ASSUME NEW m, NEW m2, Noted(recs.list) \/ recs'.list = recs.list,
         \A i \in DOMAIN m : i \in DOMAIN m2 /\ m2[i] = m[i]
  PROVE  StillIn(m, m2)
<1>1. ASSUME NEW n \in DOMAIN recs.list, Here(recs.list[n], m) PROVE Here(recs.list[n], m2)
  BY <1>1 DEF Here
<1>2. ASSUME NEW n \in DOMAIN recs.list, recs.list[n].pos \notin lost'
      PROVE  \E k \in DOMAIN recs'.list : recs'.list[k] = recs.list[n]
  BY <1>2 DEF Noted
<1> QED
  BY <1>1, <1>2 DEF StillIn

\* The live linked bookmarks of next are so already.
LiveFrom(next) ==
  \A i \in DOMAIN next :
    next[i].state = "live" /\ next[i].key # NoKey =>
      /\ i \in DOMAIN server /\ server[i].state = "live"
      /\ server[i].key = next[i].key /\ server[i].pos = next[i].pos

\* A step of the device that keeps what is held.
LEMMA StillHeld ==
  ASSUME Typed, Waiting, LinkedHeld, LiveFrom(server'),
         removed \subseteq removed', lost \subseteq lost',
         StillIn(marks, marks'),
         pc' # "idle" => StillIn(IF pc = "idle" THEN marks ELSE s.marks, s'.marks)
  PROVE  LinkedHeld'
<1> SUFFICES ASSUME NEW i \in DOMAIN server', server'[i].state = "live", server'[i].key # NoKey,
                    server'[i].pos \notin removed' \cup lost'
             PROVE  /\ Held(server'[i].key, recs'.list, marks')
                    /\ pc' # "idle" => Held(server'[i].key, recs'.list, s'.marks)
  BY DEF LinkedHeld
<1>1. /\ i \in DOMAIN server /\ server[i].state = "live" /\ server[i].key # NoKey
      /\ server[i].key = server'[i].key /\ server[i].pos \notin removed' \cup lost'
  BY DEF LiveFrom
<1>2. /\ Held(server[i].key, recs.list, marks)
      /\ pc # "idle" => Held(server[i].key, recs.list, s.marks)
  BY <1>1 DEF LinkedHeld
<1>3. ASSUME NEW n \in DOMAIN recs.list, KeyOf(recs.list[n]) = server[i].key
      PROVE  recs.list[n].pos \notin removed' \cup lost'
  <2>1. recs.list[n] \in Record
    BY SyncFields, ElementOfSeq
  <2> QED BY <1>1, <1>3, <2>1, KeyFacts DEF Waiting
<1>4. ASSUME NEW m, NEW m2, Held(server[i].key, recs.list, m), StillIn(m, m2)
      PROVE  Held(server[i].key, recs'.list, m2)
  BY <1>3, <1>4 DEF Held, StillIn
<1> QED
  BY <1>1, <1>2, <1>4

\* The same bookmarks are so already; and those that are there when the web page has
\* added or deleted one.
LEMMA LiveStays ==
  ASSUME Typed
  PROVE  /\ \A next : SameBookmarks(next) => LiveFrom(next)
         /\ \A p \in Places : WebAdd(p) => LiveFrom(server')
         /\ \A i \in DOMAIN server : WebDelete(i) => LiveFrom(server')
<1>1. ASSUME NEW next, SameBookmarks(next) PROVE LiveFrom(next)
  BY <1>1 DEF SameBookmarks, LiveFrom
<1>2. ASSUME NEW p \in Places, WebAdd(p) PROVE LiveFrom(server')
  <2>1. /\ \A i \in DOMAIN server : i \in DOMAIN server' /\ server'[i] = server[i]
        /\ \A j \in DOMAIN server' : j \notin DOMAIN server => server'[j].key = NoKey
    BY <1>2, WebAddDoes
  <2> QED BY <2>1 DEF LiveFrom
<1>3. ASSUME NEW i \in DOMAIN server, WebDelete(i) PROVE LiveFrom(server')
  <2>1. /\ DOMAIN server' = DOMAIN server /\ server'[i].state = "webDeleted"
        /\ \A j \in DOMAIN server :
             /\ server'[j].pos = server[j].pos /\ server'[j].key = server[j].key
             /\ j # i => server'[j].state = server[j].state
    BY <1>3, WebDeleteDoes
  <2> QED BY <2>1 DEF LiveFrom
<1> QED
  BY <1>1, <1>2, <1>3

\* A sync that is past the exchange adds to both lists.
LEMMA NextWritten ==
  ASSUME FilesInv, FilesInv', Written, "short" \notin Faults, [Next]_vars
  PROVE  Written'
<1> Typed /\ Stamped
  BY DEF FilesInv
<1>1. CASE pc' = "idle" \/ pc' \in Early
  <2>1. pc' \in Early => s'.list = recs'.list
    BY DEF FilesInv, Loaded
  <2> QED BY <1>1, <2>1 DEF Written
<1>2. ASSUME pc # "idle", s'.list = s.list, lost \subseteq lost',
             recs'.list = recs.list \/ Noted(recs.list)
      PROVE  Written'
  BY <1>2 DEF Written, Noted
<1>3. CASE UNCHANGED vars
  <2>1. recs' = recs /\ pc' = pc /\ s' = s /\ lost' = lost
    BY <1>3 DEF vars
  <2> QED BY <2>1 DEF Written
<1>4. CASE Begin \/ Mint \/ Retain \/ Exchange \/ Pull
  <2>1. pc' = "idle" \/ pc' \in Early
    BY <1>4, BeginDoes, MintDoes, RetainDoes, ExchangeDoes, PullDoes DEF Early
  <2> QED BY <1>1, <2>1
<1>5. CASE Advance
  <2>1. pc # "idle" /\ (pc' = "idle" \/ s'.list = s.list) /\ OnlyMarked
    BY <1>5, AdvanceDoes
  <2> QED BY <1>1, <1>2, <2>1 DEF OnlyMarked, Noted
<1>6. CASE ApplyDelete \/ ApplyDuplicate \/ ApplyUnplaceable \/ ApplyLater
  <2>1. pc = "apply" /\ s'.list = s.list /\ recs' = recs /\ lost' = lost
    BY <1>6, ApplyDeleteDoes, ApplyAnswerDoes, ApplyLaterDoes
  <2> QED BY <1>2, <2>1
<1>7. CASE ApplyAdd
  <2>1. PICK r, a, f :
          /\ Adds(r, a) /\ Puts(f, r)
          /\ \/ pc' = "idle" /\ s' = NoSync
             \/ pc' = "apply" /\ s'.list = Append(s.list, r)
          /\ \/ pc' = "apply" /\ recs' = f /\ lost' = lost
             \/ pc' = "apply" /\ recs' = recs /\ Noted(f.list)
             \/ (pc' = "idle" \/ "short" \in Faults) /\ Noted(f.list)
    BY <1>7, ApplyAddDoes, Zenon
  <2>2. CASE pc' = "idle"
    BY <1>1, <2>2
  <2>3. CASE pc' # "idle"
    <3>1. /\ pc = "apply" /\ s'.list = Append(s.list, r) /\ f.list = Append(recs.list, r)
          /\ lost \subseteq lost'
          /\ \A n \in DOMAIN f.list :
               (\E k \in DOMAIN recs'.list : recs'.list[k] = f.list[n]) \/ f.list[n].pos \in lost'
      BY <1>7, <2>1, <2>3, ApplyAddDoes DEF Noted, Puts
    <3>2. r \in Record /\ s.list \in Seq(Record) /\ recs.list \in Seq(Record)
      BY <2>1, SyncFields DEF Adds
    <3>3. Longer(s'.list, s.list, r) /\ Longer(f.list, recs.list, r)
      BY <3>1, <3>2, AppendFile
    <3>4. /\ \A n \in DOMAIN recs.list : n \in DOMAIN f.list /\ f.list[n] = recs.list[n]
          /\ \E n \in DOMAIN f.list : f.list[n] = r
          /\ \A n \in DOMAIN s'.list : (n \in DOMAIN s.list /\ s'.list[n] = s.list[n]) \/ s'.list[n] = r
      BY <3>3, Zenon DEF Longer
    <3>5. ASSUME NEW x, (\E n \in DOMAIN f.list : f.list[n] = x)
          PROVE  x.pos \in lost' \/ \E k \in DOMAIN recs'.list : recs'.list[k] = x
      BY <3>1, <3>5
    <3>6. ASSUME NEW n \in DOMAIN s'.list
          PROVE  \/ s'.list[n].pos \in lost'
                 \/ \E k \in DOMAIN recs'.list : recs'.list[k] = s'.list[n]
      <4>1. CASE s'.list[n] = r
        BY <3>4, <3>5, <4>1
      <4>2. CASE n \in DOMAIN s.list /\ s'.list[n] = s.list[n]
        <5>1. s.list[n].pos \in lost \/ \E k \in DOMAIN recs.list : recs.list[k] = s.list[n]
          BY <3>1, <4>2 DEF Written
        <5>2. s.list[n].pos \in lost \/ \E k \in DOMAIN f.list : f.list[k] = s.list[n]
          BY <3>4, <5>1
        <5> QED BY <3>1, <3>5, <4>2, <5>2
      <4> QED BY <3>4, <4>1, <4>2
    <3> QED BY <3>6 DEF Written
  <2> QED BY <2>2, <2>3
<1>8. CASE Save
  BY <1>2, <1>8, SaveDoes
<1>9. CASE Cover
  <2>1. pc # "idle" /\ (pc' = "idle" \/ s'.list = s.list) /\ OnlyMarked
    BY <1>9, CoverDoes
  <2> QED BY <1>1, <1>2, <2>1 DEF OnlyMarked, Noted
<1>10. CASE Ack \/ PowerCut
  BY <1>1, <1>10, AckDoes, PowerCutDoes
<1>11. CASE Reader
  <2>1. CASE \E p \in Places \ Unplaceable, settled \in {TRUE, ~LateMarks} : Star(p, settled)
    <3>1. PICK p \in Places, settled \in BOOLEAN : Star(p, settled)
      BY <2>1, ConstantsAssumption
    <3> QED BY <1>1, <3>1, StarDoes
  <2> QED BY <1>1, <1>11, <2>1, UnstarDoes, SettleDoes DEF Reader
<1>12. CASE Web \/ ClearCache
  <2>1. recs' = recs /\ pc' = pc /\ s' = s /\ lost' = lost
    BY <1>12, WebAddDoes, WebDeleteDoes, ClearCacheDoes DEF Web
  <2> QED BY <2>1 DEF Written
<1> QED
  BY <1>3, <1>4, <1>5, <1>6, <1>7, <1>8, <1>9, <1>10, <1>11, <1>12 DEF Next, SyncStep, Apply

\* After an answer, a linked bookmark has its record and its mark.
LEMMA ExchangeHeld ==
  ASSUME FilesInv, Retained, LinkedHeld, "short" \notin Faults, Exchange
  PROVE  LinkedHeld'
<1>1. /\ pc = "exchange" /\ UNCHANGED <<marks, recs, removed, lost>>
      /\ server' = server \/ server' = Answer
      /\ pc' = "idle" \/ (pc' = "pull" /\ s'.marks = s.marks)
  BY ExchangeDoes DEF FilesInv
<1>2. Typed /\ s.list = recs.list /\ s.marks = marks
  BY <1>1, EarlyIs DEF Early
<1>3. \A n \in DOMAIN recs.list : Here(recs.list[n], marks)
  BY <1>1, <1>2 DEF Retained, Early
<1>4. \A key : (\E n \in DOMAIN recs.list : KeyOf(recs.list[n]) = key) => Held(key, recs.list, marks)
  BY <1>3 DEF Held
<1>5. ASSUME NEW i \in DOMAIN server', server'[i].state = "live", server'[i].key # NoKey,
             server'[i].pos \notin removed \cup lost
      PROVE  Held(server'[i].key, recs.list, marks)
  <2>1. CASE server' = server
    BY <1>5, <2>1 DEF LinkedHeld
  <2>2. CASE server' = Answer
    <3> DEFINE q == Outgoing
               keys == {KeyOf(s.list[n]) : n \in DOMAIN s.list}
    <3>1. q \in Seq(Record) /\ KeysComplete \in BOOLEAN
      BY <1>2, OutgoingAre, SyncFields DEF KeysComplete
    <3>2. AfterRequest(server', q, keys, KeysComplete)
      BY <1>2, <2>2, <3>1, ReceivedIs, Zenon DEF Answer
    <3>3. ASSUME NEW n \in DOMAIN q PROVE Held(KeyOf(q[n]), recs.list, marks)
      <4>1. PICK g : Sends(g)
        BY <1>2, OutgoingAre
      <4>2. g[n] \in DOMAIN s.list /\ q[n] = s.list[g[n]]
        BY <3>3, <4>1 DEF Sends
      <4> QED BY <1>2, <1>4, <4>2
    <3>4. \A k \in DOMAIN server : Linked(q, k) # {} => Min(Linked(q, k)) \in DOMAIN q
      BY <1>2, <3>1, LinkedAre
    <3>5. \A n \in Unlinked(q) : n \in DOMAIN q
      BY DEF Unlinked, News
    <3> HIDE DEF q, keys
    <3>6. CASE i \in DOMAIN server /\ Linked(q, i) = {}
      <4>1. /\ server'[i].pos = server[i].pos /\ server'[i].key = server[i].key
            /\ server'[i].state = server[i].state \/ server'[i].state = "deviceDeleted"
        BY <3>2, <3>6, Zenon DEF AfterRequest
      <4> QED BY <1>5, <3>6, <4>1 DEF LinkedHeld
    <3>7. CASE i \in DOMAIN server /\ Linked(q, i) # {}
      <4>1. server'[i].key = KeyOf(q[Min(Linked(q, i))])
        BY <3>2, <3>7, Zenon DEF AfterRequest
      <4> QED BY <3>3, <3>4, <3>7, <4>1
    <3>8. CASE i \notin DOMAIN server
      <4>1. PICK n \in Unlinked(q) : /\ server'[i].pos = q[n].pos /\ server'[i].key = KeyOf(q[n])
                                     /\ server'[i].state = "live"
        BY <3>2, <3>8, Zenon DEF AfterRequest
      <4> QED BY <3>3, <3>5, <4>1
    <3> QED BY <3>6, <3>7, <3>8
  <2> QED BY <1>1, <2>1, <2>2
<1> QED
  BY <1>1, <1>2, <1>5 DEF LinkedHeld

\* Minting writes more records, or notes what is lost.
LEMMA MintHeld ==
  ASSUME FilesInv, Waiting, LinkedHeld, "short" \notin Faults, Mint
  PROVE  LinkedHeld'
<1>1. /\ pc = "mint" /\ UNCHANGED <<marks, server, removed>>
      /\ pc' = "idle" \/ s'.marks = s.marks
  BY MintDoes
<1>2. PICK r, f :
        /\ Mints(r) /\ Puts(f, r)
        /\ \/ lost' = lost /\ recs' = recs
           \/ lost' = lost /\ recs' = f
           \/ Noted(recs.list)
  BY MintDoes, Zenon
<1>3. Typed /\ recs.list \in Seq(Record) /\ r \in Record /\ f.list = Append(recs.list, r)
  BY <1>2, SyncFields DEF FilesInv, Mints, Puts
<1>4. lost \subseteq lost' /\ (Noted(recs.list) \/ recs'.list = recs.list)
  <2>1. CASE lost' = lost /\ recs' = f
    <3>1. Longer(recs'.list, recs.list, r)
      BY <1>3, <2>1, AppendFile
    <3>2. \A n \in DOMAIN recs.list : n \in DOMAIN recs'.list /\ recs'.list[n] = recs.list[n]
      BY <3>1, Zenon DEF Longer
    <3> QED BY <2>1, <3>2 DEF Noted
  <2> QED BY <1>2, <2>1 DEF Noted
<1>5. StillIn(marks, marks') /\ StillIn(s.marks, s.marks)
  BY <1>1, <1>4, StayIn
<1> QED
  BY <1>1, <1>3, <1>4, <1>5, SameItself, LiveStays, StillHeld

\* Retain leaves the records of marks that are here, or notes what is lost.
LEMMA RetainHeld ==
  ASSUME FilesInv, Waiting, LinkedHeld, "retain" \notin Faults, "short" \notin Faults, Retain
  PROVE  LinkedHeld'
<1>1. /\ pc = "mint" /\ UNCHANGED <<marks, server, removed>>
      /\ pc' = "idle" \/ s'.marks = s.marks
      /\ (lost' = lost /\ recs'.list = Kept(recs.list)) \/ Noted(Kept(recs.list))
  BY RetainDoes
<1>2. Typed /\ s.marks = marks
  BY <1>1, EarlyIs DEF Early
<1> DEFINE in == {n \in DOMAIN recs.list : recs.list[n].ts \in SyncTimes(s.marks)}
           kept == Kept(recs.list)
<1>3. Shorter(kept, recs.list, in)
  BY <1>2, KeptIs
<1>4. \A n \in DOMAIN recs.list : Here(recs.list[n], marks) => n \in in
  <2> SUFFICES ASSUME NEW n \in DOMAIN recs.list, Here(recs.list[n], marks) PROVE n \in in
    OBVIOUS
  <2>1. PICK i \in DOMAIN marks : marks[i].ts = recs.list[n].ts /\ marks[i].settled
    BY DEF Here
  <2>2. recs.list[n].ts # 0
    BY DEF FilesInv, Stamped, AllStamped
  <2>3. i \in Syncable(s.marks) /\ s.marks[i].ts = recs.list[n].ts
    BY <1>2, <2>1, <2>2 DEF Syncable
  <2> QED BY <2>3 DEF SyncTimes
<1>5. /\ lost \subseteq lost'
      /\ \A k \in DOMAIN kept :
           kept[k].pos \in lost' \/ \E j \in DOMAIN recs'.list : recs'.list[j] = kept[k]
  BY <1>1 DEF Noted
<1> HIDE DEF in, kept
<1>6. \A n \in DOMAIN recs.list :
        Here(recs.list[n], marks) => \E k \in DOMAIN kept : kept[k] = recs.list[n]
  BY <1>3, <1>4, Zenon DEF Shorter
<1>7. StillIn(marks, marks)
  BY <1>5, <1>6 DEF StillIn
<1> QED
  BY <1>1, <1>2, <1>5, <1>7, SameItself, LiveStays, StillHeld

\* A deletion takes no mark another linked bookmark needs: their keys differ.
LEMMA ApplyDeleteHeld ==
  ASSUME FilesInv, Taken, LinkedHeld, KeysApart, ApplyDelete
  PROVE  LinkedHeld'
<1>1. /\ pc = "apply" /\ pc' = "apply" /\ UNCHANGED <<marks, recs, server, removed, lost>>
      /\ s.next \in DOMAIN s.incoming /\ TheChange.deleted
      /\ s'.marks = Left(s.marks)
  BY ApplyDeleteDoes DEF FilesInv
<1>2. /\ Typed /\ OneEach(s.list) /\ AllStamped(s.list) /\ s.marks \in Seq(Mark)
      /\ TheChange.item \in DOMAIN server /\ Deleted(TheChange)
  BY <1>1, SyncFields DEF FilesInv, Stamped, Loaded, Taken, TheChange
<1> DEFINE in == {i \in DOMAIN s.marks : s.marks[i].ts # Gone \/ Gone = 0}
<1>3. Shorter(s'.marks, s.marks, in)
  BY <1>1, <1>2, PickedFile DEF Left
<1>4. ASSUME NEW i \in DOMAIN server, server[i].state = "live", server[i].key # NoKey,
             server[i].pos \notin removed \cup lost
      PROVE  Held(server[i].key, recs.list, marks) /\ Held(server[i].key, recs.list, s'.marks)
  <2> DEFINE named == {n \in DOMAIN s.list : KeyOf(s.list[n]) = TheChange.key}
  <2>1. Held(server[i].key, recs.list, marks) /\ Held(server[i].key, recs.list, s.marks)
    BY <1>1, <1>4 DEF LinkedHeld
  <2>12. PICK l \in DOMAIN recs.list :
           KeyOf(recs.list[l]) = server[i].key /\ Here(recs.list[l], s.marks)
    BY <2>1 DEF Held
  <2>2. PICK n \in DOMAIN s.list : /\ KeyOf(s.list[n]) = server[i].key /\ Here(s.list[n], s.marks)
                                  /\ s.list[n] = recs.list[l]
    BY <1>1, <2>12 DEF FilesInv, Loaded, Within
  <2>3. PICK j \in DOMAIN s.marks : s.marks[j].ts = s.list[n].ts /\ s.marks[j].settled
    BY <2>2 DEF Here
  <2>4. s.list[n].ts # 0
    BY <1>2 DEF AllStamped
  <2>5. Gone # s.list[n].ts \/ Gone = 0
    <3> SUFFICES ASSUME Gone = s.list[n].ts PROVE FALSE
      OBVIOUS
    <3>1. named # {}
      BY <2>4 DEF Gone
    <3>2. Min(named) \in named
      BY <1>2, <3>1, FirstOf, SyncFields
    <3>3. s.list[Min(named)].ts = s.list[n].ts
      BY <3>1 DEF Gone
    <3>4. Min(named) = n
      BY <1>2, <2>4, <3>2, <3>3 DEF OneEach
    <3>5. server[TheChange.item].key = server[i].key /\ server[TheChange.item].state = "webDeleted"
      BY <1>2, <2>2, <3>2, <3>4 DEF Deleted
    <3> QED BY <1>2, <1>4, <3>5 DEF KeysApart
  <2>6. j \in in
    BY <2>3, <2>4, <2>5
  <2> HIDE DEF in
  <2>7. PICK k \in DOMAIN s'.marks : s'.marks[k] = s.marks[j]
    BY <1>3, <2>6, Zenon DEF Shorter
  <2>8. Here(s.list[n], s'.marks)
    BY <2>3, <2>7 DEF Here
  <2> QED BY <2>1, <2>2, <2>8, <2>12 DEF Held
<1> QED
  BY <1>1, <1>4 DEF LinkedHeld

\* An addition leaves more of both, or notes what is lost.
LEMMA ApplyAddHeld ==
  ASSUME FilesInv, Waiting, LinkedHeld, ApplyAdd
  PROVE  LinkedHeld'
<1>1. /\ pc = "apply" /\ UNCHANGED <<marks, server, removed>>
      /\ pc' = "idle" \/ \E m \in Mark : s'.marks = Append(s.marks, m)
      /\ \E r, f : /\ r \in Record /\ f.list = Append(recs.list, r)
                   /\ (recs' = f /\ lost' = lost) \/ Noted(f.list)
  BY ApplyAddDoes DEF Adds, Puts
<1>2. Typed /\ recs.list \in Seq(Record) /\ s.marks \in Seq(Mark)
  BY SyncFields DEF FilesInv
<1>3. Noted(recs.list)
  <2>1. PICK r, f : /\ r \in Record /\ f.list = Append(recs.list, r)
                    /\ (recs' = f /\ lost' = lost) \/ Noted(f.list)
    BY <1>1
  <2>2. Longer(f.list, recs.list, r)
    BY <1>2, <2>1, AppendFile
  <2>3. \A n \in DOMAIN recs.list : n \in DOMAIN f.list /\ f.list[n] = recs.list[n]
    BY <2>2, Zenon DEF Longer
  <2> QED BY <2>1, <2>3 DEF Noted
<1>4. pc' # "idle" => \A i \in DOMAIN s.marks : i \in DOMAIN s'.marks /\ s'.marks[i] = s.marks[i]
  <2> SUFFICES ASSUME pc' # "idle"
               PROVE  \A i \in DOMAIN s.marks : i \in DOMAIN s'.marks /\ s'.marks[i] = s.marks[i]
    OBVIOUS
  <2>1. PICK m \in Mark : s'.marks = Append(s.marks, m)
    BY <1>1
  <2>2. Longer(s'.marks, s.marks, m)
    BY <1>2, <2>1, AppendFile
  <2> QED BY <2>2, Zenon DEF Longer
<1>5. StillIn(marks, marks') /\ (pc' # "idle" => StillIn(s.marks, s'.marks))
  BY <1>1, <1>3, <1>4, StayIn
<1>6. lost \subseteq lost'
  BY <1>3 DEF Noted
<1> QED
  BY <1>1, <1>2, <1>5, <1>6, SameItself, LiveStays, StillHeld

\* An acknowledgment links bookmarks that are here.
LEMMA AckHeld ==
  ASSUME FilesInv, Taken, Acked, LinkedHeld, Written, Ack
  PROVE  LinkedHeld'
<1>1. /\ pc = "ack" /\ pc' = "idle" /\ UNCHANGED <<marks, recs, removed, lost>>
      /\ server' = server \/ server' = Acknowledged(s.acks, s.dels)
  BY AckDoes DEF FilesInv
<1>2. CASE server' = server
  BY <1>1, <1>2 DEF LinkedHeld
<1>3. CASE server' = Acknowledged(s.acks, s.dels)
  <2>1. TellsApart(server')
    BY <1>3, ToldIs
  <2>2. ASSUME NEW i \in DOMAIN server', server'[i].state = "live", server'[i].key # NoKey,
               server'[i].pos \notin removed \cup lost
        PROVE  Held(server'[i].key, recs.list, marks)
    <3>1. /\ i \in DOMAIN server /\ server[i].state = "live" /\ server'[i].pos = server[i].pos
          /\ server'[i].key # server[i].key =>
               \E n \in DOMAIN s.list : server'[i].key = KeyOf(s.list[n]) /\ Here(s.list[n], marks)
      BY <1>1, <2>1, <2>2 DEF TellsApart
    <3>2. CASE server'[i].key = server[i].key
      BY <2>2, <3>1, <3>2 DEF LinkedHeld
    <3>3. CASE server'[i].key # server[i].key
      <4>1. PICK n \in DOMAIN s.list : server'[i].key = KeyOf(s.list[n]) /\ Here(s.list[n], marks)
        BY <3>1, <3>3
      <4>2. s.list[n] \in Record
        BY SyncFields, ElementOfSeq DEF FilesInv
      <4>3. s.list[n].pos = server'[i].pos
        BY <2>1, <3>1, <3>3, <4>1, <4>2, KeyFacts DEF TellsApart
      <4>4. PICK k \in DOMAIN recs.list : recs.list[k] = s.list[n]
        BY <1>1, <2>2, <4>3 DEF Written
      <4> QED BY <4>1, <4>4 DEF Held
    <3> QED BY <3>2, <3>3
  <2> QED BY <1>1, <2>2 DEF LinkedHeld
<1> QED
  BY <1>1, <1>2, <1>3

\* A timestamp that is settled later is the same one; only one of 0 changes.
LEMMA SettleHeld ==
  ASSUME FilesInv, Waiting, LinkedHeld, Faults \cap DeletionFaults = {},
         NEW i \in DOMAIN marks, Settle(i)
  PROVE  LinkedHeld'
<1>1. /\ pc = "idle" /\ UNCHANGED <<recs, server, pc, s, removed, lost>> /\ Settles(marks', i)
  BY SettleDoes DEF DeletionFaults
<1>2. \A n \in DOMAIN recs.list : recs.list[n].ts # 0
  BY DEF FilesInv, Stamped, AllStamped
<1>3. ASSUME NEW n \in DOMAIN recs.list, Here(recs.list[n], marks) PROVE Here(recs.list[n], marks')
  BY <1>1, <1>2, <1>3 DEF Here, Settles
<1>4. StillIn(marks, marks')
  BY <1>1, <1>3 DEF StillIn
<1>5. Typed
  BY DEF FilesInv
<1>6. pc' = "idle"
  BY <1>1
<1> QED
  BY <1>1, <1>6, <1>4, <1>5, SameItself, LiveStays, StillHeld

\* A new bookmark takes none away.
LEMMA StarHeld ==
  ASSUME FilesInv, Waiting, LinkedHeld, Faults \cap DeletionFaults = {},
         NEW p \in Places, NEW settled \in BOOLEAN, Star(p, settled)
  PROVE  LinkedHeld'
<1>1. /\ pc = "idle" /\ UNCHANGED <<recs, server, pc, s, removed, lost>>
      /\ (\E m \in Mark : marks' = Append(marks, m)) \/ marks' = marks
  BY StarDoes DEF DeletionFaults
<1>2. Typed /\ marks \in Seq(Mark)
  BY DEF FilesInv, Typed
<1>3. \A i \in DOMAIN marks : i \in DOMAIN marks' /\ marks'[i] = marks[i]
  <2>1. CASE marks' = marks
    BY <2>1
  <2>2. CASE \E m \in Mark : marks' = Append(marks, m)
    <3>1. PICK m \in Mark : marks' = Append(marks, m)
      BY <2>2
    <3>2. Longer(marks', marks, m)
      BY <1>2, <3>1, AppendFile
    <3> QED BY <3>2, Zenon DEF Longer
  <2> QED BY <1>1, <2>1, <2>2
<1>4. StillIn(marks, marks')
  BY <1>1, <1>3, StayIn
<1>5. pc' = "idle"
  BY <1>1
<1> QED
  BY <1>1, <1>5, <1>2, <1>4, SameItself, LiveStays, StillHeld

\* One removed is of a place its reader has removed one from.
LEMMA UnstarHeld ==
  ASSUME FilesInv, Waiting, LinkedHeld, Faults \cap DeletionFaults = {},
         NEW u \in DOMAIN marks, Unstar(u)
  PROVE  LinkedHeld'
<1>1. /\ pc = "idle" /\ UNCHANGED <<recs, server, pc, s, lost>>
      /\ removed' = removed \cup {marks[u].pos}
      /\ marks' = Picked(marks, DOMAIN marks \ {u})
  BY UnstarDoes DEF DeletionFaults
<1>2. Typed /\ marks \in Seq(Mark)
  BY DEF FilesInv, Typed
<1> DEFINE in == DOMAIN marks \ {u}
<1>3. Shorter(marks', marks, in)
  BY <1>1, <1>2, PickedFile
<1> HIDE DEF in
<1>4. ASSUME NEW i \in DOMAIN server, server[i].state = "live", server[i].key # NoKey,
             server[i].pos \notin removed' \cup lost
      PROVE  Held(server[i].key, recs.list, marks')
  <2>1. Held(server[i].key, recs.list, marks)
    BY <1>1, <1>4 DEF LinkedHeld
  <2>2. PICK n \in DOMAIN recs.list : KeyOf(recs.list[n]) = server[i].key /\ Here(recs.list[n], marks)
    BY <2>1 DEF Held
  <2>3. PICK j \in DOMAIN marks : marks[j].ts = recs.list[n].ts /\ marks[j].settled
    BY <2>2 DEF Here
  <2>4. recs.list[n] \in Record /\ recs.list[n].ts # 0
    BY <1>2, SyncFields, ElementOfSeq DEF FilesInv, Stamped, AllStamped
  <2>5. server[i].pos = recs.list[n].pos
    BY <1>4, <2>2, <2>4, KeyFacts DEF Waiting
  <2>6. marks[j].pos = recs.list[n].pos
    BY <2>3, <2>4, SamePlace DEF FilesInv, Stamps
  <2>7. j \in in
    BY <1>1, <1>4, <2>5, <2>6 DEF in
  <2>8. PICK k \in DOMAIN marks' : marks'[k] = marks[j]
    BY <1>3, <2>7, Zenon DEF Shorter
  <2>9. Here(recs.list[n], marks')
    BY <2>3, <2>8 DEF Here
  <2> QED BY <2>2, <2>9 DEF Held
<1> QED
  BY <1>1, <1>4 DEF LinkedHeld

\* Every step, and none.
LEMMA NextHeld ==
  ASSUME FilesInv, AckInv, LinkedHeld, Written, KeysApart,
         Faults \cap DeletionFaults = {}, [Next]_vars
  PROVE  LinkedHeld'
<1> Typed /\ Retained /\ Waiting /\ Taken /\ Acked
  BY DEF FilesInv, AckInv
<1>1. SameBookmarks(server) /\ LiveFrom(server)
  BY SameItself, LiveStays
<1>2. ASSUME LiveFrom(server'), removed' = removed, marks' = marks,
             (recs'.list = recs.list /\ lost' = lost) \/ Noted(recs.list),
             pc' = "idle" \/ (pc # "idle" /\ s'.marks = s.marks) \/ (pc = "idle" /\ s'.marks = marks)
      PROVE  LinkedHeld'
  <2>1. StillIn(marks, marks') /\ StillIn(s.marks, s.marks) /\ lost \subseteq lost'
    BY <1>2, StayIn DEF Noted
  <2>2. pc' # "idle" => StillIn(IF pc = "idle" THEN marks ELSE s.marks, s'.marks)
    BY <1>2, <2>1
  <2> QED BY <1>2, <2>1, <2>2, StillHeld
<1>3. CASE UNCHANGED vars
  <2>1. /\ marks' = marks /\ recs' = recs /\ server' = server /\ pc' = pc /\ s' = s /\ removed' = removed /\ lost' = lost
    BY <1>3 DEF vars
  <2> QED BY <1>1, <1>2, <2>1
<1>4. CASE Begin
  BY <1>1, <1>2, <1>4, BeginDoes
<1>5. CASE Mint
  BY <1>5, MintHeld DEF DeletionFaults
<1>6. CASE Retain
  BY <1>6, RetainHeld DEF DeletionFaults
<1>7. CASE Exchange
  BY <1>7, ExchangeHeld DEF DeletionFaults
<1>8. CASE Pull
  <2>1. LiveFrom(server')
    BY <1>8, PullDoes, LiveStays
  <2>2. UNCHANGED <<marks, recs, removed, lost>> /\ pc = "pull" /\ s'.marks = s.marks
    BY <1>8, PullDoes
  <2> QED BY <1>2, <2>1, <2>2
<1>9. CASE Advance
  BY <1>1, <1>2, <1>9, AdvanceDoes DEF OnlyMarked
<1>10. CASE Apply
  <2>1. CASE ApplyDelete
    BY <2>1, ApplyDeleteHeld
  <2>2. CASE ApplyDuplicate \/ ApplyUnplaceable \/ ApplyLater
    BY <1>1, <1>2, <2>2, ApplyAnswerDoes, ApplyLaterDoes
  <2>3. CASE ApplyAdd
    BY <2>3, ApplyAddHeld
  <2> QED BY <1>10, <2>1, <2>2, <2>3 DEF Apply
<1>11. CASE Save
  <2>1. /\ pc = "apply" /\ pc' = "cover" /\ UNCHANGED <<recs, server, s, removed, lost>>
        /\ marks' = s.marks
    BY <1>11, SaveDoes DEF DeletionFaults
  <2> QED BY <2>1 DEF LinkedHeld
<1>12. CASE Cover
  BY <1>1, <1>2, <1>12, CoverDoes DEF OnlyMarked
<1>13. CASE Ack
  BY <1>13, AckHeld
<1>14. CASE Reader
  <2>1. CASE \E p \in Places \ Unplaceable, settled \in {TRUE, ~LateMarks} : Star(p, settled)
    <3>1. PICK p \in Places, settled \in BOOLEAN : Star(p, settled)
      BY <2>1, ConstantsAssumption
    <3> QED BY <3>1, StarHeld
  <2> QED BY <1>14, <2>1, UnstarHeld, SettleHeld DEF Reader
<1>15. CASE PowerCut
  BY <1>1, <1>2, <1>15, PowerCutDoes
<1>16. CASE ClearCache
  BY <1>16, ClearCacheDoes DEF DeletionFaults
<1>17. CASE Web
  <2>1. LiveFrom(server')
    BY <1>17, LiveStays DEF Web
  <2>2. UNCHANGED <<marks, recs, pc, s, removed, lost>>
    BY <1>17, WebAddDoes, WebDeleteDoes DEF Web
  <2> QED BY <1>2, <2>1, <2>2
<1> QED
  BY <1>3, <1>4, <1>5, <1>6, <1>7, <1>8, <1>9, <1>10, <1>11, <1>12, <1>13, <1>14, <1>15, <1>16,
     <1>17 DEF Next, SyncStep

-----------------------------------------------------------------------------
(* No two bookmarks of the server are one record.                          *)

\* Fewer live, fewer linked or deleted.
LEMMA ApartStays ==
  ASSUME KeysApart, DOMAIN server' = DOMAIN server,
         \A i \in DOMAIN server :
           /\ server'[i].key = server[i].key
           /\ server'[i].state = "live" => server[i].state = "live"
           /\ server'[i].state = "webDeleted" =>
                server[i].state \in {"live", "webDeleted"} \/ server[i].key = NoKey
  PROVE  KeysApart'
BY DEF KeysApart

\* A bookmark made on the web has no key yet.
LEMMA WebApart ==
  ASSUME Typed, Waiting, KeysApart, Web
  PROVE  KeysApart'
<1>1. ASSUME NEW p \in Places, WebAdd(p) PROVE KeysApart'
  <2>1. /\ \A i \in DOMAIN server : i \in DOMAIN server' /\ server'[i] = server[i]
        /\ \A j \in DOMAIN server' : j \notin DOMAIN server => server'[j].key = NoKey
    BY <1>1, WebAddDoes
  <2> QED BY <2>1 DEF KeysApart
<1>2. ASSUME NEW i \in DOMAIN server, WebDelete(i) PROVE KeysApart'
  <2>1. /\ server[i].state \in {"live", "parked"}
        /\ DOMAIN server' = DOMAIN server /\ server'[i].state = "webDeleted"
        /\ \A j \in DOMAIN server :
             /\ server'[j].pos = server[j].pos /\ server'[j].key = server[j].key
             /\ j # i => server'[j].state = server[j].state
    BY <1>2, WebDeleteDoes
  <2> QED BY <2>1, ApartStays DEF Waiting
<1> QED
  BY <1>1, <1>2 DEF Web

\* A record sent is linked to one bookmark, or makes one.
LEMMA AnswerApart ==
  ASSUME Typed, Waiting, KeysApart, server' = Answer
  PROVE  KeysApart'
<1> DEFINE q == Outgoing
           keys == {KeyOf(s.list[n]) : n \in DOMAIN s.list}
<1>1. q \in Seq(Record) /\ KeysComplete \in BOOLEAN
  BY OutgoingAre, SyncFields DEF KeysComplete
<1>2. AfterRequest(server', q, keys, KeysComplete)
  BY <1>1, ReceivedIs, Zenon DEF Answer
<1>3. \A n \in DOMAIN q : KeyOf(q[n]) # NoKey
  BY <1>1, ElementOfSeq, KeyFacts
<1>4. \A i \in DOMAIN server :
        Linked(q, i) # {} =>
          /\ Min(Linked(q, i)) \in Linked(q, i) /\ Min(Linked(q, i)) \in News(q)
          /\ server[i].state = "live" /\ server[i].key = NoKey
          /\ q[Min(Linked(q, i))].pos = server[i].pos
  BY <1>1, LinkedAre
<1>5. \A n \in Unlinked(q) : n \in News(q) /\ n \in DOMAIN q
  BY DEF Unlinked, News
<1>6. \A n \in News(q) : n \in DOMAIN q /\ \A i \in DOMAIN server : server[i].key # KeyOf(q[n])
  BY DEF News
<1>7. \A m, n \in News(q) : KeyOf(q[m]) = KeyOf(q[n]) => m = n
  BY <1>1, NewsApart
<1>8. \A i \in DOMAIN server, n \in Unlinked(q) : Linked(q, i) # {} => n # Min(Linked(q, i))
  BY DEF Unlinked
<1> HIDE DEF q, keys
<1>9. \A i \in DOMAIN server :
        /\ i \in DOMAIN server'
        /\ server'[i].state = "live" => server[i].state = "live"
        /\ server'[i].state = "webDeleted" => server[i].state = "webDeleted"
        /\ Linked(q, i) = {} => server'[i].key = server[i].key
        /\ Linked(q, i) # {} => server'[i].key = KeyOf(q[Min(Linked(q, i))])
  <2> SUFFICES ASSUME NEW i \in DOMAIN server
               PROVE  /\ i \in DOMAIN server'
                      /\ server'[i].state = server[i].state \/ server'[i].state = "deviceDeleted"
                      /\ Linked(q, i) = {} => server'[i].key = server[i].key
                      /\ Linked(q, i) # {} => server'[i].key = KeyOf(q[Min(Linked(q, i))])
    OBVIOUS
  <2> QED BY <1>2, Zenon DEF AfterRequest
<1>10. \A j \in DOMAIN server' \ DOMAIN server : \E n \in Unlinked(q) : server'[j].key = KeyOf(q[n])
  <2> SUFFICES ASSUME NEW j \in DOMAIN server', j \notin DOMAIN server
               PROVE  \E n \in Unlinked(q) : server'[j].key = KeyOf(q[n])
    OBVIOUS
  <2>1. PICK n \in Unlinked(q) : /\ server'[j].pos = q[n].pos /\ server'[j].key = KeyOf(q[n])
                                 /\ server'[j].state = "live"
    BY <1>2, Zenon DEF AfterRequest
  <2> QED BY <2>1
<1>11. \A i, j \in DOMAIN server' \ DOMAIN server : server'[i].key = server'[j].key => i = j
  BY <1>2, Zenon DEF AfterRequest
<1> SUFFICES ASSUME NEW i \in DOMAIN server', NEW j \in DOMAIN server', i # j,
                    server'[i].state = "live", server'[i].key # NoKey,
                    server'[j].state \in {"live", "webDeleted"},
                    server'[i].key = server'[j].key
             PROVE  FALSE
  BY DEF KeysApart
<1>12. CASE i \in DOMAIN server /\ j \in DOMAIN server
  <2>1. server[i].state = "live" /\ server[j].state \in {"live", "webDeleted"}
    BY <1>9, <1>12
  <2>2. CASE Linked(q, i) = {} /\ Linked(q, j) = {}
    BY <1>9, <1>12, <2>1, <2>2 DEF KeysApart
  <2>3. CASE Linked(q, i) = {} /\ Linked(q, j) # {}
    BY <1>4, <1>6, <1>9, <1>12, <2>3
  <2>4. CASE Linked(q, i) # {} /\ Linked(q, j) = {}
    BY <1>4, <1>6, <1>9, <1>12, <2>4
  <2>5. CASE Linked(q, i) # {} /\ Linked(q, j) # {}
    <3>1. Min(Linked(q, i)) = Min(Linked(q, j))
      BY <1>4, <1>7, <1>9, <1>12, <2>5
    <3>2. server[i].pos = server[j].pos /\ server[j].state = "live" /\ server[i].key = NoKey
      BY <1>4, <1>12, <2>5, <3>1
    <3> QED BY <1>12, <2>1, <3>2 DEF Waiting, Alone
  <2> QED BY <2>2, <2>3, <2>4, <2>5
<1>13. ASSUME NEW k \in DOMAIN server, NEW l \in DOMAIN server' \ DOMAIN server,
              server'[k].key = server'[l].key
       PROVE  FALSE
  <2>1. PICK n \in Unlinked(q) : server'[l].key = KeyOf(q[n])
    BY <1>10
  <2>2. CASE Linked(q, k) = {}
    BY <1>5, <1>6, <1>9, <1>13, <2>1, <2>2
  <2>3. CASE Linked(q, k) # {}
    BY <1>4, <1>5, <1>7, <1>8, <1>9, <1>13, <2>1, <2>3
  <2> QED BY <2>2, <2>3
<1> QED
  BY <1>11, <1>12, <1>13

\* An acknowledgment gives no bookmark the key of another of its place.
LEMMA AckApart ==
  ASSUME FilesInv, Waiting, Waiting', Taken, Acked, KeysApart,
         server' = Acknowledged(s.acks, s.dels)
  PROVE  KeysApart'
<1>1. TellsApart(server')
  BY ToldIs
<1>2. /\ DOMAIN server' = DOMAIN server
      /\ \A i \in DOMAIN server :
           /\ server'[i].pos = server[i].pos
           /\ server'[i].state \in {"live", "webDeleted"} => server'[i].state = server[i].state
           /\ server'[i].key # server[i].key => Alone(i)
  BY <1>1 DEF TellsApart
<1> SUFFICES ASSUME NEW i \in DOMAIN server', NEW j \in DOMAIN server', i # j,
                    server'[i].state = "live", server'[i].key # NoKey,
                    server'[j].state \in {"live", "webDeleted"},
                    server'[i].key = server'[j].key
             PROVE  FALSE
  BY DEF KeysApart
<1>3. /\ server[i].state = "live" /\ server[j].state \in {"live", "webDeleted"}
      /\ server[i].state = server'[i].state /\ server[j].state = server'[j].state
  BY <1>2
<1>4. server[i].pos = server[j].pos
  <2>1. \A k \in DOMAIN server' : server'[k].key # NoKey => server'[k].key[2] = server'[k].pos
    BY DEF Waiting
  <2> QED BY <1>2, <2>1
<1>5. CASE server'[i].key = server[i].key /\ server'[j].key = server[j].key
  <2>1. i \in DOMAIN server /\ j \in DOMAIN server
    BY <1>2
  <2>2. server[i].key = server[j].key /\ server[i].key # NoKey
    BY <1>5, Zenon
  <2> QED BY <1>3, <2>1, <2>2, Zenon DEF KeysApart
<1>6. CASE server'[j].key # server[j].key
  BY <1>2, <1>3, <1>4, <1>6 DEF Alone
<1>7. CASE server'[i].key # server[i].key /\ server'[j].key = server[j].key
  BY <1>2, <1>3, <1>4, <1>7 DEF Alone
<1> QED
  BY <1>5, <1>6, <1>7

\* Every step, and none.
LEMMA NextApart ==
  ASSUME FilesInv, AckInv, AckInv', KeysApart, [Next]_vars
  PROVE  KeysApart'
<1> Typed /\ Waiting /\ Waiting' /\ Taken /\ Acked
  BY DEF FilesInv, AckInv
<1>1. ASSUME SameBookmarks(server') PROVE KeysApart'
  BY <1>1, ApartStays DEF SameBookmarks
<1>2. SameBookmarks(server)
  BY SameItself
<1>3. CASE UNCHANGED vars
  BY <1>1, <1>2, <1>3 DEF vars
<1>4. CASE Exchange
  BY <1>1, <1>2, <1>4, ExchangeDoes, AnswerApart
<1>5. CASE Ack
  BY <1>1, <1>2, <1>5, AckDoes, AckApart
<1>6. CASE Pull
  BY <1>1, <1>6, PullDoes
<1>7. CASE Begin \/ Mint \/ Retain \/ Advance \/ Save \/ Cover
  BY <1>1, <1>2, <1>7, BeginDoes, MintDoes, RetainDoes, AdvanceDoes, SaveDoes, CoverDoes DEF FilesInv
<1>8. CASE Apply
  BY <1>1, <1>2, <1>8, ApplyDeleteDoes, ApplyAnswerDoes, ApplyLaterDoes, ApplyAddDoes DEF Apply
<1>9. CASE Reader
  <2>1. CASE \E p \in Places \ Unplaceable, settled \in {TRUE, ~LateMarks} : Star(p, settled)
    <3>1. PICK p \in Places, settled \in BOOLEAN : Star(p, settled)
      BY <2>1, ConstantsAssumption
    <3> QED BY <1>1, <1>2, <3>1, StarDoes
  <2> QED BY <1>1, <1>2, <1>9, <2>1, UnstarDoes, SettleDoes DEF Reader
<1>10. CASE Web
  BY <1>10, WebApart
<1>11. CASE PowerCut \/ ClearCache
  BY <1>1, <1>2, <1>11, PowerCutDoes, ClearCacheDoes
<1> QED
  BY <1>3, <1>4, <1>5, <1>6, <1>7, <1>8, <1>9, <1>10, <1>11 DEF Next, SyncStep

-----------------------------------------------------------------------------
(* What the server takes for deleted.                                      *)

\* A key that is missing from those sent is of a bookmark the reader removed.
LEMMA AnswerDeletes ==
  ASSUME Typed, LinkedHeld, DeletionsAreTheReaders, Within(recs.list, s.list),
         server' = Answer, UNCHANGED <<removed, lost>>
  PROVE  DeletionsAreTheReaders'
<1> DEFINE q == Outgoing
           keys == {KeyOf(s.list[n]) : n \in DOMAIN s.list}
<1>1. q \in Seq(Record) /\ KeysComplete \in BOOLEAN
  BY OutgoingAre, SyncFields DEF KeysComplete
<1>2. AfterRequest(server', q, keys, KeysComplete)
  BY <1>1, ReceivedIs, Zenon DEF Answer
<1>3. \A key, m : Held(key, recs.list, m) => key \in keys
  BY DEF Held, Within
<1> HIDE DEF q, keys
<1> SUFFICES ASSUME NEW i \in DOMAIN server', server'[i].state = "deviceDeleted"
             PROVE  server'[i].pos \in removed \cup lost
  BY DEF DeletionsAreTheReaders
<1>4. i \in DOMAIN server
  <2> SUFFICES ASSUME i \notin DOMAIN server PROVE FALSE
    OBVIOUS
  <2>1. PICK n \in Unlinked(q) : /\ server'[i].pos = q[n].pos /\ server'[i].key = KeyOf(q[n])
                                 /\ server'[i].state = "live"
    BY <1>2, Zenon DEF AfterRequest
  <2> QED BY <2>1
<1>5. /\ server'[i].pos = server[i].pos
      /\ \/ server[i].state = "deviceDeleted"
         \/ server[i].state = "live" /\ server[i].key \notin keys /\ server[i].key # NoKey
  <2>1. /\ server'[i].pos = server[i].pos
        /\ \/ server'[i].state = server[i].state
           \/ /\ server[i].state = "live" /\ server'[i].state = "deviceDeleted"
              /\ KeysComplete /\ server[i].key \notin keys /\ server[i].key # NoKey
    BY <1>2, <1>4, Zenon DEF AfterRequest
  <2> QED BY <2>1
<1> QED
  BY <1>3, <1>4, <1>5 DEF DeletionsAreTheReaders, LinkedHeld

\* What was lost of the file is not forgotten.
LEMMA LostStays ==
  ASSUME FilesInv, Begin \/ Mint \/ Retain \/ Advance \/ Apply \/ Save \/ Cover
  PROVE  lost \subseteq lost'
<1> Typed
  BY DEF FilesInv
<1>1. CASE Begin \/ Save
  BY <1>1, BeginDoes, SaveDoes
<1>2. CASE Mint
  BY <1>2, MintDoes DEF Noted
<1>3. CASE Retain
  BY <1>3, RetainDoes DEF Noted
<1>4. CASE Advance \/ Cover
  <2>1. OnlyMarked
    BY <1>4, AdvanceDoes, CoverDoes
  <2> QED BY <2>1 DEF OnlyMarked, Noted
<1>5. CASE Apply
  <2>1. CASE ApplyAdd
    BY <2>1, ApplyAddDoes DEF Noted
  <2>2. CASE ApplyDelete \/ ApplyDuplicate \/ ApplyUnplaceable \/ ApplyLater
    BY <2>2, ApplyDeleteDoes, ApplyAnswerDoes, ApplyLaterDoes
  <2> QED BY <1>5, <2>1, <2>2 DEF Apply
<1> QED
  BY <1>1, <1>2, <1>3, <1>4, <1>5

\* Every step, and none.
LEMMA NextDeletes ==
  ASSUME FilesInv, AckInv, DeletionInv, [Next]_vars
  PROVE  DeletionsAreTheReaders'
<1> /\ Typed /\ Waiting /\ Taken /\ Acked /\ LinkedHeld /\ DeletionsAreTheReaders
    /\ pc # "idle" => Within(recs.list, s.list)
  BY DEF FilesInv, Loaded, AckInv, DeletionInv
<1>1. ASSUME removed \subseteq removed', lost \subseteq lost',
             \A i \in DOMAIN server' :
               server'[i].state = "deviceDeleted" =>
                 /\ i \in DOMAIN server /\ server[i].state = "deviceDeleted"
                 /\ server'[i].pos = server[i].pos
      PROVE  DeletionsAreTheReaders'
  BY <1>1 DEF DeletionsAreTheReaders
<1>2. ASSUME removed \subseteq removed', lost \subseteq lost', SameBookmarks(server')
      PROVE  DeletionsAreTheReaders'
  BY <1>1, <1>2 DEF SameBookmarks
<1>3. SameBookmarks(server)
  BY SameItself
<1>4. CASE UNCHANGED vars
  BY <1>2, <1>3, <1>4 DEF vars
<1>5. CASE Exchange
  <2>1. /\ pc = "exchange" /\ UNCHANGED <<removed, lost>>
        /\ server' = server \/ server' = Answer
    BY <1>5, ExchangeDoes
  <2> QED BY <1>2, <1>3, <2>1, AnswerDeletes
<1>6. CASE Ack
  <2>1. UNCHANGED <<removed, lost>> /\ (server' = server \/ server' = Acknowledged(s.acks, s.dels))
    BY <1>6, AckDoes
  <2>2. CASE server' = Acknowledged(s.acks, s.dels)
    <3>1. TellsApart(server')
      BY <2>2, ToldIs
    <3> QED BY <1>1, <2>1, <3>1 DEF TellsApart
  <2> QED BY <1>2, <1>3, <2>1, <2>2
<1>7. CASE Pull
  BY <1>2, <1>7, PullDoes
<1>8. CASE Begin \/ Mint \/ Retain \/ Advance \/ Save \/ Cover
  <2>1. server' = server /\ removed' = removed
    BY <1>8, BeginDoes, MintDoes, RetainDoes, AdvanceDoes, SaveDoes, CoverDoes
  <2>2. lost \subseteq lost'
    BY <1>8, LostStays
  <2> QED BY <1>2, <1>3, <2>1, <2>2
<1>9. CASE Apply
  <2>1. server' = server /\ removed' = removed
    BY <1>9, ApplyDeleteDoes, ApplyAnswerDoes, ApplyLaterDoes, ApplyAddDoes DEF Apply
  <2>2. lost \subseteq lost'
    BY <1>9, LostStays
  <2> QED BY <1>2, <1>3, <2>1, <2>2
<1>10. CASE Reader
  <2>1. CASE \E p \in Places \ Unplaceable, settled \in {TRUE, ~LateMarks} : Star(p, settled)
    <3>1. PICK p \in Places, settled \in BOOLEAN : Star(p, settled)
      BY <2>1, ConstantsAssumption
    <3> QED BY <1>2, <1>3, <3>1, StarDoes
  <2>2. ASSUME NEW i \in DOMAIN marks, Unstar(i) PROVE DeletionsAreTheReaders'
    <3>1. server' = server /\ removed \subseteq removed' /\ lost' = lost
      BY <2>2, UnstarDoes
    <3> QED BY <1>2, <1>3, <3>1
  <2> QED BY <1>2, <1>3, <1>10, <2>1, <2>2, SettleDoes DEF Reader
<1>11. CASE Web
  <2>1. ASSUME NEW p \in Places, WebAdd(p) PROVE DeletionsAreTheReaders'
    <3>1. /\ UNCHANGED <<removed, lost>>
          /\ \A i \in DOMAIN server : i \in DOMAIN server' /\ server'[i] = server[i]
          /\ \A j \in DOMAIN server' : j \notin DOMAIN server => server'[j].state = "live"
      BY <2>1, WebAddDoes
    <3> QED BY <1>1, <3>1
  <2>2. ASSUME NEW i \in DOMAIN server, WebDelete(i) PROVE DeletionsAreTheReaders'
    <3>1. /\ UNCHANGED <<removed, lost>> /\ DOMAIN server' = DOMAIN server
          /\ server'[i].state = "webDeleted"
          /\ \A j \in DOMAIN server :
               /\ server'[j].pos = server[j].pos
               /\ j # i => server'[j].state = server[j].state
      BY <2>2, WebDeleteDoes
    <3> QED BY <1>1, <3>1
  <2> QED BY <1>11, <2>1, <2>2 DEF Web
<1>12. CASE PowerCut \/ ClearCache
  BY <1>2, <1>3, <1>12, PowerCutDoes, ClearCacheDoes
<1> QED
  BY <1>4, <1>5, <1>6, <1>7, <1>8, <1>9, <1>10, <1>11, <1>12 DEF Next, SyncStep

\* While no fault takes a record or a mark.
LEMMA NextDeletion ==
  ASSUME FilesInv, FilesInv', AckInv, AckInv', DeletionInv, Faults \cap DeletionFaults = {}, [Next]_vars
  PROVE  DeletionInv'
<1> LinkedHeld /\ KeysApart /\ Written
  BY DEF DeletionInv
<1>1. LinkedHeld'
  BY NextHeld
<1>2. KeysApart'
  BY NextApart
<1>3. DeletionsAreTheReaders'
  BY NextDeletes
<1>4. Written'
  BY NextWritten DEF DeletionFaults
<1> QED
  BY <1>1, <1>2, <1>3, <1>4 DEF DeletionInv

\* The server takes for deleted only what the reader removed, or what a write of the
\* record file lost (the complete key set of syncBookmarks, BookOrbitSyncExtras.cpp):
\* while no fault takes a bookmark or leaves a record without one, and none is made on
\* the web where the device has not heard of a deletion.  Whatever requests, answers,
\* acknowledgments and single records are lost, and whenever the power is, in the
\* middle of writing the record file too: then a bookmark whose record was lost gets a
\* second identity, and its first may be taken for deleted, but no other bookmark is.
THEOREM DeletionsAreAlwaysTheReaders ==
  ASSUME ~ReAdds, Faults \cap DeletionFaults = {}
  PROVE  Spec => []DeletionsAreTheReaders
<1>1. Init => AckInv /\ DeletionInv
  <2> SUFFICES ASSUME Init PROVE AckInv /\ DeletionInv
    OBVIOUS
  <2>1. DOMAIN server = {} /\ pc = "idle" /\ s = NoSync
    BY EmptySeq DEF Init
  <2>2. AckInv
    BY <2>1, NoSyncIs DEF AckInv, Retained, Waiting, Taken, Acked, Early
  <2>3. DeletionInv
    BY <2>1 DEF DeletionInv, LinkedHeld, Written, KeysApart, DeletionsAreTheReaders
  <2> QED BY <2>2, <2>3
<1>2. Faults \cap {"retain", "short", "open", "torn"} = {}
  BY DEF DeletionFaults
<1>3. FilesInv /\ AckInv /\ FilesInv' /\ [Next]_vars => AckInv'
  BY <1>2, NextAcked
<1>4. FilesInv /\ FilesInv' /\ AckInv /\ AckInv' /\ DeletionInv /\ [Next]_vars => DeletionInv'
  BY NextDeletion
<1>5. DeletionInv => DeletionsAreTheReaders
  BY DEF DeletionInv
<1> QED
  BY <1>1, <1>3, <1>4, <1>5, FilesAlwaysSound, PTL DEF Spec

=============================================================================
