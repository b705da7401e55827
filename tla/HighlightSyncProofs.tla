------------------------- MODULE HighlightSyncProofs -------------------------
(***************************************************************************)
(* For any passages, highlights and limits.  Under every fault the         *)
(* variables keep their types and a highlight is received once.  While     *)
(* retain() has not failed, nor a failing card cut the record file short   *)
(* (Trimmed), what the device acknowledges is on its card; while besides a *)
(* batch carries all records none is passed over; and where no file is cut *)
(* short by the power either, the server takes no highlight for deleted    *)
(* that the reader did not remove.                                         *)
(***************************************************************************)
EXTENDS HighlightSync, SubsequenceProofs

Change == [item : Nat, p : Passages, key : Nat \X Passages, deleted : BOOLEAN]
Sync == [marks : Seq(Mark), list : Seq(Record), before : BOOLEAN, watermark : Nat,
         next : Nat \ {0}, late : Nat, respelt : BOOLEAN, top : Nat, incoming : Seq(Change),
         round : Nat, more : BOOLEAN, here : SUBSET Nat, newest : Nat, applied : SUBSET Nat,
         dels : SUBSET Nat]

Typed ==
  /\ marks \in MarkFile /\ Len(marks.list) <= Capacity
  /\ recs \in RecordFile /\ now \in Nat /\ server \in Seq(Item)
  /\ pc \in Steps /\ s \in Sync /\ Len(s.marks) <= Capacity
  /\ faults \in Seq(FaultKinds) /\ edits \in 0 .. MaxEdits
  /\ removed \subseteq Passages /\ twice \subseteq Passages

-----------------------------------------------------------------------------
(* The files.                                                              *)

\* A highlight is named by its timestamp; one that was received was not here yet; and
\* a record is of one highlight.
OneEach(m) == \A i, j \in DOMAIN m : m[i].ts = m[j].ts => i = j
OnceEach(m) == \A i, j \in DOMAIN m : i < j /\ m[i].p = m[j].p => m[j].own
RefsApart(list) == \A i, j \in DOMAIN list : RefOf(list[i]) = RefOf(list[j]) => i = j

Sound ==
  /\ OneEach(marks.list) /\ OnceEach(marks.list)
  /\ OneEach(s.marks) /\ OnceEach(s.marks)
  /\ RefsApart(recs.list)

\* Until it applies changes a sync works on what the files hold.  What it applies
\* are changes to highlights the server has.
Early == {"mint", "exchange", "pull", "advance"}
Late == {"apply", "cover", "ack"}
Answered == {"pull", "advance"} \cup Late
Placed ==
  \A n \in DOMAIN s.incoming :
    s.incoming[n].item \in DOMAIN server /\ server[s.incoming[n].item].p = s.incoming[n].p
Loaded ==
  /\ pc = "idle" => s = NoSync
  /\ ~recs.here => DOMAIN recs.list = {}
  /\ pc \in Early =>
       /\ s.list = recs.list /\ s.marks = marks.list /\ s.watermark = recs.watermark
       /\ s.here = {} /\ s.applied = {}
  /\ pc \in {"mint", "exchange"} => DOMAIN s.incoming = {}
  /\ pc = "mint" => s.late > s.watermark
  /\ pc \in {"exchange", "pull", "advance"} => Refs(s.list) \subseteq Refs(s.marks)
  /\ pc \in {"cover", "ack"} => s.marks = marks.list
  /\ Placed /\ s.applied \subseteq DOMAIN server

FilesInv == Typed /\ Sound /\ Loaded

-----------------------------------------------------------------------------
(* What is acknowledged.                                                   *)

\* No other highlight of its passage is there, or owed to the device as deleted.
Alone(i) ==
  \A j \in DOMAIN server :
    j # i /\ server[j].p = server[i].p => server[j].state \in {"gone", "deviceDeleted"}
There(i) == server[i].state \in {"live", "webDeleted"}

\* A key is of its highlight's passage.
Keyed == \A i \in DOMAIN server : server[i].key[2] = server[i].p

ServerInv ==
  /\ \A i \in DOMAIN server : Waiting(i) => Alone(i)
  /\ \A i, j \in DOMAIN server : There(i) /\ There(j) /\ server[i].key = server[j].key => i = j

\* The records a deletion names; those still due; the first, by which it goes.
Dooms(n) == {m \in DOMAIN s.list : KeyOf(s.list[m]) = s.incoming[n].key}
Due == {n \in DOMAIN s.incoming : n >= s.next /\ s.incoming[n].deleted /\ Dooms(n) # {}}
Doomed(n) == s.list[Min(Dooms(n))]

\* A highlight of the passage that no deletion still due takes away.
Safe(p) == \E i \in DOMAIN s.marks : s.marks[i].p = p /\ \A n \in Due : Doomed(n).ts # s.marks[i].ts

\* A change received: a deletion is of a highlight deleted on the web; an addition's
\* passage has no other highlight, or a record here is known to the server for it.
Deleted(c) == server[c.item].state = "webDeleted" /\ server[c.item].key = c.key
Ours(c) == Alone(c.item) /\ c.key = server[c.item].key
Recorded(c) == \E m \in DOMAIN s.list : KeyOf(s.list[m]) = server[c.item].key
Wanted(c) == There(c.item) /\ (pc \in {"pull", "advance"} => Ours(c) \/ Recorded(c))
ItemsApart(q) == \A m, n \in DOMAIN q : q[m].item = q[n].item => m = n

Taken ==
  /\ ItemsApart(s.incoming)
  /\ \A n \in DOMAIN s.incoming :
       IF s.incoming[n].deleted THEN Deleted(s.incoming[n]) ELSE Wanted(s.incoming[n])

\* Deletions due each take a highlight of their own, and none that was acknowledged or
\* whose addition is yet to be.
Applied ==
  /\ pc = "apply" =>
       /\ \A n \in Due : RefOf(Doomed(n)) \in Refs(s.marks)
       /\ \A m, n \in Due : Doomed(m).ts = Doomed(n).ts => m = n
       /\ \A i \in s.applied : Safe(server[i].p)
       /\ \A n \in DOMAIN s.incoming :
            n >= s.next /\ ~s.incoming[n].deleted => Ours(s.incoming[n]) \/ Safe(s.incoming[n].p)
  /\ pc \in {"cover", "ack"} => \A i \in s.applied : server[i].p \in Marked(marks.list)

AckInv == Keyed /\ ServerInv /\ Taken /\ Applied

-----------------------------------------------------------------------------
(* What the watermark covers.                                              *)

\* No sync has more to send than a batch carries.
OneBatch == pc = "exchange" => Len(s.list) <= Batch

Known(items, p) == \E i \in DOMAIN items : items[i].p = p
Covered ==
  \A n \in DOMAIN recs.list :
    recs.list[n].id <= recs.watermark \/ pc \in Answered =>
      Known(server, recs.list[n].p)

-----------------------------------------------------------------------------
(* What is deleted.                                                        *)

\* A highlight is in the file, and is not being taken away; a record of this key is
\* of one that is.
Here(t, p) ==
  /\ <<t, p>> \in Refs(marks.list)
  /\ pc # "idle" => <<t, p>> \in Refs(s.marks)
Held(key) ==
  \E n \in DOMAIN recs.list :
    KeyOf(recs.list[n]) = key /\ Here(recs.list[n].ts, recs.list[n].p)
Shown(p) == \E t \in Nat : Here(t, p)

\* A highlight of the passage was deleted on the web, or is there and held here.
OffWeb(p) == \E i \in DOMAIN server : server[i].p = p /\ server[i].state \in {"webDeleted", "gone"}
HeldHere(i) == i \in DOMAIN server /\ server[i].state = "live" /\ Held(server[i].key)
Good(p) == OffWeb(p) \/ \E i \in DOMAIN server : server[i].p = p /\ HeldHere(i)
KnownKey(key) == \E i \in DOMAIN server : server[i].key = key

\* What the server took for deleted it still has from another; what it takes to be on
\* the device is; and it knows a record the watermark covers.
Excused ==
  \A i \in DOMAIN server :
    server[i].state = "deviceDeleted" /\ server[i].p \notin removed => Good(server[i].p)
OnDevice ==
  \A i \in DOMAIN server :
    server[i].state = "live" /\ server[i].delivered /\ server[i].p \notin removed =>
      OffWeb(server[i].p) \/ Shown(server[i].p)
Uploaded ==
  \A n \in DOMAIN recs.list :
    recs.list[n].p \notin removed /\ (recs.list[n].id <= recs.watermark \/ pc \in Answered) =>
      KnownKey(KeyOf(recs.list[n])) \/ Good(recs.list[n].p)

DeletionInv == Excused /\ OnDevice /\ Uploaded

-----------------------------------------------------------------------------
(* Keys, lists and timestamps.                                             *)

\* The sets of highlights and records hold what their fields say.
LEMMA FieldTypes ==
  /\ \A x \in Mark : x.ts \in Nat /\ x.p \in Passages /\ x.own \in BOOLEAN
  /\ \A x \in Record : x.ts \in Nat /\ x.id \in Nat /\ x.p \in Passages
  /\ \A ts \in Nat, p \in Passages, own \in BOOLEAN : [ts |-> ts, p |-> p, own |-> own] \in Mark
  /\ \A ts \in Nat, id \in Nat, p \in Passages : [ts |-> ts, id |-> id, p |-> p] \in Record
BY DEF Mark, Record

\* A record's key tells its identity and passage, its reference its timestamp and
\* passage.
LEMMA KeyFacts ==
  ASSUME NEW r \in Record
  PROVE  /\ KeyOf(r) \in Nat \X Passages /\ KeyOf(r)[2] = r.p
         /\ \A r2 \in Record : KeyOf(r2) = KeyOf(r) => r2.id = r.id /\ r2.p = r.p
BY FieldTypes DEF KeyOf

\* References tell timestamp and passage.
LEMMA RefFacts ==
  ASSUME NEW x, NEW y
  PROVE  RefOf(x) = RefOf(y) <=> x.ts = y.ts /\ x.p = y.p
BY DEF RefOf

\* A reference is in a list, or a passage, when something of that list has it.
LEMMA InRefs ==
  ASSUME NEW m
  PROVE  /\ \A x : RefOf(x) \in Refs(m) <=> \E i \in DOMAIN m : m[i].ts = x.ts /\ m[i].p = x.p
         /\ \A p : p \in Marked(m) <=> \E i \in DOMAIN m : m[i].p = p
         /\ \A t : t \in Stamps(m) <=> \E i \in DOMAIN m : m[i].ts = t
BY RefFacts DEF Refs, Marked, Stamps

\* What is true of a list's elements is true of those of a shorter one.
LEMMA ThinnedList ==
  ASSUME NEW q, NEW q2, NEW S, NEW g, Thins(g, q2, q, S), DOMAIN q \subseteq Nat, DOMAIN q2 \subseteq Nat
  PROVE  /\ \A k \in DOMAIN q2 : \E i \in DOMAIN q : i \in S /\ q2[k] = q[i]
         /\ \A i \in DOMAIN q : i \in S => \E k \in DOMAIN q2 : q2[k] = q[i]
         /\ OneEach(q) => OneEach(q2)
         /\ OnceEach(q) => OnceEach(q2)
         /\ RefsApart(q) => RefsApart(q2)
<1>1. /\ \A k \in DOMAIN q2 : g[k] \in DOMAIN q /\ g[k] \in S /\ q2[k] = q[g[k]]
      /\ \A j, k \in DOMAIN q2 : (j < k => g[j] < g[k]) /\ (g[j] = g[k] => j = k)
      /\ \A i \in DOMAIN q : i \in S => \E k \in DOMAIN q2 : g[k] = i
  BY Zenon DEF Thins
<1>2. OneEach(q) => OneEach(q2)
  <2> SUFFICES ASSUME OneEach(q), NEW i \in DOMAIN q2, NEW j \in DOMAIN q2, q2[i].ts = q2[j].ts
               PROVE  i = j
    BY DEF OneEach
  <2>1. g[i] \in DOMAIN q /\ g[j] \in DOMAIN q /\ q2[i] = q[g[i]] /\ q2[j] = q[g[j]]
    BY <1>1
  <2>2. q[g[i]].ts = q[g[j]].ts
    BY <2>1
  <2>3. g[i] = g[j]
    BY <2>1, <2>2, Zenon DEF OneEach
  <2> QED BY <1>1, <2>3
<1>3. OnceEach(q) => OnceEach(q2)
  <2> SUFFICES ASSUME OnceEach(q), NEW i \in DOMAIN q2, NEW j \in DOMAIN q2, i < j, q2[i].p = q2[j].p
               PROVE  q2[j].own
    BY DEF OnceEach
  <2>1. g[i] \in DOMAIN q /\ g[j] \in DOMAIN q /\ g[i] < g[j] /\ q2[i] = q[g[i]] /\ q2[j] = q[g[j]]
    BY <1>1
  <2>2. q[g[j]].own
    BY <2>1, Zenon DEF OnceEach
  <2> QED BY <2>1, <2>2
<1>4. RefsApart(q) => RefsApart(q2)
  <2> SUFFICES ASSUME RefsApart(q), NEW i \in DOMAIN q2, NEW j \in DOMAIN q2,
                      RefOf(q2[i]) = RefOf(q2[j])
               PROVE  i = j
    BY DEF RefsApart
  <2>1. g[i] \in DOMAIN q /\ g[j] \in DOMAIN q /\ q2[i] = q[g[i]] /\ q2[j] = q[g[j]]
    BY <1>1
  <2>2. RefOf(q[g[i]]) = RefOf(q[g[j]])
    BY <2>1
  <2>3. g[i] = g[j]
    BY <2>1, <2>2, Zenon DEF RefsApart
  <2> QED BY <1>1, <2>3
<1>5. \A k \in DOMAIN q2 : \E i \in DOMAIN q : i \in S /\ q2[k] = q[i]
  BY <1>1
<1>6. \A i \in DOMAIN q : i \in S => \E k \in DOMAIN q2 : q2[k] = q[i]
  BY <1>1
<1> QED
  BY <1>2, <1>3, <1>4, <1>5, <1>6

\* What a shorter list has.
Shorter(q2, q, S) ==
  /\ Len(q2) <= Len(q)
  /\ \A k \in DOMAIN q2 : \E i \in DOMAIN q : i \in S /\ q2[k] = q[i]
  /\ \A i \in DOMAIN q : i \in S => \E k \in DOMAIN q2 : q2[k] = q[i]
  /\ OneEach(q) => OneEach(q2)
  /\ OnceEach(q) => OnceEach(q2)
  /\ RefsApart(q) => RefsApart(q2)
  /\ (\A i \in DOMAIN q : i \in S) => q2 = q

\* Picked makes a shorter list.
LEMMA PickedFile ==
  ASSUME NEW T, NEW q \in Seq(T), NEW S
  PROVE  Picked(q, S) \in Seq(T) /\ Shorter(Picked(q, S), q, S)
<1> DEFINE q2 == Picked(q, S)
<1>1. /\ q2 \in Seq(T) /\ Len(q2) <= Len(q) /\ \E g : Thins(g, q2, q, S)
      /\ (\A i \in DOMAIN q : i \in S) => q2 = q
  BY PickedThins
<1> HIDE DEF q2
<1>2. PICK g : Thins(g, q2, q, S)
  BY <1>1
<1>3. DOMAIN q \subseteq Nat /\ DOMAIN q2 \subseteq Nat
  BY <1>1, LenProperties
<1>4. /\ \A k \in DOMAIN q2 : \E i \in DOMAIN q : i \in S /\ q2[k] = q[i]
      /\ \A i \in DOMAIN q : i \in S => \E k \in DOMAIN q2 : q2[k] = q[i]
      /\ OneEach(q) => OneEach(q2)
      /\ OnceEach(q) => OnceEach(q2)
      /\ RefsApart(q) => RefsApart(q2)
  BY <1>2, <1>3, ThinnedList
<1>5. Shorter(q2, q, S)
  BY <1>1, <1>4, Zenon DEF Shorter
<1> QED
  BY <1>1, <1>5, Zenon DEF q2

\* What a list cut short still has.
Remains(q2, q) ==
  /\ \A k \in DOMAIN q2 : \E i \in DOMAIN q : q2[k] = q[i]
  /\ RefsApart(q) => RefsApart(q2)

\* A list cut short.
LEMMA CutFile ==
  ASSUME NEW T, NEW q \in Seq(T), NEW n \in 0 .. Len(q)
  PROVE  SubSeq(q, 1, n) \in Seq(T) /\ Remains(SubSeq(q, 1, n), q)
<1> DEFINE q2 == SubSeq(q, 1, n)
<1>1. n \in Nat /\ n <= Len(q)
  BY LenProperties
<1>2. q2 \in Seq(T) /\ Len(q2) <= Len(q) /\ \E g : Thins(g, q2, q, 1 .. n)
  BY <1>1, BeginningThins
<1> HIDE DEF q2
<1>3. PICK g : Thins(g, q2, q, 1 .. n)
  BY <1>2
<1>4. DOMAIN q \subseteq Nat /\ DOMAIN q2 \subseteq Nat
  BY <1>2, LenProperties
<1> DEFINE S == 1 .. n
<1>5. Thins(g, q2, q, S)
  BY <1>3
<1> HIDE DEF S
<1>6. /\ \A k \in DOMAIN q2 : \E i \in DOMAIN q : i \in S /\ q2[k] = q[i]
      /\ \A i \in DOMAIN q : i \in S => \E k \in DOMAIN q2 : q2[k] = q[i]
      /\ OneEach(q) => OneEach(q2)
      /\ OnceEach(q) => OnceEach(q2)
      /\ RefsApart(q) => RefsApart(q2)
  BY <1>4, <1>5, ThinnedList
<1>7. Remains(q2, q)
  BY <1>6, Zenon DEF Remains
<1> QED
  BY <1>2, <1>7, Zenon DEF q2

\* A list with one more of a timestamp of its own; one received that was not here; one
\* of a reference of its own.
Longer(q2, q, x) ==
  /\ Grows(q2, q, x)
  /\ OneEach(q) /\ (\A i \in DOMAIN q : q[i].ts # x.ts) => OneEach(q2)
  /\ OnceEach(q) /\ (x.own \/ \A i \in DOMAIN q : q[i].p # x.p) => OnceEach(q2)
  /\ RefsApart(q) /\ (\A i \in DOMAIN q : RefOf(q[i]) # RefOf(x)) => RefsApart(q2)

\* Append makes a longer list.
LEMMA AppendFile ==
  ASSUME NEW T, NEW q \in Seq(T), NEW x \in T
  PROVE  Append(q, x) \in Seq(T) /\ Longer(Append(q, x), q, x)
<1> DEFINE q2 == Append(q, x)
           l == Len(q2)
<1>1. q2 \in Seq(T) /\ Grows(q2, q, x)
  BY AppendGrows
<1> HIDE DEF q2
<1>2. /\ \A i \in DOMAIN q : i \in DOMAIN q2 /\ q2[i] = q[i] /\ i < l
      /\ l \in DOMAIN q2 /\ l \notin DOMAIN q /\ q2[l] = x
      /\ \A i \in DOMAIN q2 : i \in DOMAIN q \/ i = l
  BY <1>1, Zenon DEF Grows
<1>3. l \in Nat /\ DOMAIN q \subseteq Nat
  BY <1>1, LenProperties
<1> HIDE DEF l
<1>4. OneEach(q) /\ (\A i \in DOMAIN q : q[i].ts # x.ts) => OneEach(q2)
  <2> SUFFICES ASSUME OneEach(q), \A i \in DOMAIN q : q[i].ts # x.ts,
                      NEW i \in DOMAIN q2, NEW j \in DOMAIN q2, q2[i].ts = q2[j].ts
               PROVE  i = j
    BY DEF OneEach
  <2>1. CASE i \in DOMAIN q /\ j \in DOMAIN q
    BY <1>2, <2>1, Zenon DEF OneEach
  <2>2. CASE i \in DOMAIN q /\ j = l
    BY <1>2, <2>2, Zenon
  <2>3. CASE i = l /\ j \in DOMAIN q
    BY <1>2, <2>3, Zenon
  <2> QED BY <1>2, <2>1, <2>2, <2>3, Zenon
<1>5. OnceEach(q) /\ (x.own \/ \A i \in DOMAIN q : q[i].p # x.p) => OnceEach(q2)
  <2> SUFFICES ASSUME OnceEach(q), x.own \/ \A i \in DOMAIN q : q[i].p # x.p,
                      NEW i \in DOMAIN q2, NEW j \in DOMAIN q2, i < j, q2[i].p = q2[j].p
               PROVE  q2[j].own
    BY DEF OnceEach
  <2>1. CASE i \in DOMAIN q /\ j \in DOMAIN q
    <3>1. q2[i] = q[i] /\ q2[j] = q[j]
      BY <1>2, <2>1, Zenon
    <3>2. q[i].p = q[j].p
      BY <3>1
    <3>3. q[j].own
      BY <2>1, <3>2, Zenon DEF OnceEach
    <3> QED BY <3>1, <3>3
  <2>2. CASE i \in DOMAIN q /\ j = l
    <3>1. q2[i] = q[i] /\ q2[j] = x
      BY <1>2, <2>2, Zenon
    <3> QED BY <2>2, <3>1
  <2>3. CASE i = l
    <3>1. j \in Nat /\ (j = l \/ j < l)
      BY <1>2, <1>3
    <3> QED BY <1>3, <2>3, <3>1
  <2> QED BY <1>2, <2>1, <2>2, <2>3, Zenon
<1>6. RefsApart(q) /\ (\A i \in DOMAIN q : RefOf(q[i]) # RefOf(x)) => RefsApart(q2)
  <2> SUFFICES ASSUME RefsApart(q), \A i \in DOMAIN q : RefOf(q[i]) # RefOf(x),
                      NEW i \in DOMAIN q2, NEW j \in DOMAIN q2, RefOf(q2[i]) = RefOf(q2[j])
               PROVE  i = j
    BY DEF RefsApart
  <2>1. CASE i \in DOMAIN q /\ j \in DOMAIN q
    BY <1>2, <2>1, Zenon DEF RefsApart
  <2>2. CASE i \in DOMAIN q /\ j = l
    BY <1>2, <2>2, Zenon
  <2>3. CASE i = l /\ j \in DOMAIN q
    BY <1>2, <2>3, Zenon
  <2> QED BY <1>2, <2>1, <2>2, <2>3, Zenon
<1>7. Longer(q2, q, x)
  BY <1>1, <1>4, <1>5, <1>6, Zenon DEF Longer
<1> QED
  BY <1>1, <1>7, Zenon DEF q2

\* Where the clock's second is taken there is a later one no highlight has.
LEMMA StampIs ==
  ASSUME NEW m \in Seq(Mark), NEW t \in Nat
  PROVE  Stamp(m, t) \in Nat /\ \A i \in DOMAIN m : m[i].ts # Stamp(m, t)
<1> DEFINE l == Len(m)
           free == {u \in t .. t + l : u \notin Stamps(m)}
<1>1. l \in Nat /\ DOMAIN m = 1 .. l
  BY LenProperties
<1> HIDE DEF l
<1>2. free # {}
  <2> SUFFICES ASSUME \A u \in t .. t + l : u \in Stamps(m) PROVE FALSE
    OBVIOUS
  <2> DEFINE f == [k \in 1 .. l + 1 |-> CHOOSE i \in 1 .. l : m[i].ts = t + k - 1]
  <2>1. ASSUME NEW k \in 1 .. l + 1 PROVE f[k] \in 1 .. l /\ m[f[k]].ts = t + k - 1
    <3> DEFINE u == t + k - 1
    <3>1. u \in t .. t + l
      BY <1>1
    <3> HIDE DEF u
    <3>2. \E i \in 1 .. l : m[i].ts = u
      BY <1>1, <3>1, InRefs
    <3>3. (CHOOSE i \in 1 .. l : m[i].ts = u) \in 1 .. l /\ m[CHOOSE i \in 1 .. l : m[i].ts = u].ts = u
      BY <3>2, Zenon
    <3> QED BY <3>3 DEF u
  <2>2. f \in [1 .. l + 1 -> 1 .. l]
    BY <2>1
  <2> HIDE DEF f
  <2>3. ASSUME NEW j \in 1 .. l + 1, NEW k \in 1 .. l + 1, f[j] = f[k] PROVE j = k
    <3>1. m[f[j]].ts = t + j - 1 /\ m[f[k]].ts = t + k - 1
      BY <2>1
    <3>2. t + j - 1 = t + k - 1
      BY <2>3, <3>1
    <3> QED BY <1>1, <3>2
  <2> DEFINE a == l + 1
  <2>4. a \in Nat /\ f \in [1 .. a -> 1 .. l] /\ \A j, k \in 1 .. a : f[j] = f[k] => j = k
    BY <1>1, <2>2, <2>3
  <2>5. a <= l
    <3> HIDE DEF a
    <3> QED BY <1>1, <2>4, NoMoreThan
  <2> QED BY <1>1, <2>5
<1> DEFINE first == Min(free)
<1>3. first \in free /\ \A u \in free : first <= u
  <2>1. free \in SUBSET Nat
    BY <1>1
  <2> QED BY <1>2, <2>1, MinOfSet
<1>4. ASSUME NEW v \in t .. first - 1 PROVE v \in Stamps(m)
  <2>1. first \in t .. t + l
    BY <1>3
  <2> HIDE DEF first
  <2>2. v \in t .. t + l /\ ~(first <= v)
    BY <1>1, <2>1
  <2> QED BY <1>3, <2>2
<1> DEFINE ok(u) == u \notin Stamps(m) /\ \A v \in t .. u - 1 : v \in Stamps(m)
<1>5. first \in t .. t + Len(m) /\ ok(first)
  BY <1>3, <1>4 DEF l
<1> HIDE DEF first, ok
<1>6. Stamp(m, t) = CHOOSE u \in t .. t + Len(m) : ok(u)
  BY DEF Stamp, ok
<1>7. Stamp(m, t) \in t .. t + Len(m) /\ ok(Stamp(m, t))
  BY <1>5, <1>6, Zenon
<1>8. Stamp(m, t) \in Nat
  BY <1>1, <1>7 DEF l
<1>9. Stamp(m, t) \notin Stamps(m)
  BY <1>7 DEF ok
<1> QED
  BY <1>8, <1>9, InRefs

-----------------------------------------------------------------------------
(* What goes out, and what the server makes of it.                         *)

\* What goes out are records above the watermark: all, if a batch carries them.
LEMMA OutgoingAre ==
  ASSUME Typed
  PROVE  /\ Outgoing \in Seq(Record)
         /\ \A k \in DOMAIN Outgoing : \E n \in DOMAIN s.list : Outgoing[k] = s.list[n]
         /\ Len(s.list) <= Batch =>
              \A n \in DOMAIN s.list :
                s.list[n].id > s.watermark /\ RefOf(s.list[n]) \in Refs(s.marks) =>
                  \E k \in DOMAIN Outgoing : Outgoing[k] = s.list[n]
<1>1. s.list \in Seq(Record) /\ s.watermark \in Nat
  BY DEF Typed, Sync
<1> DEFINE newer == {n \in DOMAIN s.list : /\ s.list[n].id > s.watermark
                                           /\ RefOf(s.list[n]) \in Refs(s.marks)}
           list == Picked(s.list, newer)
           size == Min({Len(list), Batch})
<1>2. /\ list \in Seq(Record) /\ Len(list) <= Len(s.list)
      /\ \A k \in DOMAIN list : \E n \in DOMAIN s.list : n \in newer /\ list[k] = s.list[n]
      /\ \A n \in DOMAIN s.list : n \in newer => \E k \in DOMAIN list : list[k] = s.list[n]
  <2> HIDE DEF newer
  <2>1. list \in Seq(Record) /\ Shorter(list, s.list, newer)
    BY <1>1, PickedFile
  <2> HIDE DEF list
  <2> QED BY <2>1, Zenon DEF Shorter
<1> HIDE DEF list
<1>3. Len(list) \in Nat /\ DOMAIN list = 1 .. Len(list) /\ Len(s.list) \in Nat /\ Batch \in Nat
  BY <1>1, <1>2, LenProperties, ConstantsAssumption
<1>4. size \in {Len(list), Batch} /\ size <= Len(list) /\ size <= Batch
  BY <1>3, OfTwo
<1> HIDE DEF size
<1>5. size \in Nat
  BY <1>3, <1>4
<1> DEFINE out == SubSeq(list, 1, size)
<1>6. Outgoing = out
  BY DEF Outgoing, out, size, list, newer
<1>7. out \in Seq(Record) /\ Len(out) = size /\ \A k \in 1 .. size : out[k] = list[k]
  BY <1>2, <1>4, <1>5, Beginning
<1> HIDE DEF out
<1>8. DOMAIN out = 1 .. size
  BY <1>7, LenProperties
<1>9. \A k \in DOMAIN out : k \in DOMAIN list /\ out[k] = list[k]
  <2>1. \A k \in 1 .. size : k \in 1 .. Len(list)
    <3> DEFINE l == Len(list)
    <3>1. l \in Nat
      BY <1>3
    <3>2. size <= l
      BY <1>4, Zenon
    <3> HIDE DEF l
    <3>3. \A k \in 1 .. size : k \in 1 .. l
      BY <1>5, <3>1, <3>2
    <3> QED BY <3>3, Zenon DEF l
  <2>2. \A k \in DOMAIN out : k \in 1 .. size
    BY <1>8
  <2>3. \A k \in DOMAIN out : k \in DOMAIN list
    BY <1>3, <2>1, <2>2
  <2> QED BY <1>7, <2>2, <2>3
<1>10. \A k \in DOMAIN out : \E n \in DOMAIN s.list : out[k] = s.list[n]
  BY <1>2, <1>9, SMTT(30)
<1>11. ASSUME Len(s.list) <= Batch, NEW n \in DOMAIN s.list, s.list[n].id > s.watermark,
              RefOf(s.list[n]) \in Refs(s.marks)
       PROVE  \E k \in DOMAIN out : out[k] = s.list[n]
  <2>1. n \in newer
    BY <1>11
  <2> HIDE DEF newer
  <2>2. PICK k \in DOMAIN list : list[k] = s.list[n]
    BY <1>2, <2>1
  <2>3. size = Len(list)
    BY <1>2, <1>3, <1>4, <1>11, ConstantsAssumption
  <2>4. k \in DOMAIN out
    BY <1>3, <1>8, <2>3
  <2> QED BY <1>9, <2>2, <2>4
<1> QED
  BY <1>6, <1>7, <1>10, <1>11, Zenon

\* What the server keeps of a highlight.
ItemStates == {"live", "webDeleted", "deviceDeleted", "gone"}
LEMMA ItemFields ==
  /\ \A x \in Item : /\ x.p \in Passages /\ x.key \in Nat \X Passages /\ x.web \in BOOLEAN
                     /\ x.ready \in BOOLEAN /\ x.delivered \in BOOLEAN /\ x.state \in ItemStates
  /\ \A p \in Passages, key \in Nat \X Passages, web, ready, delivered \in BOOLEAN, state \in ItemStates :
       [p |-> p, key |-> key, web |-> web, ready |-> ready, delivered |-> delivered,
        state |-> state] \in Item
<1>1. Item = [p : Passages, key : Nat \X Passages, web : BOOLEAN, ready : BOOLEAN,
              delivered : BOOLEAN, state : ItemStates]
  BY DEF Item, ItemStates
<1> HIDE DEF ItemStates
<1> QED
  BY <1>1

\* Which entries are taken for a waiting highlight.
LEMMA LinkedAre ==
  ASSUME NEW entries \in Seq(Record), NEW i \in DOMAIN server
  PROVE  /\ \A n \in Linked(entries, i) :
              n \in News(entries) /\ n \in DOMAIN entries /\ entries[n].p = server[i].p
         /\ Linked(entries, i) # {} =>
              /\ Waiting(i)
              /\ Min(Linked(entries, i)) \in Linked(entries, i)
         /\ ~Waiting(i) => Linked(entries, i) = {}
<1>1. Linked(entries, i) \in SUBSET (DOMAIN entries)
  BY DEF Linked, News
<1>2. Linked(entries, i) # {} => Min(Linked(entries, i)) \in Linked(entries, i)
  BY <1>1, FirstOf
<1>3. Linked(entries, i) # {} => Waiting(i)
  BY DEF Linked
<1>4. \A n \in Linked(entries, i) : n \in News(entries) /\ entries[n].p = server[i].p
  BY DEF Linked
<1> QED
  BY <1>1, <1>2, <1>3, <1>4

\* What the server makes of a highlight it had.
LEMMA HeardIs ==
  ASSUME Typed, NEW entries \in Seq(Record), NEW keys, NEW complete \in BOOLEAN,
         NEW i \in DOMAIN server, NEW h, h = Heard(entries, keys, complete, i)
  PROVE  /\ h \in Item /\ h.p = server[i].p
         /\ h.state = IF /\ server[i].state = "live" /\ complete
                         /\ server[i].delivered /\ server[i].key \notin keys THEN "deviceDeleted"
                      ELSE server[i].state
         /\ h.key = IF Linked(entries, i) = {} THEN server[i].key
                    ELSE KeyOf(entries[Min(Linked(entries, i))])
         /\ h.delivered <=> server[i].delivered \/ Linked(entries, i) # {} \/ server[i].key \in keys
<1> DEFINE k == IF Linked(entries, i) = {} THEN server[i].key
                ELSE KeyOf(entries[Min(Linked(entries, i))])
           st == IF /\ server[i].state = "live" /\ complete
                    /\ server[i].delivered /\ server[i].key \notin keys THEN "deviceDeleted"
                 ELSE server[i].state
           d == server[i].delivered \/ Linked(entries, i) # {} \/ server[i].key \in keys
           x == server[i]
<1>1. x \in Item
  BY ElementOfSeq DEF Typed
<1>2. st \in ItemStates
  BY <1>1, ItemFields DEF ItemStates
<1>3. k \in Nat \X Passages
  <2>1. CASE Linked(entries, i) = {}
    BY <1>1, <2>1, ItemFields
  <2>2. CASE Linked(entries, i) # {}
    <3>1. Min(Linked(entries, i)) \in DOMAIN entries
      BY <2>2, LinkedAre
    <3>2. entries[Min(Linked(entries, i))] \in Record
      BY <3>1, ElementOfSeq
    <3> QED BY <2>2, <3>2, KeyFacts
  <2> QED BY <2>1, <2>2
<1>4. h = [x EXCEPT !.ready = TRUE, !.delivered = d, !.key = k, !.state = st]
  BY <1>1 DEF Heard, Item
<1>5. d \in BOOLEAN
  BY <1>1, ItemFields
<1>6. d <=> server[i].delivered \/ Linked(entries, i) # {} \/ server[i].key \in keys
  OBVIOUS
<1> HIDE DEF k, st, x, d
<1>7. Item = [p : Passages, key : Nat \X Passages, web : BOOLEAN, ready : BOOLEAN,
              delivered : BOOLEAN, state : ItemStates]
  BY DEF Item, ItemStates
<1> HIDE DEF ItemStates
<1>8. h \in Item /\ h.p = x.p /\ h.key = k /\ h.state = st /\ h.delivered = d
  BY <1>1, <1>2, <1>3, <1>4, <1>5, <1>7
<1>9. h.delivered <=> server[i].delivered \/ Linked(entries, i) # {} \/ server[i].key \in keys
  BY <1>6, <1>8
<1> QED
  BY <1>8, <1>9 DEF k, st, x

\* What the server makes of an entry of its own.
LEMMA MadeIs ==
  ASSUME NEW r \in Record
  PROVE  /\ Made(r) \in Item /\ Made(r).p = r.p /\ Made(r).key = KeyOf(r)
         /\ Made(r).state = "live" /\ Made(r).delivered
<1>1. r.p \in Passages /\ KeyOf(r) \in Nat \X Passages
  BY FieldTypes, KeyFacts
<1>2. "live" \in ItemStates
  BY DEF ItemStates
<1> HIDE DEF KeyOf
<1> QED
  BY <1>1, <1>2, ItemFields DEF Made

\* Entries the server does not know differ in their keys.
LEMMA NewsApart ==
  ASSUME NEW entries \in Seq(Record), NEW m \in News(entries), NEW n \in News(entries),
         KeyOf(entries[m]) = KeyOf(entries[n])
  PROVE  m = n
<1>1. \A j \in News(entries) : j \in Nat \ {0}
  BY LenProperties DEF News
<1>2. ASSUME NEW j \in News(entries), NEW k \in News(entries), j < k
      PROVE  KeyOf(entries[j]) # KeyOf(entries[k])
  <2>1. j \in 1 .. k - 1
    BY <1>1, <1>2
  <2> QED BY <2>1 DEF News
<1> QED
  BY <1>1, <1>2

\* Every entry's key has become known: it was, or was taken from an entry like it.
LEMMA NewsCover ==
  ASSUME NEW entries \in Seq(Record), NEW n \in DOMAIN entries
  PROVE  \/ \E i \in DOMAIN server : server[i].key = KeyOf(entries[n])
         \/ \E m \in News(entries) : KeyOf(entries[m]) = KeyOf(entries[n])
<1> DEFINE same == {m \in DOMAIN entries : KeyOf(entries[m]) = KeyOf(entries[n])}
           m == Min(same)
<1>1. same \in SUBSET (DOMAIN entries) /\ same # {}
  OBVIOUS
<1>2. m \in same /\ \A j \in same : m <= j /\ j \in Nat
  BY <1>1, FirstOf
<1> HIDE DEF m
<1>3. ASSUME NEW j \in 1 .. m - 1 PROVE KeyOf(entries[j]) # KeyOf(entries[m])
  <2>1. m \in 1 .. Len(entries) /\ Len(entries) \in Nat /\ DOMAIN entries = 1 .. Len(entries)
    BY <1>2, LenProperties
  <2>2. j \in DOMAIN entries /\ ~(m <= j)
    BY <2>1
  <2> QED BY <1>2, <2>2
<1>4. \/ \E i \in DOMAIN server : server[i].key = KeyOf(entries[m])
      \/ m \in News(entries)
  BY <1>2, <1>3 DEF News
<1> QED
  BY <1>2, <1>4

\* What there is to know of the server after a request.
AfterRequest(next, entries, keys, complete) ==
  /\ next \in Seq(Item)
  /\ \A i \in DOMAIN server : i \in DOMAIN next /\ next[i].p = server[i].p
  /\ \A i \in DOMAIN server :
       \/ next[i].state = server[i].state
       \/ /\ server[i].state = "live" /\ next[i].state = "deviceDeleted"
          /\ complete /\ server[i].delivered /\ server[i].key \notin keys
  /\ \A i \in DOMAIN server :
       next[i].delivered <=>
         server[i].delivered \/ Linked(entries, i) # {} \/ server[i].key \in keys
  /\ \A i \in DOMAIN server : Linked(entries, i) = {} => next[i].key = server[i].key
  /\ \A i \in DOMAIN server :
       Linked(entries, i) # {} => next[i].key = KeyOf(entries[Min(Linked(entries, i))])
  /\ \A j \in DOMAIN next :
       j \notin DOMAIN server =>
         \E n \in Unlinked(entries) :
           /\ next[j].p = entries[n].p /\ next[j].key = KeyOf(entries[n])
           /\ next[j].state = "live" /\ next[j].delivered
  /\ \A j, k \in DOMAIN next :
       j \notin DOMAIN server /\ k \notin DOMAIN server /\ next[j].key = next[k].key => j = k
  /\ \A n \in Unlinked(entries) : \E j \in DOMAIN next : next[j].key = KeyOf(entries[n])

\* The server after a request.
LEMMA ReceivedIs ==
  ASSUME Typed, NEW entries \in Seq(Record), NEW keys, NEW complete \in BOOLEAN,
         NEW next, next = Received(entries, keys, complete)
  PROVE  AfterRequest(next, entries, keys, complete)
<1> DEFINE own == Picked(entries, Unlinked(entries))
           old(i) == Heard(entries, keys, complete, i)
           olds == [i \in DOMAIN server |-> old(i)]
           news == [n \in DOMAIN own |-> Made(own[n])]
<1>1. next = olds \o news
  BY DEF Received
<1>2. own \in Seq(Record) /\ \E f : Placing(f, own, entries, Unlinked(entries), Len(entries))
  BY PickedPlaces
<1> HIDE DEF own
<1>3. PICK f : Placing(f, own, entries, Unlinked(entries), Len(entries))
  BY <1>2
<1>4. /\ server \in Seq(Item) /\ Len(server) \in Nat /\ DOMAIN server = 1 .. Len(server)
      /\ Len(own) \in Nat /\ DOMAIN own = 1 .. Len(own)
      /\ Len(entries) \in Nat /\ DOMAIN entries = 1 .. Len(entries)
  BY <1>2, LenProperties DEF Typed
<1>5. \A i \in DOMAIN server : old(i) \in Item
  BY <1>4, HeardIs, ElementOfSeq
<1>6. \A n \in DOMAIN own : own[n] \in Record /\ Made(own[n]) \in Item
  BY <1>2, ElementOfSeq, MadeIs
<1> HIDE DEF old
<1>7. olds \in Seq(Item) /\ Len(olds) = Len(server) /\ \A i \in DOMAIN server : olds[i] = old(i)
  BY <1>4, <1>5, FunctionIsList
<1>8. news \in Seq(Item) /\ Len(news) = Len(own) /\ \A n \in DOMAIN own : news[n] = Made(own[n])
  BY <1>4, <1>6, FunctionIsList
<1> HIDE DEF olds, news
<1> DEFINE ls == Len(server)
           lo == Len(own)
<1>9. /\ next \in Seq(Item) /\ Len(next) = ls + lo
      /\ \A i \in 1 .. ls + lo : next[i] = IF i <= ls THEN olds[i] ELSE news[i - ls]
  <2>1. /\ olds \o news \in Seq(Item) /\ Len(olds \o news) = Len(olds) + Len(news)
        /\ \A i \in 1 .. Len(olds) + Len(news) :
             (olds \o news)[i] = IF i <= Len(olds) THEN olds[i] ELSE news[i - Len(olds)]
    BY <1>7, <1>8, ConcatProperties
  <2> QED BY <1>1, <1>7, <1>8, <2>1
<1>10. ls \in Nat /\ lo \in Nat /\ DOMAIN next = 1 .. ls + lo /\ DOMAIN server = 1 .. ls /\ DOMAIN own = 1 .. lo
  BY <1>4, <1>9, LenProperties
<1> HIDE DEF ls, lo
<1>11. \A i \in DOMAIN server : i \in DOMAIN next /\ next[i] = old(i)
  BY <1>7, <1>9, <1>10
<1>12. \A n \in DOMAIN own : ls + n \in DOMAIN next /\ next[ls + n] = Made(own[n])
  BY <1>8, <1>9, <1>10, SMTT(30)
<1>13. \A j \in DOMAIN next : j \notin DOMAIN server => j - ls \in DOMAIN own /\ next[j] = Made(own[j - ls])
  BY <1>8, <1>9, <1>10
<1>14. /\ \A k \in DOMAIN own : f[k] \in DOMAIN entries /\ f[k] \in Unlinked(entries) /\ own[k] = entries[f[k]]
       /\ \A i \in DOMAIN entries : i \in Unlinked(entries) => \E k \in DOMAIN own : f[k] = i
       /\ \A j, k \in DOMAIN own : j < k => f[j] < f[k]
  <2>1. /\ \A k \in 1 .. Len(own) : f[k] \in 1 .. Len(entries) /\ f[k] \in Unlinked(entries) /\ own[k] = entries[f[k]]
        /\ \A i \in 1 .. Len(entries) : i \in Unlinked(entries) => \E k \in 1 .. Len(own) : f[k] = i
        /\ \A j, k \in 1 .. Len(own) : j < k => f[j] < f[k]
    BY <1>3 DEF Placing
  <2> QED BY <1>4, <2>1
<1>15. ASSUME NEW i \in DOMAIN server
       PROVE  /\ i \in DOMAIN next /\ next[i].p = server[i].p
              /\ \/ next[i].state = server[i].state
                 \/ /\ server[i].state = "live" /\ next[i].state = "deviceDeleted"
                    /\ complete /\ server[i].delivered /\ server[i].key \notin keys
              /\ next[i].delivered <=>
                   server[i].delivered \/ Linked(entries, i) # {} \/ server[i].key \in keys
              /\ Linked(entries, i) = {} => next[i].key = server[i].key
              /\ Linked(entries, i) # {} => next[i].key = KeyOf(entries[Min(Linked(entries, i))])
  <2>1. next[i] = Heard(entries, keys, complete, i) /\ i \in DOMAIN next
    BY <1>11 DEF old
  <2> DEFINE h == next[i]
  <2>2. /\ h \in Item /\ h.p = server[i].p
        /\ h.state = IF /\ server[i].state = "live" /\ complete
                        /\ server[i].delivered /\ server[i].key \notin keys THEN "deviceDeleted"
                     ELSE server[i].state
        /\ h.key = IF Linked(entries, i) = {} THEN server[i].key
                   ELSE KeyOf(entries[Min(Linked(entries, i))])
        /\ h.delivered <=> server[i].delivered \/ Linked(entries, i) # {} \/ server[i].key \in keys
    BY <2>1, HeardIs
  <2> HIDE DEF h
  <2>3. /\ \/ h.state = server[i].state
           \/ /\ server[i].state = "live" /\ h.state = "deviceDeleted"
              /\ complete /\ server[i].delivered /\ server[i].key \notin keys
        /\ Linked(entries, i) = {} => h.key = server[i].key
        /\ Linked(entries, i) # {} => h.key = KeyOf(entries[Min(Linked(entries, i))])
    BY <2>2
  <2> QED BY <2>1, <2>2, <2>3, Zenon DEF h
<1>16. ASSUME NEW j \in DOMAIN next, j \notin DOMAIN server
       PROVE  \E n \in Unlinked(entries) :
                /\ next[j].p = entries[n].p /\ next[j].key = KeyOf(entries[n])
                /\ next[j].state = "live" /\ next[j].delivered
  <2> DEFINE k == j - ls
  <2>1. k \in DOMAIN own /\ next[j] = Made(own[k])
    BY <1>13, <1>16
  <2> HIDE DEF k
  <2>2. own[k] \in Record /\ f[k] \in Unlinked(entries) /\ own[k] = entries[f[k]]
    BY <1>6, <1>14, <2>1
  <2>3. next[j].p = own[k].p /\ next[j].key = KeyOf(own[k]) /\ next[j].state = "live" /\ next[j].delivered
    BY <2>1, <2>2, MadeIs
  <2> QED BY <2>2, <2>3
<1>17. ASSUME NEW j \in DOMAIN next, NEW k \in DOMAIN next, j \notin DOMAIN server,
              k \notin DOMAIN server, next[j].key = next[k].key
       PROVE  j = k
  <2> DEFINE a == j - ls
             b == k - ls
  <2>1. a \in DOMAIN own /\ next[j] = Made(own[a]) /\ b \in DOMAIN own /\ next[k] = Made(own[b])
    BY <1>13, <1>17
  <2>2. a = b => j = k
    BY <1>10
  <2> HIDE DEF a, b
  <2>3. /\ own[a] \in Record /\ f[a] \in Unlinked(entries) /\ own[a] = entries[f[a]]
        /\ own[b] \in Record /\ f[b] \in Unlinked(entries) /\ own[b] = entries[f[b]]
        /\ f[a] \in Nat /\ f[b] \in Nat
    BY <1>4, <1>6, <1>14, <2>1
  <2>4. KeyOf(entries[f[a]]) = KeyOf(entries[f[b]])
    BY <1>17, <2>1, <2>3, MadeIs
  <2>5. f[a] \in News(entries) /\ f[b] \in News(entries)
    BY <2>3 DEF Unlinked
  <2>6. f[a] = f[b]
    BY <2>3, <2>4, <2>5, NewsApart
  <2>7. ~(a < b) /\ ~(b < a)
    BY <1>14, <2>1, <2>3, <2>6
  <2>8. a = b
    BY <1>10, <2>1, <2>7
  <2> QED BY <2>2, <2>8
<1>18. ASSUME NEW n \in Unlinked(entries)
       PROVE  \E j \in DOMAIN next : next[j].key = KeyOf(entries[n])
  <2>1. n \in DOMAIN entries
    BY DEF Unlinked, News
  <2>2. PICK k \in DOMAIN own : f[k] = n
    BY <1>14, <2>1
  <2>3. own[k] = entries[n] /\ own[k] \in Record
    BY <1>6, <1>14, <2>2
  <2>4. ls + k \in DOMAIN next /\ next[ls + k].key = KeyOf(entries[n])
    BY <1>12, <2>3, MadeIs
  <2> QED BY <2>4
<1> QED
  BY <1>9, <1>15, <1>16, <1>17, <1>18, Zenon DEF AfterRequest

\* The server has the highlights it had.
SameHighlights(next) ==
  /\ next \in Seq(Item) /\ DOMAIN next = DOMAIN server
  /\ \A i \in DOMAIN server :
       /\ next[i].p = server[i].p /\ next[i].state = server[i].state
       /\ next[i].key = server[i].key /\ (next[i].delivered <=> server[i].delivered)

\* A request without records brings no highlight, and without keys no deletion.
LEMMA ReceivedNone ==
  ASSUME Typed, NEW none \in Seq(Record), DOMAIN none = {}, NEW keys, \A x : x \notin keys,
         NEW complete \in BOOLEAN, ~complete, NEW next, next = Received(none, keys, complete)
  PROVE  SameHighlights(next)
<1>1. News(none) = {}
  BY DEF News
<1>2. (\A i \in DOMAIN server : Linked(none, i) = {}) /\ Unlinked(none) = {}
  BY <1>1 DEF Linked, Unlinked
<1>3. AfterRequest(next, none, keys, complete)
  BY ReceivedIs
<1>4. next \in Seq(Item) /\ \A i \in DOMAIN server : i \in DOMAIN next /\ next[i].p = server[i].p
  BY <1>3 DEF AfterRequest
<1>5. \A i \in DOMAIN server : next[i].state = server[i].state
  BY <1>3 DEF AfterRequest
<1>6. \A i \in DOMAIN server : next[i].key = server[i].key
  BY <1>2, <1>3, Zenon DEF AfterRequest
<1>7. \A i \in DOMAIN server : next[i].delivered <=> server[i].delivered
  <2>1. \A i \in DOMAIN server :
          next[i].delivered <=>
            server[i].delivered \/ Linked(none, i) # {} \/ server[i].key \in keys
    BY <1>3, Zenon DEF AfterRequest
  <2> QED BY <1>2, <2>1, Zenon
<1>8. \A j \in DOMAIN next : j \in DOMAIN server
  BY <1>2, <1>3, Zenon DEF AfterRequest
<1>9. DOMAIN next = DOMAIN server
  BY <1>4, <1>8
<1> QED
  BY <1>4, <1>5, <1>6, <1>7, <1>9, Zenon DEF SameHighlights

\* Nor does one without either.
LEMMA ReceivedNothing ==
  ASSUME Typed, NEW next, next = Received(<<>>, {}, FALSE)
  PROVE  SameHighlights(next)
<1> DEFINE none == <<>>
           keys == {}
           complete == FALSE
<1>1. /\ none \in Seq(Record) /\ DOMAIN none = {} /\ complete \in BOOLEAN /\ ~complete
      /\ \A x : x \notin keys
  BY EmptySeq
<1>2. next = Received(none, keys, complete)
  OBVIOUS
<1> HIDE DEF none, keys, complete
<1> QED
  BY <1>1, <1>2, ReceivedNone, Zenon

\* What the server makes of an acknowledgment.
LEMMA AcknowledgedIs ==
  ASSUME Typed, NEW applied, NEW dels, NEW next, next = Acknowledged(applied, dels)
  PROVE  /\ next \in Seq(Item) /\ DOMAIN next = DOMAIN server
         /\ \A i \in DOMAIN server :
              /\ next[i].p = server[i].p /\ next[i].key = server[i].key
              /\ \/ i \in dels /\ next[i].state = "gone"
                 \/ i \notin dels /\ next[i].state = server[i].state
              /\ i \notin dels =>
                   (next[i].delivered <=> server[i].delivered \/ i \in applied)
<1>1. server \in Seq(Item) /\ Len(server) \in Nat /\ DOMAIN server = 1 .. Len(server)
  BY LenProperties DEF Typed
<1>2. next = [i \in DOMAIN server |-> Told(applied, dels, i)]
  BY DEF Acknowledged
<1>3. ASSUME NEW i \in DOMAIN server, NEW h, h = Told(applied, dels, i)
      PROVE  /\ h \in Item /\ h.p = server[i].p /\ h.key = server[i].key
             /\ \/ i \in dels /\ h.state = "gone"
                \/ i \notin dels /\ h.state = server[i].state
             /\ i \notin dels => (h.delivered <=> server[i].delivered \/ i \in applied)
  <2> DEFINE x == server[i]
             d == server[i].delivered \/ i \in applied
  <2>1. x \in Item
    BY <1>1, ElementOfSeq
  <2>2. h = IF i \in dels THEN [x EXCEPT !.state = "gone"] ELSE [x EXCEPT !.delivered = d]
    BY <1>3, <2>1 DEF Told, Item
  <2>3. d \in BOOLEAN /\ (d <=> server[i].delivered \/ i \in applied)
    BY <2>1, ItemFields
  <2>4. "gone" \in ItemStates
    BY DEF ItemStates
  <2> HIDE DEF x, d
  <2>5. Item = [p : Passages, key : Nat \X Passages, web : BOOLEAN, ready : BOOLEAN,
                delivered : BOOLEAN, state : ItemStates]
    BY DEF Item, ItemStates
  <2> HIDE DEF ItemStates
  <2>6. CASE i \in dels
    <3>1. h = [x EXCEPT !.state = "gone"]
      BY <2>2, <2>6
    <3>2. h \in Item /\ h.p = x.p /\ h.key = x.key /\ h.state = "gone"
      BY <2>1, <2>4, <2>5, <3>1
    <3> QED BY <2>6, <3>2 DEF x
  <2>7. CASE i \notin dels
    <3>1. h = [x EXCEPT !.delivered = d]
      BY <2>2, <2>7
    <3>2. h \in Item /\ h.p = x.p /\ h.key = x.key /\ h.state = x.state /\ h.delivered = d
      BY <2>1, <2>3, <2>5, <3>1
    <3>3. h.delivered <=> server[i].delivered \/ i \in applied
      BY <2>3, <3>2
    <3> QED BY <2>7, <3>2, <3>3 DEF x
  <2> QED BY <2>6, <2>7
<1>4. \A i \in DOMAIN server : Told(applied, dels, i) \in Item
  BY <1>3
<1>5. next \in Seq(Item) /\ DOMAIN next = DOMAIN server
  BY <1>1, <1>2, <1>4, FunctionIsList
<1>6. \A i \in DOMAIN server : next[i] = Told(applied, dels, i)
  BY <1>2
<1> QED
  BY <1>3, <1>5, <1>6, Zenon

\* What the server offers.
IsOffer(c) ==
  /\ c.item \in DOMAIN server /\ c.p = server[c.item].p /\ c.key = server[c.item].key
  /\ c.deleted => server[c.item].state = "webDeleted"
  /\ ~c.deleted => Waiting(c.item)

\* One highlight's offer.
LEMMA OfferIs ==
  ASSUME Typed, NEW i \in DOMAIN server
  PROVE  /\ Offer(i) \in Change /\ Offer(i).item = i
         /\ Waiting(i) \/ server[i].state = "webDeleted" => IsOffer(Offer(i))
<1> DEFINE x == server[i]
           gone == x.state = "webDeleted"
<1>1. x \in Item /\ i \in Nat
  BY ElementOfSeq, LenProperties DEF Typed
<1>2. x.p \in Passages /\ x.key \in Nat \X Passages
  BY <1>1, ItemFields
<1>3. Offer(i) = [item |-> i, p |-> x.p, key |-> x.key, deleted |-> gone]
  BY DEF Offer
<1>4. gone \in BOOLEAN
  OBVIOUS
<1>5. Waiting(i) => ~gone
  BY DEF Waiting
<1> HIDE DEF x
<1> DEFINE o == Offer(i)
           k == x.key
           g == gone
<1>6. o \in Change /\ o.item = i /\ o.p = x.p /\ o.key = x.key /\ o.deleted = gone
  <2> HIDE DEF gone
  <2>1. k \in Nat \X Passages /\ o = [item |-> i, p |-> x.p, key |-> k, deleted |-> gone]
    BY <1>2, <1>3
  <2> HIDE DEF k, o
  <2>2. o \in Change /\ o.item = i /\ o.p = x.p /\ o.key = k /\ o.deleted = gone
    BY <1>1, <1>2, <1>4, <2>1 DEF Change
  <2> QED BY <2>2, Zenon DEF k
<1> HIDE DEF o
<1>7. ASSUME Waiting(i) \/ gone PROVE IsOffer(o)
  BY <1>5, <1>6, <1>7 DEF IsOffer, x
<1> QED
  BY <1>6, <1>7 DEF o, x

\* Of changes each to a highlight of its own, those picked are too.
LEMMA PickedApart ==
  ASSUME NEW q \in Seq(Change), NEW S, ItemsApart(q)
  PROVE  ItemsApart(Picked(q, S))
<1> DEFINE q2 == Picked(q, S)
<1>1. \E g : Thins(g, q2, q, S)
  BY PickedThins
<1> HIDE DEF q2
<1>2. PICK g : Thins(g, q2, q, S)
  BY <1>1
<1>3. /\ \A k \in DOMAIN q2 : g[k] \in DOMAIN q /\ q2[k] = q[g[k]]
      /\ \A j, k \in DOMAIN q2 : g[j] = g[k] => j = k
  BY <1>2, Zenon DEF Thins
<1>4. SUFFICES ASSUME NEW m \in DOMAIN q2, NEW n \in DOMAIN q2, q2[m].item = q2[n].item
               PROVE  m = n
  BY DEF ItemsApart, q2
<1>5. q[g[m]].item = q[g[n]].item /\ g[m] \in DOMAIN q /\ g[n] \in DOMAIN q
  BY <1>3, <1>4
<1>6. g[m] = g[n]
  BY <1>5, Zenon DEF ItemsApart
<1> QED
  BY <1>3, <1>6, Zenon

\* What is true of two lists is true of the one made of both.
Joins(q, a, b) ==
  /\ \A i \in DOMAIN q : \/ i \in DOMAIN a /\ q[i] = a[i]
                         \/ \E k \in DOMAIN b : i = Len(a) + k /\ q[i] = b[k] /\ i \notin DOMAIN a

LEMMA JoinedLists ==
  ASSUME NEW a \in Seq(Change), NEW b \in Seq(Change)
  PROVE  a \o b \in Seq(Change) /\ Len(a \o b) = Len(a) + Len(b) /\ Joins(a \o b, a, b)
<1> DEFINE q == a \o b
           la == Len(a)
           lb == Len(b)
<1>1. /\ q \in Seq(Change) /\ Len(q) = la + lb
      /\ \A i \in 1 .. la + lb : q[i] = IF i <= la THEN a[i] ELSE b[i - la]
  BY ConcatProperties
<1> HIDE DEF q
<1>2. /\ la \in Nat /\ lb \in Nat /\ DOMAIN q = 1 .. la + lb
      /\ DOMAIN a = 1 .. la /\ DOMAIN b = 1 .. lb
  BY <1>1, LenProperties
<1> HIDE DEF la, lb
<1>3. ASSUME NEW i \in DOMAIN q
      PROVE  \/ i \in DOMAIN a /\ q[i] = a[i]
             \/ \E k \in DOMAIN b : i = la + k /\ q[i] = b[k] /\ i \notin DOMAIN a
  <2>1. CASE i <= la
    BY <1>1, <1>2, <2>1
  <2>2. CASE ~(i <= la)
    <3> DEFINE k == i - la
    <3>1. k \in DOMAIN b /\ i = la + k /\ q[i] = b[k] /\ i \notin DOMAIN a
      BY <1>1, <1>2, <2>2
    <3> QED BY <3>1
  <2> QED BY <2>1, <2>2
<1>4. Joins(q, a, b)
  BY <1>3, Zenon DEF Joins, la
<1> QED
  BY <1>1, <1>4, Zenon DEF q, la, lb

LEMMA JoinedApart ==
  ASSUME NEW q, NEW a, NEW b, Joins(q, a, b), ItemsApart(a), ItemsApart(b),
         \A m \in DOMAIN a, n \in DOMAIN b : a[m].item # b[n].item
  PROVE  ItemsApart(q)
<1>1. SUFFICES ASSUME NEW m \in DOMAIN q, NEW n \in DOMAIN q, q[m].item = q[n].item
               PROVE  m = n
  BY DEF ItemsApart
<1>2. \/ m \in DOMAIN a /\ q[m] = a[m]
      \/ \E k \in DOMAIN b : m = Len(a) + k /\ q[m] = b[k] /\ m \notin DOMAIN a
  BY Zenon DEF Joins
<1>3. \/ n \in DOMAIN a /\ q[n] = a[n]
      \/ \E k \in DOMAIN b : n = Len(a) + k /\ q[n] = b[k] /\ n \notin DOMAIN a
  BY Zenon DEF Joins
<1>4. CASE m \in DOMAIN a /\ q[m] = a[m] /\ n \in DOMAIN a /\ q[n] = a[n]
  BY <1>1, <1>4, Zenon DEF ItemsApart
<1>5. CASE (\E k \in DOMAIN b : m = Len(a) + k /\ q[m] = b[k]) /\ \E k \in DOMAIN b : n = Len(a) + k /\ q[n] = b[k]
  <2>1. PICK j \in DOMAIN b : m = Len(a) + j /\ q[m] = b[j]
    BY <1>5
  <2>2. PICK k \in DOMAIN b : n = Len(a) + k /\ q[n] = b[k]
    BY <1>5
  <2>3. j = k
    BY <1>1, <2>1, <2>2, Zenon DEF ItemsApart
  <2> QED BY <2>1, <2>2, <2>3
<1> QED
  BY <1>1, <1>2, <1>3, <1>4, <1>5, Zenon

\* All the offers.
LEMMA OffersAre ==
  ASSUME Typed
  PROVE  Offers \in Seq(Change) /\ (\A n \in DOMAIN Offers : IsOffer(Offers[n])) /\ ItemsApart(Offers)
<1> DEFINE all == [i \in DOMAIN server |-> Offer(i)]
           A == {i \in DOMAIN server : Waiting(i) /\ server[i].ready}
           D == {i \in DOMAIN server : server[i].state = "webDeleted" /\ server[i].delivered}
           adds == Picked(all, A)
           dels == Picked(all, D)
           both == adds \o dels
<1>1. Offers = both
  BY DEF Offers
<1>2. server \in Seq(Item) /\ Len(server) \in Nat /\ DOMAIN server = 1 .. Len(server)
  BY LenProperties DEF Typed
<1>3. \A i \in DOMAIN server : Offer(i) \in Change
  BY OfferIs
<1>4. all \in Seq(Change) /\ DOMAIN all = DOMAIN server
  BY <1>2, <1>3, FunctionIsList
<1>5. \A i \in DOMAIN server : all[i] = Offer(i)
  OBVIOUS
<1> HIDE DEF all
<1>6. ItemsApart(all)
  <2>1. \A i \in DOMAIN all : all[i].item = i
    BY <1>4, <1>5, OfferIs
  <2> QED BY <2>1, Zenon DEF ItemsApart
<1>7. \A i \in A : Waiting(i)
  OBVIOUS
<1>8. \A i \in D : server[i].state = "webDeleted"
  OBVIOUS
<1> HIDE DEF A, D
<1>9. /\ adds \in Seq(Change)
      /\ \A k \in DOMAIN adds : \E i \in DOMAIN all : i \in A /\ adds[k] = all[i]
  BY <1>4, PickedFile, Zenon DEF Shorter
<1>10. /\ dels \in Seq(Change)
       /\ \A k \in DOMAIN dels : \E i \in DOMAIN all : i \in D /\ dels[k] = all[i]
  BY <1>4, PickedFile, Zenon DEF Shorter
<1>11. ItemsApart(adds) /\ ItemsApart(dels)
  BY <1>4, <1>6, PickedApart
<1> HIDE DEF adds, dels
<1>12. \A k \in DOMAIN adds : IsOffer(adds[k]) /\ Waiting(adds[k].item)
  BY <1>4, <1>5, <1>7, <1>9, OfferIs
<1>13. \A k \in DOMAIN dels : IsOffer(dels[k]) /\ server[dels[k].item].state = "webDeleted"
  BY <1>4, <1>5, <1>8, <1>10, OfferIs
<1>14. both \in Seq(Change) /\ Joins(both, adds, dels)
  BY <1>9, <1>10, JoinedLists
<1> HIDE DEF both
<1>15. \A m \in DOMAIN adds, n \in DOMAIN dels : adds[m].item # dels[n].item
  <2>1. \A m \in DOMAIN adds : server[adds[m].item].state = "live"
    BY <1>12 DEF Waiting
  <2> QED BY <1>13, <2>1
<1>16. ItemsApart(both)
  BY <1>11, <1>14, <1>15, JoinedApart
<1>17. \A n \in DOMAIN both : IsOffer(both[n])
  BY <1>12, <1>13, <1>14 DEF Joins
<1> QED
  BY <1>1, <1>14, <1>16, <1>17, Zenon

\* What the device takes of a list of offers: what it had, and offers of others.
Takes(r, incoming, offers) ==
  /\ r \in Seq(Change)
  /\ \A n \in DOMAIN r :
       \/ \E m \in DOMAIN incoming : r[n] = incoming[m]
       \/ /\ \E k \in DOMAIN offers : r[n] = offers[k]
          /\ \A m \in DOMAIN incoming : incoming[m].item # r[n].item
  /\ ItemsApart(incoming) /\ ItemsApart(offers) => ItemsApart(r)

\* That is what it collects.
LEMMA CollectedIs ==
  ASSUME NEW incoming \in Seq(Change), NEW offers \in Seq(Change)
  PROVE  Takes(Collected(incoming, offers), incoming, offers)
<1> DEFINE others == {n \in DOMAIN offers : offers[n].item \notin {incoming[m].item : m \in DOMAIN incoming}}
           fresh == Picked(offers, others)
           both == incoming \o fresh
           room == Max({Batch, Len(incoming)})
           size == Min({Len(incoming) + Len(fresh), room})
           r == SubSeq(both, 1, size)
<1>1. Collected(incoming, offers) = r
  BY DEF Collected
<1>2. /\ fresh \in Seq(Change)
      /\ \A k \in DOMAIN fresh : \E i \in DOMAIN offers : i \in others /\ fresh[k] = offers[i]
  <2> HIDE DEF others
  <2>1. fresh \in Seq(Change) /\ Shorter(fresh, offers, others)
    BY PickedFile
  <2> HIDE DEF fresh
  <2> QED BY <2>1, Zenon DEF Shorter
<1>3. ItemsApart(offers) => ItemsApart(fresh)
  <2> HIDE DEF others
  <2> QED BY PickedApart
<1> HIDE DEF fresh
<1>4. \A k \in DOMAIN fresh :
        /\ \E i \in DOMAIN offers : fresh[k] = offers[i]
        /\ \A m \in DOMAIN incoming : incoming[m].item # fresh[k].item
  BY <1>2
<1> HIDE DEF others
<1>5. both \in Seq(Change) /\ Len(both) = Len(incoming) + Len(fresh) /\ Joins(both, incoming, fresh)
  BY <1>2, JoinedLists
<1> HIDE DEF both
<1>6. Len(incoming) \in Nat /\ Len(fresh) \in Nat /\ Batch \in Nat
  BY <1>2, LenProperties, ConstantsAssumption
<1>7. room \in Nat
  BY <1>6, OfTwo
<1> HIDE DEF room
<1>8. size \in Nat /\ size <= Len(both)
  <2> DEFINE l == Len(incoming) + Len(fresh)
  <2>1. l \in Nat /\ Len(both) = l
    BY <1>5, <1>6
  <2> HIDE DEF l
  <2>2. Min({l, room}) \in {l, room} /\ Min({l, room}) <= l
    BY <1>7, <2>1, OfTwo
  <2> QED BY <1>7, <2>1, <2>2 DEF l
<1> HIDE DEF size
<1>9. r \in Seq(Change) /\ Len(r) = size /\ \A k \in 1 .. size : r[k] = both[k]
  BY <1>5, <1>8, Beginning
<1> HIDE DEF r
<1>10. \A n \in DOMAIN r : n \in DOMAIN both /\ r[n] = both[n]
  <2>1. DOMAIN r = 1 .. size /\ DOMAIN both = 1 .. Len(both) /\ Len(both) \in Nat
    BY <1>5, <1>9, LenProperties
  <2> QED BY <1>8, <1>9, <2>1
<1>11. ASSUME NEW n \in DOMAIN both
       PROVE  \/ \E m \in DOMAIN incoming : both[n] = incoming[m]
              \/ /\ \E k \in DOMAIN offers : both[n] = offers[k]
                 /\ \A m \in DOMAIN incoming : incoming[m].item # both[n].item
  <2>1. \/ n \in DOMAIN incoming /\ both[n] = incoming[n]
        \/ \E k \in DOMAIN fresh : both[n] = fresh[k]
    BY <1>5, Zenon DEF Joins
  <2>2. CASE \E k \in DOMAIN fresh : both[n] = fresh[k]
    <3>1. PICK k \in DOMAIN fresh : both[n] = fresh[k]
      BY <2>2
    <3> QED BY <1>4, <3>1
  <2> QED BY <2>1, <2>2
<1>12. ASSUME ItemsApart(incoming), ItemsApart(offers) PROVE ItemsApart(r)
  <2>1. ItemsApart(both)
    <3>1. \A m \in DOMAIN incoming, n \in DOMAIN fresh : incoming[m].item # fresh[n].item
      BY <1>4
    <3> QED BY <1>3, <1>5, <1>12, <3>1, JoinedApart
  <2> QED BY <1>10, <2>1, Zenon DEF ItemsApart
<1>13. Takes(r, incoming, offers)
  BY <1>9, <1>10, <1>11, <1>12 DEF Takes
<1> QED
  BY <1>1, <1>13, Zenon

\* The first changes of a sync are offers.
LEMMA FirstTaken ==
  ASSUME Typed
  PROVE  /\ Collected(<<>>, Offers) \in Seq(Change)
         /\ \A n \in DOMAIN Collected(<<>>, Offers) : IsOffer(Collected(<<>>, Offers)[n])
         /\ ItemsApart(Collected(<<>>, Offers))
<1> DEFINE none == <<>>
           r == Collected(none, Offers)
<1>1. none \in Seq(Change) /\ DOMAIN none = {}
  BY EmptySeq
<1> HIDE DEF none
<1>2. Offers \in Seq(Change) /\ (\A n \in DOMAIN Offers : IsOffer(Offers[n])) /\ ItemsApart(Offers)
  BY OffersAre
<1>3. Takes(r, none, Offers)
  BY <1>1, <1>2, CollectedIs
<1> HIDE DEF r
<1>4. ItemsApart(none)
  BY <1>1 DEF ItemsApart
<1>5. r \in Seq(Change) /\ ItemsApart(r)
  BY <1>2, <1>3, <1>4 DEF Takes
<1>6. ASSUME NEW n \in DOMAIN r PROVE IsOffer(r[n])
  <2>1. PICK k \in DOMAIN Offers : r[n] = Offers[k]
    BY <1>1, <1>3, Zenon DEF Takes
  <2> QED BY <1>2, <2>1
<1> QED
  BY <1>5, <1>6, Zenon DEF r, none

\* Further ones are those, or offers of others.
LEMMA MoreTaken ==
  ASSUME Typed
  PROVE  Takes(Collected(s.incoming, Offers), s.incoming, Offers)
<1>1. s.incoming \in Seq(Change)
  BY DEF Typed, Sync
<1> QED
  BY <1>1, OffersAre, CollectedIs

-----------------------------------------------------------------------------
(* What each step does to the files and the sync's locals.                 *)

\* Between syncs there is nothing of one.
LEMMA NoSyncIs ==
  /\ NoSync \in Sync /\ Len(NoSync.marks) = 0
  /\ DOMAIN NoSync.marks = {} /\ DOMAIN NoSync.list = {} /\ DOMAIN NoSync.incoming = {}
  /\ NoSync.here = {} /\ NoSync.applied = {} /\ NoSync.dels = {}
<1> DEFINE none == <<>>
           one == 1
<1>1. /\ none \in Seq(Mark) /\ none \in Seq(Record) /\ none \in Seq(Change)
      /\ DOMAIN none = {} /\ Len(none) = 0 /\ one \in Nat \ {0} /\ one \in Nat
  BY EmptySeq
<1>2. NoSync = [marks |-> none, list |-> none, before |-> FALSE, watermark |-> 0,
                next |-> one, late |-> one, respelt |-> FALSE, top |-> 0, incoming |-> none,
                round |-> 0, more |-> FALSE, here |-> {}, newest |-> 0, applied |-> {}, dels |-> {}]
  BY DEF NoSync
<1> HIDE DEF none, one
<1>3. NoSync \in Sync
  BY <1>1, <1>2 DEF Sync
<1> QED
  BY <1>1, <1>2, <1>3

\* The types of a sync's locals.
LEMMA SyncFields ==
  ASSUME Typed
  PROVE  /\ s.marks \in Seq(Mark) /\ s.list \in Seq(Record) /\ s.incoming \in Seq(Change)
         /\ s.watermark \in Nat /\ s.next \in Nat \ {0} /\ s.late \in Nat /\ s.top \in Nat
         /\ s.round \in Nat /\ s.more \in BOOLEAN /\ s.before \in BOOLEAN /\ s.newest \in Nat
         /\ s.here \subseteq Nat /\ s.applied \subseteq Nat /\ s.dels \subseteq Nat
         /\ recs.list \in Seq(Record) /\ recs.here \in BOOLEAN /\ recs.watermark \in Nat
         /\ marks.list \in Seq(Mark)
         /\ DOMAIN s.marks \subseteq Nat /\ DOMAIN s.list \subseteq Nat
         /\ DOMAIN s.incoming \subseteq Nat
BY LenProperties, SMTT(30) DEF Typed, Sync, RecordFile, MarkFile

\* While the records keep being trimmed, no fault has been one after which they may not be.
LEMMA StaysTrimmed ==
  ASSUME Typed, NEW kind, Fault(kind), Trimmed'
  PROVE  Trimmed /\ kind \notin {"retain", "short"}
<1> DEFINE q2 == Append(faults, kind)
<1>1. faults \in Seq(FaultKinds) /\ kind \in FaultKinds /\ faults' = q2
  BY ConstantsAssumption DEF Typed, Fault
<1>2. /\ q2 \in Seq(FaultKinds) /\ Len(q2) = Len(faults) + 1 /\ Len(faults) \in Nat
      /\ \A i \in 1 .. Len(faults) : q2[i] = faults[i]
      /\ q2[Len(faults) + 1] = kind
  BY <1>1, OneMore
<1> HIDE DEF q2
<1>3. DOMAIN faults = 1 .. Len(faults) /\ DOMAIN q2 = 1 .. Len(faults) + 1
  BY <1>1, <1>2, LenProperties
<1>4. kind \in Kinds'
  BY <1>1, <1>2, <1>3 DEF Kinds
<1>5. Kinds \subseteq Kinds'
  BY <1>1, <1>2, <1>3 DEF Kinds
<1> QED
  BY <1>4, <1>5 DEF Trimmed

\* A step meets no fault or one.
LEMMA FaultSteps ==
  ASSUME Next
  PROVE  UNCHANGED faults \/ \E kind : Fault(kind)
<1>1. CASE Begin \/ Mint \/ Retain
  BY <1>1, Zenon DEF Begin, Mint, Retain, CutShort, ShortPut, ShortFile, NoFault
<1>2. CASE Exchange \/ Pull \/ Advance
  BY <1>2, Zenon DEF Exchange, Pull, Advance, CutShort, ShortFile, NoFault
<1>3. CASE Apply
  BY <1>3, Zenon DEF Apply, ApplyDelete, ApplyPresent, ApplyAdd, ApplyLater, CutShort, ShortPut, NoFault
<1>4. CASE Save \/ Cover \/ Ack
  BY <1>4, Zenon DEF Save, Cover, Ack, CutShort, ShortFile, NoFault
<1>5. CASE Reader \/ Web \/ PowerCut
  BY <1>5, Zenon DEF Reader, Web, PowerCut, MarkPassage, RemoveMark, Edit, WebAdd, WebDelete, NoFault
<1> QED
  BY <1>1, <1>2, <1>3, <1>4, <1>5 DEF Next, SyncStep

LEMMA NextTrimmed ==
  ASSUME Typed, [Next]_vars, Trimmed'
  PROVE  Trimmed
<1>1. CASE UNCHANGED faults
  BY <1>1 DEF Trimmed, Kinds
<1>2. CASE \E kind : Fault(kind)
  BY <1>2, StaysTrimmed
<1> QED
  BY <1>1, <1>2, FaultSteps DEF vars

\* A fault is one of those that may happen.
LEMMA FaultKind ==
  ASSUME Typed, NEW kind, Fault(kind)
  PROVE  kind \in Faults /\ faults' \in Seq(FaultKinds)
BY ConstantsAssumption DEF Typed, Fault

LEMMA NoFaultKind ==
  ASSUME Typed, NoFault
  PROVE  faults' \in Seq(FaultKinds)
BY DEF Typed, NoFault

\* What may be left of a record file.
Cuts(f) ==
  /\ recs' \in RecordFile
  /\ \A k \in DOMAIN recs'.list :
       /\ recs'.watermark = f.watermark /\ recs'.here = f.here
       /\ \E n \in DOMAIN f.list : recs'.list[k] = f.list[n]
  /\ RefsApart(f.list) => RefsApart(recs'.list)
  /\ pc' = "idle" /\ s' = NoSync /\ "cut" \in Faults

LEMMA PartIs ==
  ASSUME NEW f \in RecordFile
  PROVE  Part(f) \subseteq RecordFile
<1> DEFINE none == <<>>
<1>1. none \in Seq(Record) /\ f.list \in Seq(Record)
  BY EmptySeq DEF RecordFile
<1>2. NoRecordFile = [here |-> FALSE, watermark |-> 0, list |-> none]
  BY DEF NoRecordFile
<1> HIDE DEF none
<1>3. NoRecordFile \in RecordFile
  BY <1>1, <1>2 DEF RecordFile
<1>4. ASSUME NEW n \in 0 .. Len(f.list)
      PROVE  [f EXCEPT !.list = SubSeq(@, 1, n)] \in RecordFile
  <2> DEFINE q2 == SubSeq(f.list, 1, n)
  <2>1. q2 \in Seq(Record)
    BY <1>1, CutFile
  <2> HIDE DEF q2
  <2>2. [f EXCEPT !.list = q2] \in RecordFile
    BY <2>1 DEF RecordFile
  <2> QED BY <2>2 DEF q2
<1> QED
  BY <1>3, <1>4 DEF Part

\* The power fails while the record file is rewritten.
LEMMA CutShortDoes ==
  ASSUME Typed, NEW f \in RecordFile, CutShort(f)
  PROVE  Cuts(f) /\ faults' \in Seq(FaultKinds)
<1>1. /\ recs' \in {[here |-> FALSE, watermark |-> 0, list |-> <<>>]} \cup
                   {[f EXCEPT !.list = SubSeq(@, 1, n)] : n \in 0 .. Len(f.list)}
      /\ Fault("cut") /\ pc' = "idle" /\ s' = NoSync
  BY DEF CutShort, Return, Part, NoRecordFile
<1>2. "cut" \in Faults /\ faults' \in Seq(FaultKinds)
  BY <1>1, FaultKind
<1>3. f.list \in Seq(Record)
  BY DEF RecordFile
<1>4. CASE recs' = [here |-> FALSE, watermark |-> 0, list |-> <<>>]
  <2> DEFINE none == <<>>
  <2>1. none \in Seq(Record) /\ DOMAIN none = {}
    BY EmptySeq
  <2>2. recs' = [here |-> FALSE, watermark |-> 0, list |-> none]
    BY <1>4
  <2> HIDE DEF none
  <2>3. recs' \in RecordFile /\ recs'.list = none
    BY <2>1, <2>2 DEF RecordFile
  <2> QED BY <1>1, <1>2, <2>1, <2>3 DEF Cuts, RefsApart
<1>5. CASE recs' \in {[f EXCEPT !.list = SubSeq(@, 1, n)] : n \in 0 .. Len(f.list)}
  <2>1. PICK n \in 0 .. Len(f.list) : recs' = [f EXCEPT !.list = SubSeq(@, 1, n)]
    BY <1>5
  <2> DEFINE q == f.list
             q2 == SubSeq(q, 1, n)
  <2>2. q2 \in Seq(Record) /\ Remains(q2, q)
    BY <1>3, CutFile
  <2>3. recs' = [f EXCEPT !.list = q2]
    BY <2>1
  <2> HIDE DEF q2
  <2>4. /\ recs' \in RecordFile /\ recs'.list = q2 /\ recs'.here = f.here
        /\ recs'.watermark = f.watermark
    BY <2>2, <2>3 DEF RecordFile
  <2> QED BY <1>1, <1>2, <2>2, <2>4 DEF Cuts, Remains
<1> QED
  BY <1>1, <1>2, <1>4, <1>5

\* Begin reads the files.
LEMMA BeginDoes ==
  ASSUME Typed, Begin
  PROVE  /\ pc = "idle" /\ pc' = "mint" /\ UNCHANGED <<marks, recs, now, server, removed>>
         /\ s'.marks = marks.list /\ s'.list = recs.list /\ s'.watermark = recs.watermark
         /\ s'.late = recs.watermark + 1 /\ DOMAIN s'.incoming = {}
         /\ s'.here = {} /\ s'.applied = {} /\ s'.dels = {}
         /\ Typed'
<1>1. /\ pc = "idle" /\ pc' = "mint" /\ UNCHANGED <<marks, recs, now, server, edits, removed, twice>>
      /\ s' = [NoSync EXCEPT !.marks = marks.list, !.list = recs.list, !.before = recs.here,
                             !.watermark = recs.watermark, !.late = recs.watermark + 1]
      /\ faults' \in Seq(FaultKinds)
  BY NoFaultKind DEF Begin, Goto, device
<1> DEFINE m == marks.list
           l == recs.list
           h == recs.here
           w == recs.watermark
           n == NoSync
           w1 == w + 1
<1>2. m \in Seq(Mark) /\ l \in Seq(Record) /\ h \in BOOLEAN /\ w \in Nat /\ w1 \in Nat /\ Len(m) <= Capacity
  BY SyncFields DEF Typed
<1>3. n \in Sync /\ DOMAIN n.incoming = {} /\ n.here = {} /\ n.applied = {} /\ n.dels = {}
  BY NoSyncIs
<1>4. s' = [n EXCEPT !.marks = m, !.list = l, !.before = h, !.watermark = w, !.late = w1]
  BY <1>1
<1> HIDE DEF m, l, h, w, n, w1
<1>5. /\ s' \in Sync /\ s'.marks = m /\ s'.list = l /\ s'.watermark = w /\ s'.late = w1
      /\ s'.incoming = n.incoming /\ s'.here = n.here /\ s'.applied = n.applied /\ s'.dels = n.dels
  BY <1>2, <1>3, <1>4 DEF Sync
<1>6. Typed'
  BY <1>1, <1>2, <1>5 DEF Typed, Steps
<1> QED
  BY <1>1, <1>3, <1>5, <1>6 DEF m, l, w, w1

\* A record put into a record file.
Puts(f2, f, r) ==
  /\ f2 \in RecordFile /\ f2.here /\ f2.watermark = f.watermark
  /\ RefsApart(f.list) => RefsApart(f2.list)
  /\ \A k \in DOMAIN f2.list : f2.list[k] = r \/ \E n \in DOMAIN f.list : f2.list[k] = f.list[n]
  /\ \E k \in DOMAIN f2.list : f2.list[k] = r
  /\ \A n \in DOMAIN f.list :
       RefOf(f.list[n]) # RefOf(r) => \E k \in DOMAIN f2.list : f2.list[k] = f.list[n]
  /\ (\A n \in DOMAIN f.list : RefOf(f.list[n]) # RefOf(r)) => f2.list = Append(f.list, r)

LEMMA PutIs ==
  ASSUME NEW f \in RecordFile, NEW r \in Record
  PROVE  Puts(PutRecord(f, r), f, r)
<1> DEFINE f2 == PutRecord(f, r)
           l == f.list
           w == f.watermark
           same == {i \in DOMAIN l : RefOf(l[i]) = RefOf(r)}
<1>1. l \in Seq(Record) /\ w \in Nat
  BY DEF RecordFile
<1> HIDE DEF l, w
<1>2. CASE same = {}
  <2> DEFINE longer == Append(l, r)
  <2>1. longer \in Seq(Record) /\ Longer(longer, l, r)
    BY <1>1, AppendFile
  <2>2. f2 = [here |-> TRUE, watermark |-> w, list |-> longer]
    BY <1>2 DEF PutRecord, l, w
  <2>3. longer = Append(l, r) /\ \A i \in DOMAIN l : RefOf(l[i]) # RefOf(r)
    BY <1>2
  <2> HIDE DEF longer, f2, same
  <2>4. f2 \in RecordFile /\ f2.here /\ f2.watermark = w /\ f2.list = longer
    BY <1>1, <2>1, <2>2 DEF RecordFile
  <2>5. /\ \A i \in DOMAIN l : i \in DOMAIN longer /\ longer[i] = l[i]
        /\ \E k \in DOMAIN longer : longer[k] = r
        /\ \A i \in DOMAIN longer : i \in DOMAIN l \/ longer[i] = r
    BY <2>1, Zenon DEF Longer, Grows
  <2>6. RefsApart(l) => RefsApart(longer)
    BY <2>1, <2>3, Zenon DEF Longer
  <2>7. /\ \A k \in DOMAIN longer : longer[k] = r \/ \E n \in DOMAIN l : longer[k] = l[n]
        /\ \A n \in DOMAIN l : \E k \in DOMAIN longer : longer[k] = l[n]
    BY <2>5
  <2>8. Puts(f2, f, r)
    BY <2>3, <2>4, <2>5, <2>6, <2>7 DEF Puts, l, w
  <2> QED BY <2>8 DEF f2
<1>3. CASE same # {}
  <2> DEFINE m == Min(same)
             changed == [l EXCEPT ![m] = r]
  <2>1. same \in SUBSET (DOMAIN l)
    OBVIOUS
  <2>2. m \in same
    BY <1>1, <1>3, <2>1, FirstOf
  <2>3. m \in DOMAIN l /\ RefOf(l[m]) = RefOf(r)
    BY <2>2
  <2>4. f2 = [here |-> TRUE, watermark |-> w, list |-> changed]
    BY <1>3 DEF PutRecord, l, w
  <2> HIDE DEF m, f2, same
  <2>5. changed \in Seq(Record) /\ DOMAIN changed = DOMAIN l
    <3>1. /\ changed \in Seq(Record) /\ Len(changed) = Len(l)
          /\ \A i \in 1 .. Len(l) : changed[i] = IF i = m THEN r ELSE l[i]
      BY <1>1, <2>3, LenProperties, ExceptSeq
    <3> HIDE DEF changed
    <3> QED BY <1>1, <3>1, LenProperties
  <2>6. /\ changed[m] = r /\ \A i \in DOMAIN l : i # m => changed[i] = l[i]
    BY <2>3, <2>5
  <2> HIDE DEF changed
  <2>7. f2 \in RecordFile /\ f2.here /\ f2.watermark = w /\ f2.list = changed
    BY <1>1, <2>4, <2>5 DEF RecordFile
  <2>8. \A i \in DOMAIN l : RefOf(changed[i]) = RefOf(l[i])
    BY <2>3, <2>6
  <2>9. RefsApart(l) => RefsApart(changed)
    BY <2>5, <2>8 DEF RefsApart
  <2>10. /\ \A k \in DOMAIN changed : changed[k] = r \/ \E n \in DOMAIN l : changed[k] = l[n]
         /\ \E k \in DOMAIN changed : changed[k] = r
         /\ \A n \in DOMAIN l : RefOf(l[n]) # RefOf(r) => \E k \in DOMAIN changed : changed[k] = l[n]
    <3>1. \A k \in DOMAIN l : changed[k] = r \/ changed[k] = l[k]
      BY <2>6
    <3>2. \A n \in DOMAIN l : RefOf(l[n]) # RefOf(r) => changed[n] = l[n]
      BY <2>3, <2>6
    <3> QED BY <2>3, <2>5, <2>6, <3>1, <3>2, Zenon
  <2>11. ~ \A n \in DOMAIN l : RefOf(l[n]) # RefOf(r)
    BY <2>3
  <2>12. Puts(f2, f, r)
    BY <2>7, <2>9, <2>10, <2>11 DEF Puts, l, w
  <2> QED BY <2>12 DEF f2
<1> QED
  BY <1>2, <1>3

\* A watermark advanced leaves the records.
LEMMA AdvancedIs ==
  ASSUME NEW f \in RecordFile, NEW t \in Nat
  PROVE  /\ Advanced(f, t) \in RecordFile /\ Advanced(f, t).here = f.here
         /\ Advanced(f, t).list = f.list
         /\ Advanced(f, t).watermark \in {f.watermark, t}
BY DEF Advanced, RecordFile

\* r is a record minted for a highlight that has none.
Mints(r) ==
  /\ r \in Record /\ r.id > s.watermark
  /\ RefOf(r) \notin Refs(s.list) /\ RefOf(r) \in Refs(s.marks)

\* The sync goes on with the highlights it works on.
SameWork ==
  /\ s'.marks = s.marks /\ s'.watermark = s.watermark /\ s'.here = s.here
  /\ s'.applied = s.applied /\ s'.dels = s.dels

\* Mint adds a record for a highlight that has none, or leaves it for the next sync.
LEMMA MintDoes ==
  ASSUME FilesInv, Mint, Trimmed'
  PROVE  /\ pc = "mint" /\ UNCHANGED <<marks, now, server, removed>>
         /\ \/ /\ pc' = "mint" /\ SameWork /\ s'.late > s'.watermark /\ s'.incoming = s.incoming
               /\ \/ recs' = recs /\ s'.list = s.list
                  \/ \E r : Mints(r) /\ s'.list = Append(s.list, r) /\ recs' = PutRecord(recs, r)
            \/ \E r : Mints(r) /\ Cuts(PutRecord(recs, r))
         /\ Typed'
<1>0. ~Fault("short") /\ ~Fault("retain")
  BY StaysTrimmed DEF FilesInv
<1>1. /\ Typed /\ pc = "mint" /\ s.list = recs.list /\ s.watermark = recs.watermark
      /\ s.late > s.watermark /\ recs \in RecordFile /\ s \in Sync
  BY DEF FilesInv, Loaded, Early, Mint, Typed
<1>2. UNCHANGED <<marks, now, server, edits, removed, twice>> /\ Unrecorded # {}
  BY DEF Mint
<1> DEFINE i == Min(Unrecorded)
           m == s.marks[i]
           r == [ts |-> m.ts, id |-> Identity(m), p |-> m.p]
           passed == [s EXCEPT !.next = i + 1]
           minted == [passed EXCEPT !.late = IF m.ts > s.watermark THEN @ ELSE @ + 1]
<1>3. i \in Unrecorded
  BY <1>1, <1>2, SyncFields, FirstOf DEF Unrecorded
<1>4. \/ /\ recs' = PutRecord(recs, r)
         /\ s' = [minted EXCEPT !.list = Append(@, r), !.respelt = TRUE]
         /\ NoFault /\ pc' = "mint"
      \/ recs' = recs /\ s' = minted /\ Fault("put") /\ pc' = "mint"
      \/ recs' = recs /\ s' = passed /\ (Fault("mint") \/ NoFault) /\ pc' = "mint"
      \/ CutShort(PutRecord(recs, r))
      \/ Fault("book") /\ recs' = recs /\ s' = [s EXCEPT !.next = Len(s.marks) + 1] /\ pc' = "mint"
  BY <1>1, <1>0 DEF Mint, Goto, ShortPut
<1> HIDE DEF i
<1>5. i \in DOMAIN s.marks /\ i \in Nat /\ m \in Mark /\ RefOf(m) \notin Refs(s.list)
  BY <1>1, <1>3, SyncFields, ElementOfSeq DEF Unrecorded
<1>6. m.ts \in Nat /\ m.p \in Passages
  BY <1>5, FieldTypes
<1> DEFINE id == Identity(m)
           late == IF m.ts > s.watermark THEN s.late ELSE s.late + 1
<1>7. id \in Nat /\ id > s.watermark /\ late \in Nat /\ late > s.watermark
  <2>1. s.late \in Nat /\ s.watermark \in Nat /\ s.late > s.watermark
    BY <1>1, SyncFields
  <2> DEFINE t == m.ts
  <2>2. t \in Nat
    BY <1>6
  <2>3. id = IF t > s.watermark THEN t ELSE s.late
    BY DEF Identity
  <2>4. late = IF t > s.watermark THEN s.late ELSE s.late + 1
    OBVIOUS
  <2> HIDE DEF t, id, late, m, r, passed, minted
  <2> QED BY <2>1, <2>2, <2>3, <2>4
<1>8. r \in Record /\ r.ts = m.ts /\ r.id = id /\ r.p = m.p
  <2> HIDE DEF id
  <2>1. r = [ts |-> m.ts, id |-> id, p |-> m.p]
    BY DEF id
  <2> HIDE DEF r
  <2> QED BY <1>6, <1>7, <2>1, FieldTypes
<1>9. Mints(r)
  <2>1. RefOf(r) = RefOf(m)
    BY <1>8, RefFacts
  <2>2. RefOf(m) \in Refs(s.marks)
    BY <1>5 DEF Refs
  <2> HIDE DEF r, id
  <2> QED BY <1>5, <1>7, <1>8, <2>1, <2>2 DEF Mints
<1>10. PutRecord(recs, r) \in RecordFile
  BY <1>1, <1>8, PutIs DEF Puts
<1>11. /\ passed \in Sync /\ passed.marks = s.marks /\ passed.watermark = s.watermark
       /\ passed.late = s.late /\ passed.list = s.list /\ passed.incoming = s.incoming
       /\ passed.here = s.here /\ passed.applied = s.applied /\ passed.dels = s.dels
  <2> DEFINE j == i + 1
  <2>1. s \in Sync /\ j \in Nat \ {0} /\ passed = [s EXCEPT !.next = j]
    BY <1>1, <1>5
  <2> HIDE DEF passed, j
  <2> QED BY <2>1 DEF Sync
<1>12. minted = [passed EXCEPT !.late = late]
  BY <1>11
<1> HIDE DEF passed, late, r, m, minted, id
<1>13. /\ minted \in Sync /\ minted.marks = s.marks /\ minted.watermark = s.watermark
       /\ minted.late = late /\ minted.list = s.list /\ minted.incoming = s.incoming
       /\ minted.here = s.here /\ minted.applied = s.applied /\ minted.dels = s.dels
  BY <1>7, <1>11, <1>12 DEF Sync
<1>14. Len(s.marks) <= Capacity
  BY <1>1 DEF Typed
<1>15. CASE /\ recs' = PutRecord(recs, r)
            /\ s' = [minted EXCEPT !.list = Append(@, r), !.respelt = TRUE]
            /\ NoFault /\ pc' = "mint"
  <2> DEFINE longer == Append(s.list, r)
  <2>1. longer \in Seq(Record)
    BY <1>1, <1>8, SyncFields, AppendFile
  <2>2. s' = [minted EXCEPT !.list = longer, !.respelt = TRUE]
    BY <1>13, <1>15
  <2> HIDE DEF longer
  <2>3. /\ s' \in Sync /\ s'.marks = s.marks /\ s'.watermark = s.watermark
        /\ s'.late = late /\ s'.list = longer /\ s'.incoming = s.incoming
        /\ s'.here = s.here /\ s'.applied = s.applied /\ s'.dels = s.dels
    BY <1>13, <2>1, <2>2 DEF Sync
  <2>4. faults' \in Seq(FaultKinds)
    BY <1>1, <1>15, NoFaultKind
  <2>5. Typed'
    BY <1>1, <1>2, <1>10, <1>14, <1>15, <2>3, <2>4 DEF Typed
  <2>6. SameWork /\ s'.late > s'.watermark
    BY <1>7, <2>3 DEF SameWork
  <2> QED BY <1>1, <1>2, <1>9, <1>15, <2>3, <2>5, <2>6 DEF longer
<1>16. CASE recs' = recs /\ s' \in Sync /\ s'.marks = s.marks /\ s'.watermark = s.watermark
            /\ s'.late > s.watermark /\ s'.list = s.list /\ s'.incoming = s.incoming
            /\ s'.here = s.here /\ s'.applied = s.applied /\ s'.dels = s.dels
            /\ faults' \in Seq(FaultKinds) /\ pc' = "mint"
  <2>1. Typed'
    BY <1>1, <1>2, <1>14, <1>16 DEF Typed
  <2>2. SameWork /\ s'.late > s'.watermark
    BY <1>16 DEF SameWork
  <2> QED BY <1>1, <1>2, <1>16, <2>1, <2>2
<1>17. CASE recs' = recs /\ s' = minted /\ Fault("put") /\ pc' = "mint"
  <2>1. faults' \in Seq(FaultKinds)
    BY <1>1, <1>17, FaultKind
  <2> QED BY <1>7, <1>13, <1>16, <1>17, <2>1
<1>18. CASE recs' = recs /\ s' = passed /\ (Fault("mint") \/ NoFault) /\ pc' = "mint"
  <2>1. faults' \in Seq(FaultKinds)
    BY <1>1, <1>18, FaultKind, NoFaultKind
  <2> QED BY <1>1, <1>11, <1>16, <1>18, <2>1
<1>19. CASE Fault("book") /\ recs' = recs /\ s' = [s EXCEPT !.next = Len(s.marks) + 1] /\ pc' = "mint"
  <2> DEFINE j == Len(s.marks) + 1
  <2>1. j \in Nat \ {0} /\ s' = [s EXCEPT !.next = j]
    BY <1>1, <1>19, SyncFields, LenProperties
  <2> HIDE DEF j
  <2>2. /\ s' \in Sync /\ s'.marks = s.marks /\ s'.watermark = s.watermark
        /\ s'.late = s.late /\ s'.list = s.list /\ s'.incoming = s.incoming
        /\ s'.here = s.here /\ s'.applied = s.applied /\ s'.dels = s.dels
    BY <1>1, <2>1 DEF Sync
  <2>3. faults' \in Seq(FaultKinds)
    BY <1>1, <1>19, FaultKind
  <2> QED BY <1>1, <1>16, <1>19, <2>2, <2>3
<1>20. CASE CutShort(PutRecord(recs, r))
  <2>1. Cuts(PutRecord(recs, r)) /\ faults' \in Seq(FaultKinds)
    BY <1>1, <1>10, <1>20, CutShortDoes
  <2>2. Typed'
    <3>1. recs' \in RecordFile /\ pc' = "idle" /\ s' \in Sync /\ Len(s'.marks) <= Capacity
      BY <2>1, NoSyncIs, ConstantsAssumption DEF Cuts
    <3> QED BY <1>1, <1>2, <2>1, <3>1 DEF Typed, Steps
  <2> QED BY <1>1, <1>2, <1>9, <2>1, <2>2
<1> QED
  BY <1>4, <1>15, <1>17, <1>18, <1>19, <1>20

\* The places of the records Retain keeps.
HasMark == {n \in DOMAIN recs.list : RefOf(recs.list[n]) \in Refs(s.marks)}

\* Retain leaves the records of highlights that are here.
LEMMA RetainDoes ==
  ASSUME FilesInv, Retain, Trimmed'
  PROVE  /\ pc = "mint" /\ Unrecorded = {} /\ UNCHANGED <<now, server, removed>>
         /\ Shorter(Kept(recs.list), recs.list, HasMark)
         /\ \/ /\ pc' = "exchange" /\ marks' = marks /\ SameWork /\ s'.incoming = s.incoming
               /\ recs' = [recs EXCEPT !.list = Kept(@)] /\ s'.list = Kept(recs.list)
               /\ recs'.list = Kept(recs.list) /\ recs'.here = recs.here
               /\ recs'.watermark = recs.watermark
            \/ Cuts([recs EXCEPT !.list = Kept(@)]) /\ marks' = marks
            \/ /\ recs' = recs /\ marks' = TornFile /\ pc' = "idle" /\ s' = NoSync
               /\ "torn" \in Faults
         /\ Typed'
<1>0. ~Fault("short") /\ ~Fault("retain")
  BY StaysTrimmed DEF FilesInv
<1>1. /\ Typed /\ pc = "mint" /\ s.list = recs.list /\ Unrecorded = {}
      /\ recs \in RecordFile /\ s \in Sync /\ recs.list \in Seq(Record)
      /\ ~recs.here => DOMAIN recs.list = {}
  BY SyncFields DEF FilesInv, Loaded, Early, Retain, Typed
<1>2. UNCHANGED <<now, server, edits, removed, twice>>
  BY DEF Retain
<1> DEFINE kept == Kept(recs.list)
           file == [recs EXCEPT !.list = kept]
<1>3. kept \in Seq(Record) /\ Shorter(kept, recs.list, HasMark)
  <2>1. kept = Picked(recs.list, HasMark)
    BY DEF Kept, HasMark
  <2> HIDE DEF kept
  <2> QED BY <1>1, <2>1, PickedFile
<1>4. ~recs.here => kept = recs.list
  <2>1. ~recs.here => \A i \in DOMAIN recs.list : i \in HasMark
    BY <1>1
  <2> HIDE DEF kept
  <2> QED BY <1>3, <2>1, Zenon DEF Shorter
<1>5. \/ /\ recs' = file /\ s' = IF recs.here THEN [s EXCEPT !.list = Kept(@)] ELSE s
         /\ pc' = "exchange" /\ NoFault /\ marks' = marks
      \/ CutShort(file) /\ marks' = marks
      \/ /\ marks' = TornFile /\ Fault("torn") /\ pc' = "idle" /\ s' = NoSync /\ recs' = recs
  BY <1>0, <1>1, Zenon DEF Retain, ShortFile, Goto, Return
<1>6. file = [recs EXCEPT !.list = Kept(@)] /\ kept = Kept(recs.list)
  OBVIOUS
<1> HIDE DEF kept
<1>7. /\ file \in RecordFile /\ file.here = recs.here /\ file.watermark = recs.watermark
      /\ file.list = kept
  BY <1>1, <1>3 DEF RecordFile
<1> HIDE DEF file
<1>8. CASE /\ recs' = file /\ s' = IF recs.here THEN [s EXCEPT !.list = Kept(@)] ELSE s
           /\ pc' = "exchange" /\ NoFault /\ marks' = marks
  <2>1. s' = [s EXCEPT !.list = kept]
    <3>1. CASE recs.here
      BY <1>1, <1>6, <1>8, <3>1
    <3>2. CASE ~recs.here
      <4>1. s' = s /\ kept = s.list
        BY <1>1, <1>4, <1>8, <3>2
      <4> QED BY <1>1, <4>1 DEF Sync
    <3> QED BY <3>1, <3>2
  <2>2. /\ s' \in Sync /\ SameWork /\ s'.incoming = s.incoming /\ s'.list = kept
        /\ Len(s'.marks) <= Capacity
    BY <1>1, <1>3, <2>1 DEF Sync, SameWork, Typed
  <2>3. faults' \in Seq(FaultKinds)
    BY <1>1, <1>8, NoFaultKind
  <2>4. Typed'
    BY <1>1, <1>2, <1>7, <1>8, <2>2, <2>3 DEF Typed, Steps
  <2> QED BY <1>1, <1>2, <1>3, <1>6, <1>7, <1>8, <2>2, <2>4
<1>9. CASE CutShort(file) /\ marks' = marks
  <2>1. Cuts(file) /\ faults' \in Seq(FaultKinds)
    BY <1>1, <1>7, <1>9, CutShortDoes
  <2>2. Typed'
    <3>1. recs' \in RecordFile /\ pc' = "idle" /\ s' \in Sync /\ Len(s'.marks) <= Capacity
      BY <2>1, NoSyncIs, ConstantsAssumption DEF Cuts
    <3> QED BY <1>1, <1>2, <1>9, <2>1, <3>1 DEF Typed, Steps
  <2> QED BY <1>1, <1>2, <1>3, <1>6, <1>9, <2>1, <2>2
<1>10. CASE marks' = TornFile /\ Fault("torn") /\ pc' = "idle" /\ s' = NoSync /\ recs' = recs
  <2>1. faults' \in Seq(FaultKinds) /\ "torn" \in Faults
    BY <1>1, <1>10, FaultKind
  <2>2. marks' \in MarkFile /\ Len(marks'.list) <= Capacity
    BY <1>10, EmptySeq, ConstantsAssumption DEF TornFile, MarkFile
  <2>3. s' \in Sync /\ Len(s'.marks) <= Capacity
    BY <1>10, NoSyncIs, ConstantsAssumption
  <2>4. Typed'
    BY <1>1, <1>2, <1>10, <2>1, <2>2, <2>3 DEF Typed, Steps
  <2> QED BY <1>1, <1>2, <1>3, <1>6, <1>10, <2>1, <2>4
<1> QED
  BY <1>5, <1>8, <1>9, <1>10

\* A set of identities has a greatest, if any.
LEMMA TopIs ==
  ASSUME Typed
  PROVE  Max({0} \cup {Outgoing[n].id : n \in DOMAIN Outgoing}) \in Nat
<1> DEFINE q == Outgoing
           f == [n \in DOMAIN q |-> q[n].id]
           S == {0} \cup {q[n].id : n \in DOMAIN q}
<1>1. q \in Seq(Record)
  BY OutgoingAre
<1> HIDE DEF q
<1>2. Len(q) \in Nat /\ DOMAIN q = 1 .. Len(q) /\ \A n \in DOMAIN q : q[n].id \in Nat
  BY <1>1, LenProperties, ElementOfSeq, FieldTypes
<1>3. \A n \in 1 .. Len(q) : f[n] \in Nat
  BY <1>2
<1>4. PICK b \in Nat : \A n \in 1 .. Len(q) : f[n] <= b
  BY <1>2, <1>3, NumbersBounded
<1>5. S \in SUBSET Nat /\ S # {} /\ \A x \in S : x <= b
  BY <1>2, <1>4
<1> HIDE DEF S
<1>6. Max(S) \in Nat
  BY <1>5, MaxOfSet
<1> QED
  BY <1>6 DEF S, q

\* The server's answer to an exchange.
SentKeys == IF KeysComplete THEN {KeyOf(s.list[n]) : n \in DOMAIN s.list} ELSE {}
Answer == Received(Outgoing, SentKeys, KeysComplete)

LEMMA AnswerIs ==
  ASSUME Typed
  PROVE  Outgoing \in Seq(Record) /\ AfterRequest(Answer, Outgoing, SentKeys, KeysComplete)
<1>1. Outgoing \in Seq(Record) /\ KeysComplete \in BOOLEAN
  BY OutgoingAre, SyncFields DEF KeysComplete
<1>2. AfterRequest(Answer, Outgoing, SentKeys, KeysComplete)
  BY <1>1, ReceivedIs, Zenon DEF Answer
<1> QED
  BY <1>1, <1>2

\* Exchange sends records and takes the first changes, or ends the sync.
LEMMA ExchangeDoes ==
  ASSUME Typed, Exchange
  PROVE  /\ pc = "exchange" /\ UNCHANGED <<marks, recs, now, removed>>
         /\ server' = server \/ server' = Answer
         /\ \/ pc' = "idle" /\ s' = NoSync
            \/ /\ pc' = "pull" /\ SameWork /\ s'.list = s.list
               /\ s'.incoming = Collected(<<>>, Offers) /\ server' = Answer
         /\ Typed'
<1> DEFINE top == Max({0} \cup {Outgoing[n].id : n \in DOMAIN Outgoing})
           took == Collected(<<>>, Offers)
<1>1. /\ pc = "exchange" /\ UNCHANGED <<marks, recs, now, edits, removed, twice>>
      /\ \/ /\ server' = Answer
            /\ s' = [s EXCEPT !.incoming = took, !.top = top]
            /\ pc' = "pull" /\ NoFault
         \/ /\ server' = server \/ server' = Answer
            /\ Fault("request") \/ Fault("reply")
            /\ pc' = "idle" /\ s' = NoSync
  BY Zenon DEF Exchange, Answer, SentKeys, Goto, Return, device
<1>2. top \in Nat /\ took \in Seq(Change) /\ s \in Sync /\ Len(s.marks) <= Capacity
  BY TopIs, FirstTaken DEF Typed
<1> HIDE DEF top, took
<1>3. server \in Seq(Item) /\ Answer \in Seq(Item)
  BY AnswerIs, Zenon DEF AfterRequest, Typed
<1>4. CASE /\ server' = Answer
           /\ s' = [s EXCEPT !.incoming = took, !.top = top]
           /\ pc' = "pull" /\ NoFault
  <2>1. /\ s' \in Sync /\ s'.incoming = took /\ SameWork /\ s'.list = s.list
        /\ Len(s'.marks) <= Capacity
    BY <1>2, <1>4 DEF Sync, SameWork
  <2>2. faults' \in Seq(FaultKinds)
    BY <1>4, NoFaultKind
  <2>3. Typed'
    BY <1>1, <1>3, <1>4, <2>1, <2>2 DEF Typed, Steps
  <2> QED BY <1>1, <1>4, <2>1, <2>3 DEF took
<1>5. CASE /\ server' = server \/ server' = Answer
           /\ Fault("request") \/ Fault("reply")
           /\ pc' = "idle" /\ s' = NoSync
  <2>1. faults' \in Seq(FaultKinds)
    BY <1>5, FaultKind
  <2>2. s' \in Sync /\ Len(s'.marks) <= Capacity
    BY <1>5, NoSyncIs, ConstantsAssumption
  <2>3. Typed'
    BY <1>1, <1>3, <1>5, <2>1, <2>2 DEF Typed, Steps
  <2> QED BY <1>1, <1>5, <2>3
<1> QED
  BY <1>1, <1>4, <1>5

\* The server as it is has the highlights it has.
LEMMA SameAsIs ==
  ASSUME Typed
  PROVE  SameHighlights(server)
BY DEF Typed, SameHighlights

\* A further request brings further changes.
LEMMA PullDoes ==
  ASSUME Typed, Pull
  PROVE  /\ pc = "pull" /\ UNCHANGED <<marks, recs, now, removed>> /\ SameHighlights(server')
         /\ \/ /\ pc' = "pull" /\ SameWork /\ s'.list = s.list
               /\ s'.incoming = Collected(s.incoming, Offers)
            \/ pc' = "advance" /\ s' = s
         /\ Typed'
<1> DEFINE took == Collected(s.incoming, Offers)
           nothing == Received(<<>>, {}, FALSE)
           turn == s.round + 1
           Turned(more) == s' = [s EXCEPT !.incoming = took, !.round = turn, !.more = more]
<1>1. /\ pc = "pull" /\ UNCHANGED <<marks, recs, now, edits, removed, twice>>
      /\ \/ /\ server' = nothing
            /\ \E more \in BOOLEAN : Turned(more)
            /\ pc' = "pull" /\ NoFault
         \/ /\ server' = server \/ server' = nothing
            /\ Fault("request")
            /\ pc' = "advance" /\ s' = s
  <2>1. /\ pc = "pull" /\ UNCHANGED <<marks, recs, now, edits, removed, twice>>
    BY Zenon DEF Pull, device
  <2>2. \/ /\ server' = nothing
           /\ \E more \in BOOLEAN : Turned(more)
           /\ pc' = pc /\ NoFault
        \/ /\ server' \in {server, nothing}
           /\ Fault("request")
           /\ pc' = "advance" /\ s' = s
    BY Zenon DEF Pull, Goto
  <2> HIDE DEF Turned, nothing
  <2> QED BY <2>1, <2>2
<1>2. took \in Seq(Change) /\ s \in Sync /\ turn \in Nat /\ Len(s.marks) <= Capacity
  BY MoreTaken, SyncFields, SMTT(30) DEF Takes, Typed
<1>3. SameHighlights(nothing) /\ SameHighlights(server)
  BY ReceivedNothing, SameAsIs
<1> HIDE DEF took, nothing, turn, Turned
<1>4. SameHighlights(server')
  BY <1>1, <1>3
<1>5. server' \in Seq(Item)
  BY <1>4, Zenon DEF SameHighlights
<1>6. ASSUME NEW more \in BOOLEAN, Turned(more)
      PROVE  s' \in Sync /\ s'.incoming = took /\ SameWork /\ s'.list = s.list /\ Len(s'.marks) <= Capacity
  BY <1>2, <1>6 DEF Sync, SameWork, Turned
<1>7. CASE /\ server' = nothing
           /\ \E more \in BOOLEAN : Turned(more)
           /\ pc' = "pull" /\ NoFault
  <2>1. s' \in Sync /\ s'.incoming = took /\ SameWork /\ s'.list = s.list /\ Len(s'.marks) <= Capacity
    BY <1>6, <1>7
  <2>2. faults' \in Seq(FaultKinds)
    BY <1>7, NoFaultKind
  <2>3. Typed'
    BY <1>1, <1>5, <1>7, <2>1, <2>2 DEF Typed, Steps
  <2> QED BY <1>1, <1>4, <1>7, <2>1, <2>3 DEF took
<1>8. CASE Fault("request") /\ pc' = "advance" /\ s' = s
  <2>1. faults' \in Seq(FaultKinds)
    BY <1>8, FaultKind
  <2>2. Typed'
    BY <1>1, <1>2, <1>5, <1>8, <2>1 DEF Typed, Steps
  <2> QED BY <1>1, <1>4, <1>8, <2>2
<1> QED
  BY <1>1, <1>7, <1>8

\* What was sent is covered, and what was received is next.
LEMMA AdvanceDoes ==
  ASSUME Typed, Advance, Trimmed'
  PROVE  /\ pc \in {"pull", "advance"} /\ UNCHANGED <<marks, now, server, removed>>
         /\ \/ /\ recs'.list = recs.list /\ recs'.here = recs.here
               /\ \/ pc' = "idle" /\ s' = NoSync
                  \/ /\ pc' = "apply" /\ SameWork /\ s'.list = s.list
                     /\ s'.incoming = s.incoming /\ s'.next = 1
            \/ Cuts(Advanced(recs, s.top))
         /\ Typed'
<1>0. ~Fault("short") /\ ~Fault("retain")
  BY StaysTrimmed
<1> DEFINE f == Advanced(recs, s.top)
<1>1. /\ pc \in {"pull", "advance"} /\ UNCHANGED <<marks, now, server, edits, removed, twice>>
      /\ \/ /\ (recs' = f /\ NoFault) \/ (recs' = recs /\ Fault("put"))
            /\ \/ pc' = "idle" /\ s' = NoSync
               \/ /\ pc' = "apply"
                  /\ s' = [s EXCEPT !.next = 1, !.round = 0, !.more = FALSE]
         \/ CutShort(f)
  BY <1>0 DEF Advance, ShortFile, Return, Goto
<1>2. s \in Sync /\ recs \in RecordFile /\ Len(s.marks) <= Capacity /\ s.top \in Nat
  BY SyncFields DEF Typed
<1>3. f \in RecordFile /\ f.here = recs.here /\ f.list = recs.list
  BY <1>2, AdvancedIs
<1>4. f = Advanced(recs, s.top)
  OBVIOUS
<1> HIDE DEF f
<1>5. CASE /\ (recs' = f /\ NoFault) \/ (recs' = recs /\ Fault("put"))
           /\ \/ pc' = "idle" /\ s' = NoSync
              \/ pc' = "apply" /\ s' = [s EXCEPT !.next = 1, !.round = 0, !.more = FALSE]
  <2>1. faults' \in Seq(FaultKinds)
    BY <1>5, NoFaultKind, FaultKind
  <2>2. recs' \in RecordFile /\ recs'.list = recs.list /\ recs'.here = recs.here
    BY <1>2, <1>3, <1>5
  <2>3. CASE pc' = "idle" /\ s' = NoSync
    <3>1. s' \in Sync /\ Len(s'.marks) <= Capacity
      BY <2>3, NoSyncIs, ConstantsAssumption
    <3>2. Typed'
      BY <1>1, <2>1, <2>2, <2>3, <3>1 DEF Typed, Steps
    <3> QED BY <1>1, <2>2, <2>3, <3>2
  <2>4. CASE pc' = "apply" /\ s' = [s EXCEPT !.next = 1, !.round = 0, !.more = FALSE]
    <3> DEFINE one == 1
    <3>1. one \in Nat \ {0} /\ s' = [s EXCEPT !.next = one, !.round = 0, !.more = FALSE]
      BY <2>4
    <3>2. one = 1
      OBVIOUS
    <3> HIDE DEF one
    <3>3. /\ s' \in Sync /\ SameWork /\ s'.list = s.list /\ s'.incoming = s.incoming
          /\ s'.next = one /\ Len(s'.marks) <= Capacity
      BY <1>2, <3>1 DEF Sync, SameWork
    <3>4. Typed'
      BY <1>1, <2>1, <2>2, <2>4, <3>3 DEF Typed, Steps
    <3> QED BY <1>1, <2>2, <2>4, <3>2, <3>3, <3>4
  <2> QED BY <1>5, <2>3, <2>4
<1>6. CASE CutShort(f)
  <2>1. Cuts(f) /\ faults' \in Seq(FaultKinds)
    BY <1>3, <1>6, CutShortDoes
  <2>2. Typed'
    <3>1. recs' \in RecordFile /\ pc' = "idle" /\ s' \in Sync /\ Len(s'.marks) <= Capacity
      BY <2>1, NoSyncIs, ConstantsAssumption DEF Cuts
    <3> QED BY <1>1, <2>1, <3>1 DEF Typed, Steps
  <2> QED BY <1>1, <1>4, <2>1, <2>2
<1> QED
  BY <1>1, <1>5, <1>6

\* The change being applied.
LEMMA ChangeIs ==
  ASSUME Typed, Applying
  PROVE  /\ TheChange \in Change /\ s.next \in DOMAIN s.incoming /\ TheChange = s.incoming[s.next]
         /\ TheChange.item \in Nat /\ TheChange.p \in Passages /\ TheChange.key \in Nat \X Passages
         /\ TheChange.key[1] \in Nat /\ TheChange.deleted \in BOOLEAN
         /\ Max({s.newest, TheChange.key[1]}) \in Nat /\ s.next + 1 \in Nat \ {0}
         /\ s.applied \cup {TheChange.item} \subseteq Nat /\ s.dels \cup {TheChange.item} \subseteq Nat
<1>1. s.incoming \in Seq(Change) /\ s.next \in Nat \ {0} /\ s.newest \in Nat
  BY SyncFields
<1>2. s.next \in DOMAIN s.incoming
  BY <1>1, LenProperties DEF Applying
<1> DEFINE c == TheChange
<1>3. c \in Change
  BY <1>1, <1>2, ElementOfSeq DEF TheChange
<1>4. c = s.incoming[s.next]
  BY DEF TheChange
<1> HIDE DEF c
<1>5. c.item \in Nat /\ c.p \in Passages /\ c.key \in Nat \X Passages /\ c.deleted \in BOOLEAN
  BY <1>3 DEF Change
<1> DEFINE t == c.key[1]
<1>6. t \in Nat
  BY <1>5
<1> HIDE DEF t
<1>7. Max({s.newest, t}) \in Nat
  BY <1>1, <1>6, OfTwo
<1>8. s.next + 1 \in Nat \ {0}
  <2> DEFINE k == s.next
  <2>1. k \in Nat
    BY <1>1
  <2> HIDE DEF k
  <2>2. k + 1 \in Nat \ {0}
    BY <2>1
  <2> QED BY <2>2 DEF k
<1>9. s.applied \cup {c.item} \subseteq Nat /\ s.dels \cup {c.item} \subseteq Nat
  <2>1. s.applied \subseteq Nat /\ s.dels \subseteq Nat
    BY SyncFields
  <2> QED BY <1>5, <2>1, Zenon
<1> QED
  BY <1>2, <1>3, <1>4, <1>5, <1>6, <1>7, <1>8, <1>9 DEF c, t

\* The places of the highlights a deletion leaves.
Stays == {i \in DOMAIN s.marks : s.marks[i].ts \notin Gone}

\* A deletion takes its highlight out of the list.
LEMMA ApplyDeleteDoes ==
  ASSUME Typed, ApplyDelete
  PROVE  /\ pc = "apply" /\ pc' = "apply" /\ UNCHANGED <<marks, recs, now, server, removed>>
         /\ TheChange.deleted /\ s.next \in DOMAIN s.incoming
         /\ s'.marks = Picked(s.marks, Stays) /\ Shorter(s'.marks, s.marks, Stays)
         /\ s'.list = s.list /\ s'.incoming = s.incoming /\ s'.here = s.here
         /\ s'.applied = s.applied /\ s'.next = s.next + 1
         /\ Typed'
<1>1. /\ pc = "apply" /\ pc' = "apply" /\ Applying /\ TheChange.deleted
      /\ UNCHANGED <<marks, recs, now, server, edits, removed, twice>>
      /\ faults' \in Seq(FaultKinds)
  BY NoFaultKind DEF ApplyDelete, Applying, device
<1> DEFINE m == Picked(s.marks, Stays)
           d == s.dels \cup {TheChange.item}
           n == s.next + 1
<1>2. s' = [s EXCEPT !.marks = m, !.dels = d, !.next = n]
  BY DEF ApplyDelete, Stays
<1>3. m \in Seq(Mark) /\ Shorter(m, s.marks, Stays) /\ Len(m) <= Len(s.marks)
  <2>1. s.marks \in Seq(Mark)
    BY SyncFields
  <2> HIDE DEF Stays
  <2>2. m \in Seq(Mark) /\ Shorter(m, s.marks, Stays)
    BY <2>1, PickedFile
  <2> HIDE DEF m
  <2> QED BY <2>2, Zenon DEF Shorter
<1>4. d \subseteq Nat /\ n \in Nat \ {0} /\ s \in Sync /\ Len(s.marks) <= Capacity
  BY <1>1, ChangeIs, Zenon DEF Typed
<1>5. s.next \in DOMAIN s.incoming
  BY <1>1, ChangeIs
<1>6. n = s.next + 1 /\ m = Picked(s.marks, Stays)
  OBVIOUS
<1> HIDE DEF m, d, n
<1>7. /\ s' \in Sync /\ s'.marks = m /\ s'.list = s.list /\ s'.incoming = s.incoming
      /\ s'.here = s.here /\ s'.applied = s.applied /\ s'.next = n
  BY <1>2, <1>3, <1>4 DEF Sync
<1>8. Len(m) <= Capacity
  <2>1. Len(m) \in Nat /\ Len(s.marks) \in Nat /\ Capacity \in Nat
    BY <1>3, SyncFields, LenProperties, ConstantsAssumption
  <2> QED BY <1>3, <1>4, <2>1
<1>9. Typed'
  BY <1>1, <1>7, <1>8 DEF Typed, Steps
<1> QED
  BY <1>1, <1>3, <1>5, <1>6, <1>7, <1>9

\* A highlight that is present is acknowledged.
LEMMA ApplyPresentDoes ==
  ASSUME Typed, ApplyPresent
  PROVE  /\ pc = "apply" /\ pc' = "apply" /\ UNCHANGED <<marks, recs, now, server, removed>>
         /\ ~TheChange.deleted /\ Present(TheChange.p) /\ s.next \in DOMAIN s.incoming
         /\ s'.marks = s.marks /\ s'.list = s.list /\ s'.incoming = s.incoming /\ s'.here = s.here
         /\ s'.applied = s.applied \cup {TheChange.item} /\ s'.next = s.next + 1
         /\ Typed'
<1>1. /\ pc = "apply" /\ pc' = "apply" /\ Applying /\ ~TheChange.deleted /\ Present(TheChange.p)
      /\ UNCHANGED <<marks, recs, now, server, edits, removed, twice>>
      /\ faults' \in Seq(FaultKinds)
  BY NoFaultKind DEF ApplyPresent, Applying, device
<1> DEFINE a == s.applied \cup {TheChange.item}
           w == Max({s.newest, TheChange.key[1]})
           n == s.next + 1
<1>2. s' = [s EXCEPT !.applied = a, !.newest = w, !.next = n]
  BY DEF ApplyPresent
<1>3. /\ a \subseteq Nat /\ n \in Nat \ {0} /\ w \in Nat /\ s \in Sync /\ Len(s.marks) <= Capacity
      /\ s.next \in DOMAIN s.incoming
  BY <1>1, ChangeIs, Zenon DEF Typed
<1>4. n = s.next + 1 /\ a = s.applied \cup {TheChange.item}
  OBVIOUS
<1> HIDE DEF a, w, n
<1>5. /\ s' \in Sync /\ s'.marks = s.marks /\ s'.list = s.list /\ s'.incoming = s.incoming
      /\ s'.here = s.here /\ s'.applied = a /\ s'.next = n
  BY <1>2, <1>3 DEF Sync
<1>6. Typed'
  BY <1>1, <1>3, <1>5 DEF Typed, Steps
<1> QED
  BY <1>1, <1>3, <1>4, <1>5, <1>6

\* m is the highlight made for an addition, r its record.
Adds(m, r) ==
  /\ m \in Mark /\ m.p = TheChange.p /\ ~m.own
  /\ \A i \in DOMAIN s.marks : s.marks[i].ts # m.ts /\ s.marks[i].p # m.p
  /\ r \in Record /\ r.ts = m.ts /\ r.id = TheChange.key[1] /\ r.p = TheChange.p

\* An addition brings its highlight and record, unless the power fails.
LEMMA ApplyAddDoes ==
  ASSUME Typed, ApplyAdd, Trimmed'
  PROVE  /\ pc = "apply" /\ UNCHANGED <<marks, now, server, removed>>
         /\ ~TheChange.deleted /\ ~Present(TheChange.p) /\ s.next \in DOMAIN s.incoming
         /\ \E m, r :
              /\ Adds(m, r)
              /\ \/ /\ pc' = "apply" /\ recs' \in {recs, PutRecord(recs, r)}
                    /\ s'.marks = Append(s.marks, m) /\ s'.list = Append(s.list, r)
                    /\ s'.incoming = s.incoming /\ s'.here = s.here \cup {m.ts}
                    /\ s'.applied = s.applied \cup {TheChange.item} /\ s'.next = s.next + 1
                 \/ Cuts(PutRecord(recs, r))
         /\ Typed'
<1>0. ~Fault("short") /\ ~Fault("retain")
  BY StaysTrimmed
<1> DEFINE ts == Stamp(s.marks, now)
           m == [ts |-> ts, p |-> TheChange.p, own |-> FALSE]
           r == [ts |-> ts, id |-> TheChange.key[1], p |-> TheChange.p]
           added == [s EXCEPT !.marks = Append(@, m), !.list = Append(@, r), !.here = @ \cup {ts},
                              !.applied = @ \cup {TheChange.item},
                              !.newest = Max({@, TheChange.key[1]}), !.next = @ + 1]
<1>1. /\ pc = "apply" /\ Applying /\ ~TheChange.deleted /\ ~Present(TheChange.p)
      /\ Len(s.marks) < Capacity
      /\ UNCHANGED <<marks, now, server, edits, removed, twice>>
      /\ \/ recs' = PutRecord(recs, r) /\ NoFault /\ s' = added /\ pc' = pc
         \/ recs' = recs /\ Fault("record") /\ s' = added /\ pc' = pc
         \/ CutShort(PutRecord(recs, r))
  BY <1>0, Zenon DEF ApplyAdd, ShortPut, Applying
<1> DEFINE m2 == Append(s.marks, m)
           l2 == Append(s.list, r)
           h == s.here \cup {ts}
           a == s.applied \cup {TheChange.item}
           w == Max({s.newest, TheChange.key[1]})
           n == s.next + 1
<1>2. added = [s EXCEPT !.marks = m2, !.list = l2, !.here = h, !.applied = a, !.newest = w, !.next = n]
  OBVIOUS
<1>3. s.marks \in Seq(Mark) /\ now \in Nat /\ s \in Sync /\ recs \in RecordFile /\ s.list \in Seq(Record)
  BY SyncFields DEF Typed
<1>4. ts \in Nat /\ \A i \in DOMAIN s.marks : s.marks[i].ts # ts
  BY <1>3, StampIs
<1>5. \A i \in DOMAIN s.marks : s.marks[i].p # TheChange.p
  BY <1>1, InRefs DEF Present
<1>6. /\ TheChange.p \in Passages /\ TheChange.item \in Nat /\ TheChange.key[1] \in Nat
      /\ s.next \in DOMAIN s.incoming /\ w \in Nat
  BY <1>1, ChangeIs
<1> HIDE DEF ts, added, w
<1>7. m \in Mark /\ m.ts = ts /\ m.p = TheChange.p /\ ~m.own
  BY <1>4, <1>6, FieldTypes
<1>8. r \in Record /\ r.ts = ts /\ r.p = TheChange.p /\ r.id = TheChange.key[1]
  <2> DEFINE id == TheChange.key[1]
  <2>1. r = [ts |-> ts, id |-> id, p |-> TheChange.p] /\ id \in Nat
    BY <1>6
  <2> HIDE DEF id, r
  <2>2. r \in Record /\ r.ts = ts /\ r.p = TheChange.p /\ r.id = id
    BY <1>4, <1>6, <2>1, FieldTypes
  <2> QED BY <2>2 DEF id
<1> HIDE DEF m, r
<1>9. Adds(m, r)
  BY <1>4, <1>5, <1>7, <1>8 DEF Adds
<1>10. m2 \in Seq(Mark) /\ l2 \in Seq(Record) /\ Len(m2) = Len(s.marks) + 1
  BY <1>3, <1>7, <1>8, OneMore
<1>11. h \subseteq Nat /\ a \subseteq Nat /\ n \in Nat \ {0}
  <2>1. s.here \subseteq Nat
    BY SyncFields
  <2>2. h \subseteq Nat
    BY <1>4, <2>1, Zenon
  <2> QED BY <1>1, <2>2, ChangeIs, Zenon
<1>12. /\ m2 = Append(s.marks, m) /\ l2 = Append(s.list, r) /\ h = s.here \cup {m.ts}
       /\ a = s.applied \cup {TheChange.item} /\ n = s.next + 1
  BY <1>7
<1> HIDE DEF m2, l2, h, a, n
<1>13. /\ added \in Sync /\ added.marks = m2 /\ added.list = l2 /\ added.incoming = s.incoming
       /\ added.here = h /\ added.applied = a /\ added.next = n
  BY <1>2, <1>3, <1>6, <1>10, <1>11 DEF Sync
<1>14. Len(m2) <= Capacity
  <2>1. Len(s.marks) \in Nat /\ Capacity \in Nat
    BY <1>3, LenProperties, ConstantsAssumption
  <2> QED BY <1>1, <1>10, <2>1
<1>15. PutRecord(recs, r) \in RecordFile
  BY <1>3, <1>8, PutIs DEF Puts
<1>16. CASE /\ (recs' = PutRecord(recs, r) /\ NoFault) \/ (recs' = recs /\ Fault("record"))
            /\ s' = added /\ pc' = pc
  <2>1. faults' \in Seq(FaultKinds)
    BY <1>16, NoFaultKind, FaultKind
  <2>2. /\ pc' = "apply" /\ recs' \in {recs, PutRecord(recs, r)} /\ s'.marks = Append(s.marks, m)
        /\ s'.list = Append(s.list, r) /\ s'.incoming = s.incoming /\ s'.here = s.here \cup {m.ts}
        /\ s'.applied = s.applied \cup {TheChange.item} /\ s'.next = s.next + 1
    BY <1>1, <1>12, <1>13, <1>16
  <2>3. recs' \in RecordFile /\ s' \in Sync /\ Len(s'.marks) <= Capacity
    BY <1>3, <1>13, <1>14, <1>15, <1>16
  <2>4. Typed'
    BY <1>1, <1>16, <2>1, <2>3 DEF Typed, Steps
  <2> QED BY <1>1, <1>6, <1>9, <2>2, <2>4, Zenon
<1>17. CASE CutShort(PutRecord(recs, r))
  <2>1. Cuts(PutRecord(recs, r)) /\ faults' \in Seq(FaultKinds)
    BY <1>15, <1>17, CutShortDoes
  <2>2. Typed'
    <3>1. recs' \in RecordFile /\ pc' = "idle" /\ s' \in Sync /\ Len(s'.marks) <= Capacity
      BY <2>1, NoSyncIs, ConstantsAssumption DEF Cuts
    <3> QED BY <1>1, <2>1, <3>1 DEF Typed, Steps
  <2> QED BY <1>1, <1>6, <1>9, <2>1, <2>2, Zenon
<1> QED
  BY <1>1, <1>16, <1>17

\* One that cannot be placed, or has no room, is passed over.
LEMMA ApplyLaterDoes ==
  ASSUME Typed, ApplyLater
  PROVE  /\ pc = "apply" /\ pc' = "apply" /\ UNCHANGED <<marks, recs, now, server, removed>>
         /\ ~TheChange.deleted /\ s.next \in DOMAIN s.incoming
         /\ SameWork /\ s'.list = s.list /\ s'.incoming = s.incoming /\ s'.next = s.next + 1
         /\ Typed'
<1>1. /\ pc = "apply" /\ pc' = "apply" /\ Applying /\ ~TheChange.deleted
      /\ UNCHANGED <<marks, recs, now, server, edits, removed, twice>>
      /\ faults' \in Seq(FaultKinds)
  BY NoFaultKind DEF ApplyLater, Applying, device
<1> DEFINE n == s.next + 1
<1>2. s' = [s EXCEPT !.next = n] /\ n = s.next + 1
  BY DEF ApplyLater
<1>3. n \in Nat \ {0} /\ s \in Sync /\ Len(s.marks) <= Capacity /\ s.next \in DOMAIN s.incoming
  BY <1>1, ChangeIs, Zenon DEF Typed
<1> HIDE DEF n
<1>4. s' \in Sync /\ SameWork /\ s'.list = s.list /\ s'.incoming = s.incoming /\ s'.next = n
  BY <1>2, <1>3 DEF Sync, SameWork
<1>5. Typed'
  BY <1>1, <1>3, <1>4 DEF Typed, Steps, SameWork
<1> QED
  BY <1>1, <1>2, <1>3, <1>4, <1>5

\* The highlight file is cut short.
Torn == marks' \in MarkFile /\ DOMAIN marks'.list = {} /\ Len(marks'.list) <= Capacity /\ "torn" \in Faults

LEMMA TornIs ==
  ASSUME Typed, marks' = TornFile, Fault("torn")
  PROVE  Torn /\ faults' \in Seq(FaultKinds)
<1>1. "torn" \in Faults /\ faults' \in Seq(FaultKinds)
  BY FaultKind
<1> DEFINE none == <<>>
<1>2. none \in Seq(Mark) /\ DOMAIN none = {} /\ Len(none) = 0 /\ marks' = [readable |-> FALSE, list |-> none]
  BY EmptySeq DEF TornFile
<1> HIDE DEF none
<1>3. marks' \in MarkFile /\ marks'.list = none
  BY <1>2 DEF MarkFile
<1>4. Len(marks'.list) <= Capacity
  BY <1>2, <1>3, ConstantsAssumption
<1> QED
  BY <1>1, <1>2, <1>3, <1>4 DEF Torn

\* A file that holds a list.
LEMMA HoldingIs ==
  ASSUME NEW m \in Seq(Mark)
  PROVE  Holding(m) \in MarkFile /\ Holding(m).list = m
BY DEF Holding, MarkFile

\* Save writes the highlights, or ends the sync.
LEMMA SaveDoes ==
  ASSUME Typed, Save
  PROVE  /\ pc = "apply" /\ UNCHANGED <<recs, now, server, removed>> /\ Due = {}
         /\ \/ marks'.list = s.marks /\ pc' = "cover" /\ s' = s
            \/ pc' = "idle" /\ s' = NoSync /\ (marks' = marks \/ Torn)
         /\ Typed'
<1>1. /\ pc = "apply" /\ s.next > Len(s.incoming)
      /\ UNCHANGED <<recs, now, server, edits, removed, twice>>
      /\ \/ marks' = Holding(s.marks) /\ pc' = "cover" /\ NoFault /\ s' = s
         \/ marks' = marks /\ Fault("save") /\ pc' = "idle" /\ s' = NoSync
         \/ marks' = TornFile /\ Fault("torn") /\ pc' = "idle" /\ s' = NoSync
  BY Zenon DEF Save, AfterFailedSave, Return, Goto
<1>2. s.marks \in Seq(Mark) /\ Len(s.marks) <= Capacity /\ s \in Sync
  BY SyncFields DEF Typed
<1>3. Due = {}
  <2>1. s.incoming \in Seq(Change) /\ s.next \in Nat
    BY SyncFields
  <2>2. \A n \in DOMAIN s.incoming : ~(n >= s.next)
    BY <1>1, <2>1, LenProperties
  <2> QED BY <2>2 DEF Due
<1>4. CASE marks' = Holding(s.marks) /\ pc' = "cover" /\ NoFault /\ s' = s
  <2>1. marks' \in MarkFile /\ marks'.list = s.marks
    BY <1>2, <1>4, HoldingIs
  <2>2. faults' \in Seq(FaultKinds)
    BY <1>4, NoFaultKind
  <2>3. Typed'
    BY <1>1, <1>2, <1>4, <2>1, <2>2 DEF Typed, Steps
  <2> QED BY <1>1, <1>3, <1>4, <2>1, <2>3
<1>5. CASE (marks' = marks \/ Torn) /\ faults' \in Seq(FaultKinds) /\ pc' = "idle" /\ s' = NoSync
  <2>1. s' \in Sync /\ Len(s'.marks) <= Capacity
    BY <1>5, NoSyncIs, ConstantsAssumption
  <2>2. marks' \in MarkFile /\ Len(marks'.list) <= Capacity
    BY <1>5 DEF Torn, Typed
  <2>3. Typed'
    BY <1>1, <1>5, <2>1, <2>2 DEF Typed, Steps
  <2> QED BY <1>1, <1>3, <1>5, <2>3
<1>6. CASE marks' = marks /\ Fault("save") /\ pc' = "idle" /\ s' = NoSync
  BY <1>5, <1>6, FaultKind
<1>7. CASE marks' = TornFile /\ Fault("torn") /\ pc' = "idle" /\ s' = NoSync
  BY <1>5, <1>7, TornIs
<1> QED
  BY <1>1, <1>4, <1>6, <1>7

\* Cover advances the watermark and goes on to the acknowledgment, if any.
LEMMA CoverDoes ==
  ASSUME Typed, Cover, Trimmed'
  PROVE  /\ pc = "cover" /\ UNCHANGED <<marks, now, server, removed>>
         /\ \/ /\ recs'.list = recs.list /\ recs'.here = recs.here
               /\ (pc' = "idle" /\ s' = NoSync) \/ (pc' = "ack" /\ s' = s)
            \/ Cuts(Advanced(recs, s.newest))
         /\ Typed'
<1>0. ~Fault("short") /\ ~Fault("retain")
  BY StaysTrimmed
<1> DEFINE covered == IF s.newest > 0 /\ ~LocalStillPending THEN Advanced(recs, s.newest) ELSE recs
           f == Advanced(recs, s.newest)
<1>1. /\ pc = "cover" /\ UNCHANGED <<marks, now, server, edits, removed, twice>>
      /\ \/ /\ (recs' = covered /\ NoFault) \/ (recs' = recs /\ Fault("put"))
            /\ (pc' = "idle" /\ s' = NoSync) \/ (pc' = "ack" /\ s' = s)
         \/ covered # recs /\ CutShort(covered)
  BY <1>0 DEF Cover, ShortFile, Return, Goto
<1>2. s \in Sync /\ recs \in RecordFile /\ Len(s.marks) <= Capacity /\ s.newest \in Nat
  BY SyncFields DEF Typed
<1>3. f \in RecordFile /\ f.here = recs.here /\ f.list = recs.list
  BY <1>2, AdvancedIs
<1>4. covered \in {f, recs}
  OBVIOUS
<1>5. f = Advanced(recs, s.newest)
  OBVIOUS
<1> HIDE DEF f, covered
<1>6. CASE /\ (recs' = covered /\ NoFault) \/ (recs' = recs /\ Fault("put"))
           /\ (pc' = "idle" /\ s' = NoSync) \/ (pc' = "ack" /\ s' = s)
  <2>1. faults' \in Seq(FaultKinds)
    BY <1>6, NoFaultKind, FaultKind
  <2>2. recs' \in RecordFile /\ recs'.list = recs.list /\ recs'.here = recs.here
    BY <1>2, <1>3, <1>4, <1>6
  <2>3. s' \in Sync /\ Len(s'.marks) <= Capacity
    BY <1>2, <1>6, NoSyncIs, ConstantsAssumption
  <2>4. Typed'
    BY <1>1, <1>6, <2>1, <2>2, <2>3 DEF Typed, Steps
  <2> QED BY <1>1, <1>6, <2>2, <2>4
<1>7. CASE covered # recs /\ CutShort(covered)
  <2>1. CutShort(f)
    BY <1>4, <1>7
  <2>2. Cuts(f) /\ faults' \in Seq(FaultKinds)
    BY <1>3, <2>1, CutShortDoes
  <2>3. Typed'
    <3>1. recs' \in RecordFile /\ pc' = "idle" /\ s' \in Sync /\ Len(s'.marks) <= Capacity
      BY <2>2, NoSyncIs, ConstantsAssumption DEF Cuts
    <3> QED BY <1>1, <2>2, <3>1 DEF Typed, Steps
  <2> QED BY <1>1, <1>5, <2>2, <2>3
<1> QED
  BY <1>1, <1>6, <1>7

\* An acknowledgment reaches the server or not, and ends the sync.
LEMMA AckDoes ==
  ASSUME Typed, Ack
  PROVE  /\ pc = "ack" /\ pc' = "idle" /\ s' = NoSync /\ UNCHANGED <<marks, recs, now, removed>>
         /\ server' \in {server, Acknowledged(s.applied, s.dels)}
         /\ Typed'
<1> DEFINE next == Acknowledged(s.applied, s.dels)
<1>1. /\ pc = "ack" /\ UNCHANGED <<marks, recs, now, edits, removed, twice>>
      /\ (server' = next /\ NoFault) \/ (server' = server /\ Fault("ack"))
      /\ pc' = "idle" /\ s' = NoSync
  BY Zenon DEF Ack, Return, device
<1>2. next \in Seq(Item) /\ server \in Seq(Item)
  BY AcknowledgedIs DEF Typed
<1> HIDE DEF next
<1>3. faults' \in Seq(FaultKinds)
  BY <1>1, NoFaultKind, FaultKind
<1>4. s' \in Sync /\ Len(s'.marks) <= Capacity /\ server' \in Seq(Item)
  BY <1>1, <1>2, NoSyncIs, ConstantsAssumption
<1>5. Typed'
  BY <1>1, <1>3, <1>4 DEF Typed, Steps
<1> QED
  BY <1>1, <1>5 DEF next

\* The reader highlights a passage.
LEMMA MarkPassageDoes ==
  ASSUME Typed, NEW p \in Passages, MarkPassage(p)
  PROVE  /\ pc = "idle" /\ UNCHANGED <<recs, server, pc, s, removed>>
         /\ \/ \E m : /\ m \in Mark /\ m.own /\ m.p = p
                      /\ \A i \in DOMAIN marks.list : marks.list[i].ts # m.ts
                      /\ marks'.list = Append(marks.list, m)
            \/ Torn
         /\ Typed'
<1> DEFINE ts == Stamp(marks.list, now + 1)
           m == [ts |-> ts, p |-> p, own |-> TRUE]
           m2 == Append(marks.list, m)
<1>1. /\ pc = "idle" /\ UNCHANGED <<recs, server, pc, s, removed>>
      /\ edits < MaxEdits /\ edits' = edits + 1 /\ now' = now + 1
      /\ (marks' = Holding(m2) /\ NoFault) \/ (marks' = TornFile /\ Fault("torn"))
      /\ Len(marks.list) < Capacity
  BY DEF MarkPassage, Edit
<1>2. twice' \subseteq Passages
  <2>1. twice' = twice \cup {q \in {p} : q \in Marked(marks.list) \/ \E i \in DOMAIN server : server[i].p = q}
    BY DEF MarkPassage, Highlighted
  <2> QED BY <2>1 DEF Typed
<1>3. marks.list \in Seq(Mark) /\ now \in Nat /\ now + 1 \in Nat
  BY SyncFields DEF Typed
<1>4. ts \in Nat /\ \A i \in DOMAIN marks.list : marks.list[i].ts # ts
  BY <1>3, StampIs
<1> HIDE DEF ts
<1>5. m \in Mark /\ m.ts = ts /\ m.p = p /\ m.own
  BY <1>4, FieldTypes
<1> HIDE DEF m
<1>6. m2 \in Seq(Mark) /\ Len(m2) = Len(marks.list) + 1
  BY <1>3, <1>5, OneMore
<1>7. Len(m2) <= Capacity
  <2>1. Len(marks.list) \in Nat /\ Capacity \in Nat
    BY <1>3, LenProperties, ConstantsAssumption
  <2> QED BY <1>1, <1>6, <2>1
<1>8. edits' \in 0 .. MaxEdits /\ now' \in Nat
  BY <1>1, ConstantsAssumption DEF Typed
<1>9. m2 = Append(marks.list, m)
  OBVIOUS
<1> HIDE DEF m2
<1>10. CASE marks' = Holding(m2) /\ NoFault
  <2>1. marks' \in MarkFile /\ marks'.list = m2 /\ faults' \in Seq(FaultKinds)
    BY <1>6, <1>10, HoldingIs, NoFaultKind
  <2>2. Typed'
    BY <1>1, <1>2, <1>7, <1>8, <2>1 DEF Typed
  <2> QED BY <1>1, <1>4, <1>5, <1>9, <2>1, <2>2
<1>11. CASE marks' = TornFile /\ Fault("torn")
  <2>1. Torn /\ faults' \in Seq(FaultKinds)
    BY <1>11, TornIs
  <2>2. Typed'
    BY <1>1, <1>2, <1>8, <2>1 DEF Typed, Torn
  <2> QED BY <1>1, <2>1, <2>2
<1> QED
  BY <1>1, <1>10, <1>11

\* The reader removes a highlight.
LEMMA RemoveMarkDoes ==
  ASSUME Typed, NEW i \in DOMAIN marks.list, RemoveMark(i)
  PROVE  /\ pc = "idle" /\ UNCHANGED <<recs, server, pc, s>>
         /\ removed' = removed \cup {marks.list[i].p}
         /\ Shorter(marks'.list, marks.list, DOMAIN marks.list \ {i}) \/ Torn
         /\ Typed'
<1> DEFINE rest == DOMAIN marks.list \ {i}
           m2 == Picked(marks.list, rest)
<1>1. /\ pc = "idle" /\ UNCHANGED <<recs, server, pc, s, twice>>
      /\ removed' = removed \cup {marks.list[i].p}
      /\ edits < MaxEdits /\ edits' = edits + 1 /\ now' = now + 1
      /\ (marks' = Holding(m2) /\ NoFault) \/ (marks' = TornFile /\ Fault("torn"))
  BY DEF RemoveMark, Edit
<1>2. marks.list \in Seq(Mark) /\ marks.list[i] \in Mark
  BY SyncFields, ElementOfSeq
<1>3. removed' \subseteq Passages
  BY <1>1, <1>2, FieldTypes DEF Typed
<1>4. edits' \in 0 .. MaxEdits /\ now' \in Nat
  BY <1>1, ConstantsAssumption DEF Typed
<1> HIDE DEF rest
<1>5. m2 \in Seq(Mark) /\ Shorter(m2, marks.list, rest)
  BY <1>2, PickedFile
<1> HIDE DEF m2
<1>6. Len(m2) <= Capacity
  <2>1. Len(m2) <= Len(marks.list)
    BY <1>5, Zenon DEF Shorter
  <2>2. Len(m2) \in Nat /\ Len(marks.list) \in Nat /\ Capacity \in Nat
    BY <1>2, <1>5, LenProperties, ConstantsAssumption
  <2> QED BY <2>1, <2>2 DEF Typed
<1>7. CASE marks' = Holding(m2) /\ NoFault
  <2>1. marks' \in MarkFile /\ marks'.list = m2 /\ faults' \in Seq(FaultKinds)
    BY <1>5, <1>7, HoldingIs, NoFaultKind
  <2>2. Typed'
    BY <1>1, <1>3, <1>4, <1>6, <2>1 DEF Typed
  <2>3. Shorter(marks'.list, marks.list, rest)
    BY <1>5, <2>1
  <2> QED BY <1>1, <2>2, <2>3 DEF rest
<1>8. CASE marks' = TornFile /\ Fault("torn")
  <2>1. Torn /\ faults' \in Seq(FaultKinds)
    BY <1>8, TornIs
  <2>2. Typed'
    BY <1>1, <1>3, <1>4, <2>1 DEF Typed, Torn
  <2> QED BY <1>1, <2>1, <2>2
<1> QED
  BY <1>1, <1>7, <1>8

\* A highlight made on the web; no other of its passage is there.
LEMMA WebAddDoes ==
  ASSUME Typed, NEW p \in Passages, NEW date \in WebDates, WebAdd(p, date)
  PROVE  /\ UNCHANGED <<marks, recs, now, pc, s, removed>>
         /\ \E x : /\ x \in Item /\ x.p = p /\ x.key[2] = p /\ x.state = "live" /\ ~x.delivered
                   /\ Grows(server', server, x)
         /\ \A i \in DOMAIN server : server[i].p # p \/ server[i].state \in {"gone", "deviceDeleted"}
         /\ Typed'
<1> DEFINE key == <<date, p>>
           x == [p |-> p, key |-> key, web |-> TRUE, ready |-> FALSE, delivered |-> FALSE,
                 state |-> "live"]
<1>1. /\ UNCHANGED <<marks, recs, now, pc, s, faults, edits, removed>> /\ server' = Append(server, x)
      /\ \A i \in DOMAIN server : server[i].p # p \/ server[i].state \in {"gone", "deviceDeleted"}
  BY Zenon DEF WebAdd, device
<1>2. twice' \subseteq Passages
  <2>1. twice' = twice \cup {q \in {p} : q \in Marked(marks.list) \/ \E i \in DOMAIN server : server[i].p = q}
    BY DEF WebAdd, Highlighted
  <2> QED BY <2>1 DEF Typed
<1>3. key \in Nat \X Passages /\ key[2] = p
  BY ConstantsAssumption
<1> HIDE DEF key
<1>4. "live" \in ItemStates
  BY DEF ItemStates
<1>5. x \in Item /\ x.p = p /\ x.key = key /\ x.state = "live" /\ ~x.delivered
  BY <1>3, <1>4, ItemFields
<1> HIDE DEF x
<1>6. server' \in Seq(Item) /\ Grows(server', server, x)
  <2>1. server \in Seq(Item)
    BY DEF Typed
  <2> QED BY <1>1, <1>5, <2>1, AppendGrows
<1>7. Typed'
  BY <1>1, <1>2, <1>6 DEF Typed
<1>8. x.key[2] = p
  BY <1>3, <1>5
<1> QED
  BY <1>1, <1>5, <1>6, <1>7, <1>8

\* One is deleted on the web.
LEMMA WebDeleteDoes ==
  ASSUME Typed, NEW i \in DOMAIN server, WebDelete(i)
  PROVE  /\ UNCHANGED <<marks, recs, now, pc, s, removed>>
         /\ server[i].state = "live" /\ DOMAIN server' = DOMAIN server
         /\ \A j \in DOMAIN server :
              /\ server'[j].p = server[j].p /\ server'[j].key = server[j].key
              /\ server'[j].delivered <=> server[j].delivered
              /\ IF j = i THEN server'[j].state = "webDeleted" ELSE server'[j].state = server[j].state
         /\ Typed'
<1>1. /\ UNCHANGED <<marks, recs, now, pc, s, faults, edits, removed, twice>>
      /\ server[i].state = "live" /\ server' = [server EXCEPT ![i].state = "webDeleted"]
  BY Zenon DEF WebDelete, device
<1> DEFINE x == server[i]
           x2 == [x EXCEPT !.state = "webDeleted"]
<1>2. server \in Seq(Item) /\ x \in Item
  BY ElementOfSeq DEF Typed
<1>3. server' = [server EXCEPT ![i] = x2]
  BY <1>1
<1>4. x2 \in Item /\ x2.p = x.p /\ x2.key = x.key /\ x2.delivered = x.delivered /\ x2.state = "webDeleted"
  <2>1. "webDeleted" \in ItemStates
    BY DEF ItemStates
  <2>2. Item = [p : Passages, key : Nat \X Passages, web : BOOLEAN, ready : BOOLEAN,
                delivered : BOOLEAN, state : ItemStates]
    BY DEF Item, ItemStates
  <2> HIDE DEF x, ItemStates
  <2> QED BY <1>2, <2>1, <2>2
<1> HIDE DEF x2
<1>5. server' \in Seq(Item) /\ DOMAIN server' = DOMAIN server
  <2>1. i \in 1 .. Len(server)
    BY <1>2, LenProperties
  <2>2. server' \in Seq(Item) /\ Len(server') = Len(server)
    BY <1>2, <1>3, <1>4, <2>1, ExceptSeq
  <2> QED BY <1>2, <2>2, LenProperties
<1>6. \A j \in DOMAIN server : server'[j] = IF j = i THEN x2 ELSE server[j]
  BY <1>2, <1>3
<1>7. Typed'
  BY <1>1, <1>5 DEF Typed
<1> QED
  BY <1>1, <1>4, <1>5, <1>6, <1>7

\* Power fails.
LEMMA PowerCutDoes ==
  ASSUME Typed, PowerCut
  PROVE  pc' = "idle" /\ s' = NoSync /\ UNCHANGED <<marks, recs, now, server, removed>> /\ Typed'
<1>1. /\ pc' = "idle" /\ s' = NoSync
      /\ UNCHANGED <<marks, recs, now, server, edits, removed, twice>> /\ Fault("power")
  BY Zenon DEF PowerCut, Return, device
<1>2. s' \in Sync /\ Len(s'.marks) <= Capacity /\ faults' \in Seq(FaultKinds)
  BY <1>1, NoSyncIs, ConstantsAssumption, FaultKind
<1> QED
  BY <1>1, <1>2 DEF Typed, Steps

-----------------------------------------------------------------------------
(* What holds of the highlights whatever fails, retain() included.         *)

Fine(m) == OneEach(m) /\ OnceEach(m)

Basic == Typed /\ Fine(marks.list) /\ Fine(s.marks)

\* The changes are to highlights the server has.
PlacedIn(q) == \A n \in DOMAIN q : q[n].item \in DOMAIN server /\ server[q[n].item].p = q[n].p

\* Nothing is sound.
LEMMA NothingSound ==
  \A q : DOMAIN q = {} => Fine(q) /\ RefsApart(q) /\ PlacedIn(q)
BY DEF Fine, OneEach, OnceEach, RefsApart, PlacedIn

\* A step that may write the record file, and leaves the sync with these highlights.
Writes(m) ==
  /\ recs' \in RecordFile /\ faults' \in Seq(FaultKinds)
  /\ (s' \in Sync /\ s'.marks = m) \/ s' = NoSync
  /\ pc' \in Steps

LEMMA WritesBasic ==
  ASSUME Basic, NEW m, Fine(m), Len(m) <= Capacity, Writes(m), marks' = marks \/ Torn,
         UNCHANGED <<now, server, edits, removed, twice>>
  PROVE  Basic'
<1>1. s' \in Sync /\ Len(s'.marks) <= Capacity /\ Fine(s'.marks)
  BY NoSyncIs, NothingSound, ConstantsAssumption DEF Writes
<1>2. marks' \in MarkFile /\ Len(marks'.list) <= Capacity /\ Fine(marks'.list)
  BY NothingSound DEF Basic, Typed, Torn
<1> QED
  BY <1>1, <1>2 DEF Basic, Typed, Writes

\* What is left of the record file is one, however it was cut short.
LEMMA CutWrites ==
  ASSUME Typed, NEW f \in RecordFile, CutShort(f), NEW m
  PROVE  Writes(m)
<1>1. Cuts(f) /\ faults' \in Seq(FaultKinds)
  BY CutShortDoes
<1>2. recs' \in RecordFile /\ s' = NoSync /\ pc' = "idle"
  BY <1>1, Zenon DEF Cuts
<1> QED
  BY <1>1, <1>2, NoSyncIs DEF Writes, Steps

LEMMA ShortFileIs ==
  ASSUME Typed, NEW f \in RecordFile, ShortFile(f)
  PROVE  recs' \in RecordFile /\ faults' \in Seq(FaultKinds)
BY PartIs, FaultKind DEF ShortFile

LEMMA ShortPutIs ==
  ASSUME Typed, NEW r \in Record, ShortPut(r)
  PROVE  recs' \in RecordFile /\ faults' \in Seq(FaultKinds)
<1>1. faults' \in Seq(FaultKinds) /\ recs \in RecordFile
  BY FaultKind DEF ShortPut, Typed
<1>2. PICK f \in Part(recs) : recs' \in Part(PutRecord(f, r))
  BY DEF ShortPut
<1>3. f \in RecordFile
  BY <1>1, <1>2, PartIs
<1>4. PutRecord(f, r) \in RecordFile
  BY <1>3, PutIs, Zenon DEF Puts
<1> QED
  BY <1>1, <1>2, <1>4, PartIs

\* Each step that writes the record file.
LEMMA MintBasic ==
  ASSUME Basic, Mint
  PROVE  Basic'
<1>1. /\ Typed /\ recs \in RecordFile /\ s \in Sync /\ Fine(s.marks) /\ Len(s.marks) <= Capacity
      /\ pc = "mint" /\ Unrecorded # {} /\ UNCHANGED <<marks, now, server, edits, removed, twice>>
  BY DEF Basic, Typed, Mint
<1> DEFINE i == Min(Unrecorded)
           m == s.marks[i]
           r == [ts |-> m.ts, id |-> Identity(m), p |-> m.p]
           passed == [s EXCEPT !.next = i + 1]
           minted == [passed EXCEPT !.late = IF m.ts > s.watermark THEN @ ELSE @ + 1]
           put == [minted EXCEPT !.list = Append(@, r), !.respelt = TRUE]
<1>2. \/ recs' = PutRecord(recs, r) /\ s' = put /\ NoFault /\ pc' = "mint"
      \/ recs' = recs /\ s' = minted /\ Fault("put") /\ pc' = "mint"
      \/ ShortPut(r) /\ (s' = put \/ s' = minted) /\ pc' = "mint"
      \/ recs' = recs /\ s' = passed /\ (Fault("mint") \/ NoFault) /\ pc' = "mint"
      \/ CutShort(PutRecord(recs, r))
      \/ Fault("book") /\ recs' = recs /\ s' = [s EXCEPT !.next = Len(s.marks) + 1] /\ pc' = "mint"
  BY <1>1 DEF Mint, Goto
<1>3. i \in DOMAIN s.marks /\ i \in Nat
  BY <1>1, SyncFields, FirstOf DEF Unrecorded
<1> HIDE DEF i
<1>4. m \in Mark
  BY <1>1, <1>3, SyncFields, ElementOfSeq
<1> DEFINE id == Identity(m)
           late == IF m.ts > s.watermark THEN s.late ELSE s.late + 1
<1>5. m.ts \in Nat /\ m.p \in Passages
  BY <1>4, FieldTypes
<1>6. id \in Nat /\ late \in Nat
  <2>1. s.late \in Nat /\ s.watermark \in Nat
    BY <1>1, SyncFields
  <2> DEFINE t == m.ts
  <2>2. t \in Nat
    BY <1>5
  <2>3. id = IF t > s.watermark THEN t ELSE s.late
    BY DEF Identity
  <2>4. late = IF t > s.watermark THEN s.late ELSE s.late + 1
    OBVIOUS
  <2> HIDE DEF t, id, late, m, r, passed, minted, put
  <2> QED BY <2>1, <2>2, <2>3, <2>4
<1>7. r \in Record
  <2> HIDE DEF id
  <2>1. r = [ts |-> m.ts, id |-> id, p |-> m.p]
    BY DEF id
  <2> HIDE DEF r
  <2> QED BY <1>5, <1>6, <2>1, FieldTypes
<1>8. passed \in Sync /\ passed.marks = s.marks /\ passed.late = s.late
  <2> DEFINE j == i + 1
  <2>1. j \in Nat \ {0} /\ passed = [s EXCEPT !.next = j]
    BY <1>3
  <2> HIDE DEF passed, j
  <2> QED BY <1>1, <2>1 DEF Sync
<1>9. minted = [passed EXCEPT !.late = late]
  BY <1>8
<1>10. put = [minted EXCEPT !.list = Append(minted.list, r), !.respelt = TRUE]
  OBVIOUS
<1> HIDE DEF r, passed, minted, put, late, id, m
<1>11. minted \in Sync /\ minted.marks = s.marks
  BY <1>6, <1>8, <1>9 DEF Sync
<1>12. put \in Sync /\ put.marks = s.marks
  <2> DEFINE longer == Append(minted.list, r)
  <2>1. longer \in Seq(Record)
    <3>1. minted.list \in Seq(Record)
      BY <1>11 DEF Sync
    <3> QED BY <1>7, <3>1, AppendFile
  <2>2. put = [minted EXCEPT !.list = longer, !.respelt = TRUE]
    BY <1>10
  <2> HIDE DEF longer
  <2> QED BY <1>11, <2>1, <2>2 DEF Sync
<1>13. PutRecord(recs, r) \in RecordFile
  BY <1>1, <1>7, PutIs, Zenon DEF Puts
<1>14. Writes(s.marks)
  <2>1. CASE CutShort(PutRecord(recs, r))
    BY <1>1, <1>13, <2>1, CutWrites
  <2>2. CASE /\ pc' = "mint" /\ s' \in {passed, minted, put}
             /\ recs' \in RecordFile /\ faults' \in Seq(FaultKinds)
    BY <1>8, <1>11, <1>12, <2>2 DEF Writes, Steps
  <2>3. CASE ShortPut(r) /\ (s' = put \/ s' = minted) /\ pc' = "mint"
    BY <1>1, <1>7, <2>2, <2>3, ShortPutIs
  <2>4. CASE Fault("book") /\ recs' = recs /\ s' = [s EXCEPT !.next = Len(s.marks) + 1] /\ pc' = "mint"
    <3> DEFINE j == Len(s.marks) + 1
    <3>1. j \in Nat \ {0} /\ s' = [s EXCEPT !.next = j]
      BY <1>1, <2>4, SyncFields, LenProperties
    <3> HIDE DEF j
    <3>2. s' \in Sync /\ s'.marks = s.marks
      BY <1>1, <3>1 DEF Sync
    <3>3. faults' \in Seq(FaultKinds)
      BY <1>1, <2>4, FaultKind
    <3> QED BY <1>1, <2>4, <3>2, <3>3 DEF Writes, Steps
  <2>5. Fault("put") \/ Fault("mint") \/ NoFault => faults' \in Seq(FaultKinds)
    BY <1>1, FaultKind, NoFaultKind
  <2> QED BY <1>1, <1>2, <1>13, <2>1, <2>2, <2>3, <2>4, <2>5
<1> QED
  BY <1>1, <1>14, WritesBasic

LEMMA RetainBasic ==
  ASSUME Basic, Retain
  PROVE  Basic'
<1>1. /\ Typed /\ recs \in RecordFile /\ s \in Sync /\ Fine(s.marks) /\ Len(s.marks) <= Capacity
      /\ UNCHANGED <<now, server, edits, removed, twice>>
  BY DEF Basic, Typed, Retain
<1> DEFINE kept == [recs EXCEPT !.list = Kept(@)]
           trimmed == [s EXCEPT !.list = Kept(@)]
<1>2. \/ /\ recs' \in {kept, recs} /\ s' \in {s, trimmed} /\ (NoFault \/ Fault("retain"))
         /\ pc' = "exchange" /\ marks' = marks
      \/ ShortFile(kept) /\ s' \in {s, trimmed} /\ pc' = "exchange" /\ marks' = marks
      \/ CutShort(kept) /\ marks' = marks
      \/ marks' = TornFile /\ Fault("torn") /\ pc' = "idle" /\ s' = NoSync /\ recs' = recs
  BY DEF Retain, Goto, Return
<1>3. ASSUME NEW q \in Seq(Record) PROVE Kept(q) \in Seq(Record)
  BY PickedFile DEF Kept
<1>4. kept \in RecordFile
  <2> DEFINE q == Kept(recs.list)
  <2>1. q \in Seq(Record) /\ kept = [recs EXCEPT !.list = q]
    BY <1>1, <1>3, SyncFields
  <2> HIDE DEF q, kept
  <2> QED BY <1>1, <2>1 DEF RecordFile
<1>5. trimmed \in Sync /\ trimmed.marks = s.marks
  <2> DEFINE q == Kept(s.list)
  <2>1. q \in Seq(Record) /\ trimmed = [s EXCEPT !.list = q]
    BY <1>1, <1>3, SyncFields
  <2> HIDE DEF q, trimmed
  <2> QED BY <1>1, <2>1 DEF Sync
<1> HIDE DEF kept, trimmed
<1>6. CASE CutShort(kept) /\ marks' = marks
  <2>1. Writes(s.marks)
    BY <1>1, <1>4, <1>6, CutWrites
  <2> QED BY <1>1, <1>6, <2>1, WritesBasic
<1>7. CASE /\ recs' \in RecordFile /\ s' \in {s, trimmed} /\ faults' \in Seq(FaultKinds)
           /\ pc' = "exchange" /\ marks' = marks
  <2>1. Writes(s.marks)
    BY <1>1, <1>5, <1>7 DEF Writes, Steps
  <2> QED BY <1>1, <1>7, <2>1, WritesBasic
<1>8. CASE marks' = TornFile /\ Fault("torn") /\ pc' = "idle" /\ s' = NoSync /\ recs' = recs
  <2>1. Torn /\ faults' \in Seq(FaultKinds)
    BY <1>1, <1>8, TornIs
  <2>2. Writes(s.marks)
    BY <1>1, <1>8, <2>1, NoSyncIs DEF Writes, Steps
  <2> QED BY <1>1, <2>1, <2>2, WritesBasic
<1>9. NoFault \/ Fault("retain") => faults' \in Seq(FaultKinds)
  BY <1>1, FaultKind, NoFaultKind
<1>10. ShortFile(kept) => recs' \in RecordFile /\ faults' \in Seq(FaultKinds)
  BY <1>1, <1>4, ShortFileIs
<1> QED
  BY <1>1, <1>2, <1>4, <1>6, <1>7, <1>8, <1>9, <1>10

LEMMA AdvanceBasic ==
  ASSUME Basic, Advance
  PROVE  Basic'
<1> DEFINE f == Advanced(recs, s.top)
<1>1. /\ Typed /\ recs \in RecordFile /\ s \in Sync /\ Fine(s.marks) /\ Len(s.marks) <= Capacity
      /\ UNCHANGED <<marks, now, server, edits, removed, twice>> /\ f \in RecordFile
  BY SyncFields, AdvancedIs DEF Basic, Typed, Advance
<1>2. \/ /\ (recs' = f /\ NoFault) \/ (recs' = recs /\ Fault("put")) \/ ShortFile(f)
         /\ \/ pc' = "idle" /\ s' = NoSync
            \/ pc' = "apply" /\ s' = [s EXCEPT !.next = 1, !.round = 0, !.more = FALSE]
      \/ CutShort(f)
  BY DEF Advance, Return, Goto
<1> HIDE DEF f
<1>3. CASE CutShort(f)
  BY <1>1, <1>3, CutWrites, WritesBasic
<1>4. CASE /\ (recs' = f /\ NoFault) \/ (recs' = recs /\ Fault("put")) \/ ShortFile(f)
           /\ \/ pc' = "idle" /\ s' = NoSync
              \/ pc' = "apply" /\ s' = [s EXCEPT !.next = 1, !.round = 0, !.more = FALSE]
  <2>1. recs' \in RecordFile /\ faults' \in Seq(FaultKinds)
    BY <1>1, <1>4, NoFaultKind, FaultKind, ShortFileIs
  <2>2. s' = NoSync \/ (s' \in Sync /\ s'.marks = s.marks)
    <3> DEFINE one == 1
               started == [s EXCEPT !.next = one, !.round = 0, !.more = FALSE]
    <3>1. one \in Nat \ {0} /\ (s' = NoSync \/ s' = started)
      BY <1>4
    <3> HIDE DEF one
    <3>2. started \in Sync /\ started.marks = s.marks
      BY <1>1, <3>1 DEF Sync
    <3> HIDE DEF started
    <3> QED BY <3>1, <3>2
  <2>3. Writes(s.marks)
    BY <1>4, <2>1, <2>2, NoSyncIs DEF Writes, Steps
  <2> QED BY <1>1, <2>3, WritesBasic
<1> QED
  BY <1>2, <1>3, <1>4

LEMMA CoverBasic ==
  ASSUME Basic, Cover
  PROVE  Basic'
<1> DEFINE f == IF s.newest > 0 /\ ~LocalStillPending THEN Advanced(recs, s.newest) ELSE recs
<1>1. /\ Typed /\ recs \in RecordFile /\ s \in Sync /\ Fine(s.marks) /\ Len(s.marks) <= Capacity
      /\ UNCHANGED <<marks, now, server, edits, removed, twice>> /\ f \in RecordFile
  BY SyncFields, AdvancedIs DEF Basic, Typed, Cover
<1>2. \/ /\ (recs' = f /\ NoFault) \/ (recs' = recs /\ Fault("put")) \/ ShortFile(f)
         /\ (pc' = "idle" /\ s' = NoSync) \/ (pc' = "ack" /\ s' = s)
      \/ CutShort(f)
  BY DEF Cover, Return, Goto
<1> HIDE DEF f
<1>3. CASE CutShort(f)
  BY <1>1, <1>3, CutWrites, WritesBasic
<1>4. CASE /\ (recs' = f /\ NoFault) \/ (recs' = recs /\ Fault("put")) \/ ShortFile(f)
           /\ (pc' = "idle" /\ s' = NoSync) \/ (pc' = "ack" /\ s' = s)
  <2>1. recs' \in RecordFile /\ faults' \in Seq(FaultKinds)
    BY <1>1, <1>4, NoFaultKind, FaultKind, ShortFileIs
  <2>2. Writes(s.marks)
    BY <1>1, <1>4, <2>1, NoSyncIs DEF Writes, Steps
  <2> QED BY <1>1, <2>2, WritesBasic
<1> QED
  BY <1>2, <1>3, <1>4

LEMMA ApplyAddBasic ==
  ASSUME Basic, ApplyAdd
  PROVE  Basic'
<1> DEFINE ts == Stamp(s.marks, now)
           m == [ts |-> ts, p |-> TheChange.p, own |-> FALSE]
           r == [ts |-> ts, id |-> TheChange.key[1], p |-> TheChange.p]
           m2 == Append(s.marks, m)
           l2 == Append(s.list, r)
           h == s.here \cup {ts}
           a == s.applied \cup {TheChange.item}
           w == Max({s.newest, TheChange.key[1]})
           n == s.next + 1
           added == [s EXCEPT !.marks = m2, !.list = l2, !.here = h, !.applied = a, !.newest = w, !.next = n]
<1>1. /\ Typed /\ recs \in RecordFile /\ s \in Sync /\ Fine(s.marks) /\ s.marks \in Seq(Mark)
      /\ s.list \in Seq(Record) /\ now \in Nat /\ Applying /\ ~Present(TheChange.p) /\ pc = "apply"
      /\ Len(s.marks) < Capacity
      /\ UNCHANGED <<marks, now, server, edits, removed, twice>>
  BY SyncFields DEF Basic, Typed, ApplyAdd, Applying
<1>2. \/ recs' = PutRecord(recs, r) /\ NoFault /\ s' = added /\ pc' = pc
      \/ recs' = recs /\ Fault("record") /\ s' = added /\ pc' = pc
      \/ ShortPut(r) /\ s' = added /\ pc' = pc
      \/ CutShort(PutRecord(recs, r))
  BY Zenon DEF ApplyAdd
<1>3. ts \in Nat /\ \A i \in DOMAIN s.marks : s.marks[i].ts # ts
  BY <1>1, StampIs
<1>4. \A i \in DOMAIN s.marks : s.marks[i].p # TheChange.p
  BY <1>1, InRefs DEF Present
<1>5. TheChange.p \in Passages /\ TheChange.item \in Nat /\ TheChange.key[1] \in Nat /\ w \in Nat
  BY <1>1, ChangeIs
<1> HIDE DEF ts, w
<1>6. m \in Mark /\ m.ts = ts /\ m.p = TheChange.p
  BY <1>3, <1>5, FieldTypes
<1>7. r \in Record
  <2> DEFINE id == TheChange.key[1]
  <2>1. r = [ts |-> ts, id |-> id, p |-> TheChange.p] /\ id \in Nat
    BY <1>5
  <2> HIDE DEF id, r
  <2> QED BY <1>3, <1>5, <2>1, FieldTypes
<1> HIDE DEF m, r
<1>8. m2 \in Seq(Mark) /\ l2 \in Seq(Record) /\ Len(m2) = Len(s.marks) + 1 /\ Longer(m2, s.marks, m)
  BY <1>1, <1>6, <1>7, OneMore, AppendFile
<1>9. h \subseteq Nat /\ a \subseteq Nat /\ n \in Nat \ {0}
  <2>1. s.here \subseteq Nat
    BY <1>1, SyncFields
  <2>2. h \subseteq Nat
    BY <1>3, <2>1, Zenon
  <2> QED BY <1>1, <2>2, ChangeIs, Zenon
<1> HIDE DEF m2, l2, h, a, n
<1>10. Fine(m2)
  BY <1>1, <1>3, <1>4, <1>6, <1>8, Zenon DEF Longer, Fine
<1>11. added \in Sync /\ added.marks = m2
  BY <1>1, <1>5, <1>8, <1>9 DEF Sync
<1> HIDE DEF added
<1>12. Len(m2) <= Capacity
  <2>1. Len(s.marks) \in Nat /\ Capacity \in Nat
    BY <1>1, LenProperties, ConstantsAssumption
  <2> QED BY <1>1, <1>8, <2>1
<1>13. PutRecord(recs, r) \in RecordFile
  BY <1>1, <1>7, PutIs, Zenon DEF Puts
<1>14. Writes(m2)
  <2>1. CASE CutShort(PutRecord(recs, r))
    BY <1>1, <1>13, <2>1, CutWrites
  <2>2. CASE recs' \in RecordFile /\ faults' \in Seq(FaultKinds) /\ s' = added /\ pc' = pc
    BY <1>1, <1>11, <2>2 DEF Writes, Typed
  <2>3. NoFault \/ Fault("record") => faults' \in Seq(FaultKinds)
    BY <1>1, FaultKind, NoFaultKind
  <2>4. ShortPut(r) => recs' \in RecordFile /\ faults' \in Seq(FaultKinds)
    BY <1>1, <1>7, ShortPutIs
  <2> QED BY <1>1, <1>2, <1>13, <2>1, <2>2, <2>3, <2>4
<1> QED
  BY <1>1, <1>10, <1>12, <1>14, WritesBasic

\* The steps of a sync that do not write the record file.
LEMMA OtherStepsBasic ==
  ASSUME Basic, Begin \/ Exchange \/ Pull \/ ApplyDelete \/ ApplyPresent \/ ApplyLater \/ Save \/ Ack
  PROVE  Basic'
<1>1. Typed /\ Fine(marks.list) /\ Fine(s.marks) /\ Fine(NoSync.marks)
  BY NoSyncIs, NothingSound DEF Basic
<1>2. CASE Begin
  BY <1>1, <1>2, BeginDoes DEF Basic
<1>3. CASE Exchange \/ Pull
  BY <1>1, <1>3, ExchangeDoes, PullDoes DEF Basic, SameWork
<1>4. CASE ApplyDelete
  <2>1. Shorter(s'.marks, s.marks, Stays) /\ Typed' /\ marks' = marks
    BY <1>1, <1>4, ApplyDeleteDoes
  <2>2. Fine(s'.marks)
    BY <1>1, <2>1, Zenon DEF Fine, Shorter
  <2> QED BY <1>1, <2>1, <2>2 DEF Basic
<1>5. CASE ApplyPresent \/ ApplyLater
  BY <1>1, <1>5, ApplyPresentDoes, ApplyLaterDoes DEF Basic, SameWork
<1>6. CASE Save
  <2>1. /\ Typed' /\ (s' = s \/ s' = NoSync)
        /\ marks'.list = s.marks \/ marks' = marks \/ Torn
    BY <1>1, <1>6, SaveDoes
  <2>2. Torn => Fine(marks'.list)
    BY NothingSound DEF Torn
  <2> QED BY <1>1, <2>1, <2>2 DEF Basic
<1>7. CASE Ack
  BY <1>1, <1>7, AckDoes DEF Basic
<1> QED
  BY <1>2, <1>3, <1>4, <1>5, <1>6, <1>7

LEMMA EditsBasic ==
  ASSUME Basic, Reader
  PROVE  Basic'
<1>1. Typed /\ Fine(marks.list) /\ Fine(s.marks) /\ marks.list \in Seq(Mark)
  BY SyncFields DEF Basic
<1>2. Torn => Fine(marks'.list)
  BY NothingSound DEF Torn
<1>3. CASE \E p \in Passages : MarkPassage(p)
  <2>1. /\ Typed' /\ s' = s
        /\ \/ \E m : /\ m \in Mark /\ m.own
                     /\ \A i \in DOMAIN marks.list : marks.list[i].ts # m.ts
                     /\ marks'.list = Append(marks.list, m)
           \/ Torn
    BY <1>1, <1>3, MarkPassageDoes
  <2>2. ASSUME NEW m, m \in Mark, m.own, \A i \in DOMAIN marks.list : marks.list[i].ts # m.ts,
               marks'.list = Append(marks.list, m)
        PROVE  Fine(marks'.list)
    <3>1. Longer(marks'.list, marks.list, m)
      BY <1>1, <2>2, AppendFile
    <3> QED BY <1>1, <2>2, <3>1, Zenon DEF Longer, Fine
  <2> QED BY <1>1, <1>2, <2>1, <2>2 DEF Basic
<1>4. CASE \E i \in DOMAIN marks.list : RemoveMark(i)
  <2>1. Typed' /\ s' = s /\ (Torn \/ \E S : Shorter(marks'.list, marks.list, S))
    BY <1>1, <1>4, RemoveMarkDoes
  <2>2. ASSUME NEW S, Shorter(marks'.list, marks.list, S) PROVE Fine(marks'.list)
    BY <1>1, <2>2, Zenon DEF Shorter, Fine
  <2> QED BY <1>1, <1>2, <2>1, <2>2 DEF Basic
<1> QED
  BY <1>3, <1>4 DEF Reader

LEMMA NextBasic ==
  ASSUME Basic, [Next]_vars
  PROVE  Basic'
<1>1. Typed /\ Fine(marks.list) /\ Fine(s.marks) /\ Fine(NoSync.marks)
  BY NoSyncIs, NothingSound DEF Basic
<1>2. CASE UNCHANGED vars
  <2>1. UNCHANGED <<marks, recs, now, server, pc, s, faults, edits, removed, twice>>
    BY <1>2 DEF vars
  <2> QED BY <1>1, <2>1 DEF Basic, Typed
<1>3. CASE Web
  BY <1>1, <1>3, WebAddDoes, WebDeleteDoes DEF Web, Basic
<1>4. CASE PowerCut
  BY <1>1, <1>4, PowerCutDoes DEF Basic
<1> QED
  BY <1>2, <1>3, <1>4, MintBasic, RetainBasic, AdvanceBasic, CoverBasic, ApplyAddBasic,
     OtherStepsBasic, EditsBasic DEF Next, SyncStep, Apply

LEMMA InitBasic ==
  ASSUME Init
  PROVE  Basic
<1> DEFINE none == <<>>
           one == 1
<1>1. none \in Seq(Mark) /\ none \in Seq(Item) /\ none \in Seq(Record) /\ Len(none) = 0 /\ DOMAIN none = {}
  BY EmptySeq
<1>2. /\ marks = [readable |-> TRUE, list |-> none] /\ recs = [here |-> FALSE, watermark |-> 0, list |-> none]
      /\ now = one /\ server = none /\ pc = "idle" /\ s = NoSync
      /\ faults = <<>> /\ edits = 0 /\ removed = {} /\ twice = {}
  BY DEF Init, Holding, NoRecordFile
<1>3. one \in Nat
  OBVIOUS
<1> HIDE DEF none, one
<1>4. marks \in MarkFile /\ marks.list = none /\ recs \in RecordFile /\ recs.list = none
  BY <1>1, <1>2 DEF MarkFile, RecordFile
<1>5. Typed
  BY <1>1, <1>2, <1>3, <1>4, NoSyncIs, ConstantsAssumption DEF Typed, Steps
<1>6. Fine(marks.list) /\ Fine(s.marks)
  BY <1>1, <1>2, <1>4, NoSyncIs, NothingSound
<1> QED
  BY <1>5, <1>6 DEF Basic

LEMMA AlwaysBasic == Spec => []Basic
<1>1. Init => Basic
  BY InitBasic
<1>2. Basic /\ [Next]_vars => Basic'
  BY NextBasic
<1> QED
  BY <1>1, <1>2, PTL DEF Spec

\* Under every fault, the highlight file never holds more than its capacity nor two
\* highlights of one timestamp, and every variable keeps its type (HighlightStore.cpp,
\* add and save; BookOrbitAnnotationStore.cpp, put).
THEOREM TypesAlwaysHold == Spec => []TypeOK
<1>1. Basic => TypeOK
  BY SyncFields DEF Basic, Fine, Typed, OneEach, TypeOK
<1> QED
  BY <1>1, AlwaysBasic, PTL

\* Whatever answer is lost and however often a highlight is offered again, it is
\* received once, and not at all where the reader has made it too
\* (BookOrbitSyncExtras.cpp, the match on chapter and words).
THEOREM ReceivedAlwaysOnce == Spec => []ReceivedOnce
<1>1. Basic => ReceivedOnce
  BY DEF Basic, Fine, OnceEach, ReceivedOnce
<1> QED
  BY <1>1, AlwaysBasic, PTL

-----------------------------------------------------------------------------
(* Every step leaves the files sound.                                      *)

\* The server keeps what it has, each of its passage.
Kin(next) == \A i \in DOMAIN server : i \in DOMAIN next /\ next[i].p = server[i].p

\* Those placed stay placed.
LEMMA StillPlaced ==
  ASSUME PlacedIn(s'.incoming), Kin(server')
  PROVE  Placed'
BY DEF PlacedIn, Kin, Placed

LEMMA KinItself ==
  Kin(server)
BY DEF Kin

\* What soundness there is.
LEMMA SoundParts ==
  ASSUME FilesInv
  PROVE  /\ Typed /\ Fine(marks.list) /\ Fine(s.marks) /\ RefsApart(recs.list)
         /\ ~recs.here => DOMAIN recs.list = {}
         /\ PlacedIn(s.incoming) /\ s.applied \subseteq DOMAIN server
BY DEF FilesInv, Sound, Loaded, Fine, Placed, PlacedIn

\* A step that ends the sync.
LEMMA EndedSound ==
  ASSUME FilesInv, Typed', Fine(marks'.list), RefsApart(recs'.list),
         ~recs'.here => DOMAIN recs'.list = {}, pc' = "idle", s' = NoSync
  PROVE  FilesInv'
<1>1. DOMAIN s'.marks = {} /\ DOMAIN s'.incoming = {} /\ s'.applied = {}
  BY NoSyncIs
<1>2. Fine(s'.marks)
  BY <1>1, NothingSound
<1>3. Sound'
  BY <1>2 DEF Sound, Fine
<1>4. Placed' /\ s'.applied \subseteq DOMAIN server'
  BY <1>1 DEF Placed
<1>5. Loaded'
  BY <1>4 DEF Loaded, Early
<1> QED
  BY <1>3, <1>5 DEF FilesInv

\* A step at which the record file is cut short.
LEMMA CutSound ==
  ASSUME FilesInv, Typed', marks' = marks, NEW f, RefsApart(f.list),
         ~f.here => DOMAIN f.list = {}, Cuts(f)
  PROVE  FilesInv'
<1>1. RefsApart(recs'.list) /\ pc' = "idle" /\ s' = NoSync
  BY Zenon DEF Cuts
<1>2. ~recs'.here => DOMAIN recs'.list = {}
  <2>1. SUFFICES ASSUME ~recs'.here, NEW k \in DOMAIN recs'.list PROVE FALSE
    BY Zenon
  <2>2. recs'.here = f.here /\ \E n \in DOMAIN f.list : TRUE
    BY Zenon DEF Cuts
  <2> QED BY <2>1, <2>2
<1>3. Fine(marks'.list)
  BY SoundParts
<1> QED
  BY <1>1, <1>2, <1>3, EndedSound

\* A step of a sync that goes on.
LEMMA GoesOnSound ==
  ASSUME FilesInv, Typed', Fine(marks'.list), Fine(s'.marks), RefsApart(recs'.list),
         ~recs'.here => DOMAIN recs'.list = {}, Kin(server'),
         PlacedIn(s'.incoming), s'.applied \subseteq DOMAIN server,
         pc' # "idle",
         pc' \in Early =>
           /\ s'.list = recs'.list /\ s'.marks = marks'.list /\ s'.watermark = recs'.watermark
           /\ s'.here = {} /\ s'.applied = {},
         pc' \in {"mint", "exchange"} => DOMAIN s'.incoming = {},
         pc' = "mint" => s'.late > s'.watermark,
         pc' \in {"exchange", "pull", "advance"} => Refs(s'.list) \subseteq Refs(s'.marks),
         pc' \in {"cover", "ack"} => s'.marks = marks'.list
  PROVE  FilesInv'
<1>1. Sound'
  BY DEF Sound, Fine
<1>2. Placed'
  BY StillPlaced
<1>3. s'.applied \subseteq DOMAIN server'
  BY DEF Kin
<1>4. Loaded'
  BY <1>2, <1>3 DEF Loaded, Early
<1> QED
  BY <1>1, <1>4 DEF FilesInv

\* At first there is nothing.
LEMMA InitSound ==
  ASSUME Init
  PROVE  FilesInv
<1>1. Typed /\ Fine(marks.list) /\ Fine(s.marks)
  BY InitBasic DEF Basic
<1>2. DOMAIN recs.list = {} /\ pc = "idle" /\ s = NoSync
  BY EmptySeq DEF Init, NoRecordFile
<1>3. DOMAIN s.incoming = {} /\ s.applied = {}
  BY <1>2, NoSyncIs
<1>4. Sound
  BY <1>1, <1>2, NothingSound DEF Sound, Fine
<1>5. Loaded
  BY <1>2, <1>3 DEF Loaded, Early, Placed
<1> QED
  BY <1>1, <1>4, <1>5 DEF FilesInv

LEMMA BeginSound ==
  ASSUME FilesInv, Begin
  PROVE  FilesInv'
<1>1. /\ pc = "idle" /\ pc' = "mint" /\ UNCHANGED <<marks, recs, now, server, removed>>
      /\ s'.marks = marks.list /\ s'.list = recs.list /\ s'.watermark = recs.watermark
      /\ s'.late = recs.watermark + 1 /\ DOMAIN s'.incoming = {}
      /\ s'.here = {} /\ s'.applied = {} /\ s'.dels = {}
      /\ Typed'
  BY BeginDoes DEF FilesInv
<1>2. /\ Typed /\ Fine(marks.list) /\ RefsApart(recs.list)
      /\ ~recs.here => DOMAIN recs.list = {}
  BY SoundParts
<1>3. s'.late > s'.watermark
  BY <1>1, <1>2, SyncFields
<1>4. PlacedIn(s'.incoming) /\ Kin(server')
  BY <1>1, NothingSound, KinItself
<1>5. pc' # "idle" /\ pc' \notin {"exchange", "pull", "advance"} /\ pc' \notin {"cover", "ack"}
  BY <1>1
<1> QED
  BY <1>1, <1>2, <1>3, <1>4, <1>5, GoesOnSound

LEMMA MintSound ==
  ASSUME FilesInv, Mint, Trimmed'
  PROVE  FilesInv'
<1>1. /\ pc = "mint" /\ UNCHANGED <<marks, now, server, removed>>
      /\ \/ /\ pc' = "mint" /\ SameWork /\ s'.late > s'.watermark /\ s'.incoming = s.incoming
            /\ \/ recs' = recs /\ s'.list = s.list
               \/ \E r : Mints(r) /\ s'.list = Append(s.list, r) /\ recs' = PutRecord(recs, r)
         \/ \E r : Mints(r) /\ Cuts(PutRecord(recs, r))
      /\ Typed'
  BY MintDoes
<1>2. /\ Typed /\ Fine(marks.list) /\ Fine(s.marks) /\ RefsApart(recs.list)
      /\ ~recs.here => DOMAIN recs.list = {}
      /\ PlacedIn(s.incoming) /\ s.applied \subseteq DOMAIN server
  BY SoundParts
<1>3. /\ s.list = recs.list /\ s.marks = marks.list /\ s.watermark = recs.watermark
      /\ s.here = {} /\ s.applied = {} /\ DOMAIN s.incoming = {}
  BY <1>1 DEF FilesInv, Loaded, Early
<1>4. ASSUME NEW r, Mints(r)
      PROVE  /\ PutRecord(recs, r).here /\ RefsApart(PutRecord(recs, r).list)
             /\ PutRecord(recs, r).list = Append(s.list, r)
             /\ PutRecord(recs, r).watermark = recs.watermark
  <2>1. recs \in RecordFile /\ r \in Record
    BY <1>2, <1>4 DEF Typed, Mints
  <2>2. Puts(PutRecord(recs, r), recs, r)
    BY <2>1, PutIs
  <2> DEFINE f == PutRecord(recs, r)
  <2> HIDE DEF f
  <2>3. \A n \in DOMAIN recs.list : RefOf(recs.list[n]) # RefOf(r)
    BY <1>3, <1>4 DEF Mints, Refs
  <2>4. Puts(f, recs, r)
    BY <2>2 DEF f
  <2>5. f.here /\ RefsApart(f.list) /\ f.list = Append(recs.list, r) /\ f.watermark = recs.watermark
    BY <1>2, <2>3, <2>4, Zenon DEF Puts
  <2> QED BY <1>3, <2>5 DEF f
<1>5. CASE \E r : Mints(r) /\ Cuts(PutRecord(recs, r))
  <2>1. PICK r : Mints(r) /\ Cuts(PutRecord(recs, r))
    BY <1>5
  <2> DEFINE f == PutRecord(recs, r)
  <2>2. f.here /\ RefsApart(f.list) /\ Cuts(f)
    BY <1>4, <2>1
  <2> HIDE DEF f
  <2> QED BY <1>1, <2>2, CutSound
<1>6. CASE /\ pc' = "mint" /\ SameWork /\ s'.late > s'.watermark /\ s'.incoming = s.incoming
           /\ RefsApart(recs'.list) /\ (~recs'.here => DOMAIN recs'.list = {})
           /\ s'.list = recs'.list /\ recs'.watermark = recs.watermark
  <2>1. pc' # "idle" /\ pc' \notin {"exchange", "pull", "advance"} /\ pc' \notin {"cover", "ack"}
    BY <1>6
  <2>2. /\ s'.marks = marks'.list /\ s'.watermark = recs'.watermark /\ s'.here = {} /\ s'.applied = {}
        /\ DOMAIN s'.incoming = {} /\ Fine(s'.marks) /\ Fine(marks'.list)
        /\ PlacedIn(s'.incoming) /\ Kin(server') /\ s'.applied \subseteq DOMAIN server
    BY <1>1, <1>2, <1>3, <1>6, KinItself DEF SameWork
  <2> QED BY <1>1, <1>6, <2>1, <2>2, GoesOnSound
<1>7. CASE /\ pc' = "mint" /\ SameWork /\ s'.late > s'.watermark /\ s'.incoming = s.incoming
           /\ recs' = recs /\ s'.list = s.list
  BY <1>2, <1>3, <1>6, <1>7
<1>8. CASE /\ pc' = "mint" /\ SameWork /\ s'.late > s'.watermark /\ s'.incoming = s.incoming
           /\ \E r : Mints(r) /\ s'.list = Append(s.list, r) /\ recs' = PutRecord(recs, r)
  <2>1. PICK r : Mints(r) /\ s'.list = Append(s.list, r) /\ recs' = PutRecord(recs, r)
    BY <1>8
  <2>2. RefsApart(recs'.list) /\ recs'.here /\ s'.list = recs'.list /\ recs'.watermark = recs.watermark
    BY <1>4, <2>1
  <2> QED BY <1>6, <1>8, <2>2
<1> QED
  BY <1>1, <1>5, <1>7, <1>8

LEMMA RetainSound ==
  ASSUME FilesInv, Retain, Trimmed'
  PROVE  FilesInv'
<1> DEFINE kept == Kept(recs.list)
           file == [recs EXCEPT !.list = Kept(@)]
<1>1. /\ pc = "mint" /\ UNCHANGED <<now, server, removed>>
      /\ Shorter(kept, recs.list, HasMark)
      /\ \/ /\ pc' = "exchange" /\ marks' = marks /\ SameWork /\ s'.incoming = s.incoming
            /\ s'.list = kept /\ recs'.list = kept /\ recs'.here = recs.here
            /\ recs'.watermark = recs.watermark
         \/ Cuts(file) /\ marks' = marks
         \/ /\ recs' = recs /\ marks' = TornFile /\ pc' = "idle" /\ s' = NoSync
      /\ Typed'
  BY RetainDoes, Zenon
<1>2. /\ Typed /\ Fine(marks.list) /\ Fine(s.marks) /\ RefsApart(recs.list)
      /\ ~recs.here => DOMAIN recs.list = {}
      /\ PlacedIn(s.incoming) /\ s.applied \subseteq DOMAIN server
  BY SoundParts
<1>3. /\ s.list = recs.list /\ s.marks = marks.list /\ s.watermark = recs.watermark
      /\ s.here = {} /\ s.applied = {} /\ DOMAIN s.incoming = {}
  BY <1>1 DEF FilesInv, Loaded, Early
<1>4. file.list = kept /\ file.here = recs.here
  BY <1>2 DEF Typed, RecordFile
<1> HIDE DEF kept, file
<1>5. RefsApart(kept) /\ (~recs.here => DOMAIN kept = {}) /\ Refs(kept) \subseteq Refs(s.marks)
  <2>1. RefsApart(kept)
    BY <1>1, <1>2, Zenon DEF Shorter
  <2>2. \A k \in DOMAIN kept : \E i \in DOMAIN recs.list : i \in HasMark /\ kept[k] = recs.list[i]
    BY <1>1, Zenon DEF Shorter
  <2>3. ~recs.here => DOMAIN kept = {}
    BY <1>2, <2>2
  <2>4. \A k \in DOMAIN kept : RefOf(kept[k]) \in Refs(s.marks)
    BY <2>2 DEF HasMark
  <2>5. Refs(kept) \subseteq Refs(s.marks)
    BY <2>4 DEF Refs
  <2> QED BY <2>1, <2>3, <2>5
<1>6. CASE Cuts(file) /\ marks' = marks
  BY <1>1, <1>4, <1>5, <1>6, CutSound
<1>7. CASE recs' = recs /\ marks' = TornFile /\ pc' = "idle" /\ s' = NoSync
  <2>1. DOMAIN marks'.list = {}
    BY <1>7, EmptySeq DEF TornFile
  <2>2. Fine(marks'.list)
    BY <2>1, NothingSound
  <2> QED BY <1>1, <1>2, <1>7, <2>2, EndedSound
<1>8. CASE /\ pc' = "exchange" /\ marks' = marks /\ SameWork /\ s'.incoming = s.incoming
           /\ s'.list = kept /\ recs'.list = kept /\ recs'.here = recs.here
           /\ recs'.watermark = recs.watermark
  <2>1. pc' # "idle" /\ pc' # "mint" /\ pc' \notin {"cover", "ack"}
    BY <1>8
  <2>2. /\ s'.marks = marks'.list /\ s'.watermark = recs'.watermark /\ s'.here = {} /\ s'.applied = {}
        /\ DOMAIN s'.incoming = {} /\ Fine(s'.marks) /\ Fine(marks'.list)
        /\ PlacedIn(s'.incoming) /\ Kin(server') /\ s'.applied \subseteq DOMAIN server
        /\ s'.list = recs'.list /\ RefsApart(recs'.list) /\ (~recs'.here => DOMAIN recs'.list = {})
        /\ Refs(s'.list) \subseteq Refs(s'.marks)
    BY <1>1, <1>2, <1>3, <1>5, <1>8, KinItself DEF SameWork
  <2> QED BY <1>1, <2>1, <2>2, GoesOnSound
<1> QED
  BY <1>1, <1>6, <1>7, <1>8

LEMMA AnswerKin ==
  ASSUME Typed
  PROVE  Kin(Answer)
<1>1. AfterRequest(Answer, Outgoing, SentKeys, KeysComplete)
  BY AnswerIs
<1> QED
  BY <1>1, Zenon DEF AfterRequest, Kin

LEMMA ExchangeSound ==
  ASSUME FilesInv, Exchange
  PROVE  FilesInv'
<1> DEFINE took == Collected(<<>>, Offers)
<1>1. /\ pc = "exchange" /\ UNCHANGED <<marks, recs, now, removed>>
      /\ server' = server \/ server' = Answer
      /\ \/ pc' = "idle" /\ s' = NoSync
         \/ /\ pc' = "pull" /\ SameWork /\ s'.list = s.list /\ s'.incoming = took
      /\ Typed'
  BY ExchangeDoes DEF FilesInv
<1>2. /\ Typed /\ Fine(marks.list) /\ Fine(s.marks) /\ RefsApart(recs.list)
      /\ ~recs.here => DOMAIN recs.list = {}
      /\ s.applied \subseteq DOMAIN server
  BY SoundParts
<1>3. /\ s.list = recs.list /\ s.marks = marks.list /\ s.watermark = recs.watermark
      /\ s.here = {} /\ s.applied = {} /\ Refs(s.list) \subseteq Refs(s.marks)
  BY <1>1 DEF FilesInv, Loaded, Early
<1>4. PlacedIn(took)
  <2>1. \A n \in DOMAIN took : IsOffer(took[n])
    BY <1>2, FirstTaken
  <2> HIDE DEF took
  <2> QED BY <2>1 DEF PlacedIn, IsOffer
<1>5. Kin(server')
  BY <1>1, <1>2, AnswerKin, KinItself
<1> HIDE DEF took
<1>6. CASE pc' = "idle" /\ s' = NoSync
  BY <1>1, <1>2, <1>6, EndedSound
<1>7. CASE pc' = "pull" /\ SameWork /\ s'.list = s.list /\ s'.incoming = took
  <2>1. pc' # "idle" /\ pc' # "mint" /\ pc' \notin {"mint", "exchange"} /\ pc' \notin {"cover", "ack"}
    BY <1>7
  <2>2. /\ s'.marks = marks'.list /\ s'.watermark = recs'.watermark /\ s'.here = {} /\ s'.applied = {}
        /\ Fine(s'.marks) /\ Fine(marks'.list)
        /\ PlacedIn(s'.incoming) /\ s'.applied \subseteq DOMAIN server
        /\ s'.list = recs'.list /\ RefsApart(recs'.list) /\ (~recs'.here => DOMAIN recs'.list = {})
        /\ Refs(s'.list) \subseteq Refs(s'.marks)
    BY <1>1, <1>2, <1>3, <1>4, <1>7 DEF SameWork
  <2> QED BY <1>1, <1>5, <2>1, <2>2, GoesOnSound
<1> QED
  BY <1>1, <1>6, <1>7

\* Those taken at a further request are placed as those at the first.
LEMMA MorePlaced ==
  ASSUME FilesInv
  PROVE  PlacedIn(Collected(s.incoming, Offers))
<1> DEFINE took == Collected(s.incoming, Offers)
<1>1. Takes(took, s.incoming, Offers) /\ \A n \in DOMAIN Offers : IsOffer(Offers[n])
  BY MoreTaken, OffersAre DEF FilesInv
<1>2. PlacedIn(s.incoming)
  BY SoundParts
<1> HIDE DEF took
<1>3. SUFFICES ASSUME NEW n \in DOMAIN took
               PROVE  took[n].item \in DOMAIN server /\ server[took[n].item].p = took[n].p
  BY Zenon DEF PlacedIn, took
<1>4. \/ \E m \in DOMAIN s.incoming : took[n] = s.incoming[m]
      \/ \E k \in DOMAIN Offers : took[n] = Offers[k]
  BY <1>1, Zenon DEF Takes
<1>5. CASE \E m \in DOMAIN s.incoming : took[n] = s.incoming[m]
  BY <1>2, <1>5 DEF PlacedIn
<1>6. CASE \E k \in DOMAIN Offers : took[n] = Offers[k]
  BY <1>1, <1>6 DEF IsOffer
<1> QED
  BY <1>4, <1>5, <1>6

LEMMA PullSound ==
  ASSUME FilesInv, Pull
  PROVE  FilesInv'
<1> DEFINE took == Collected(s.incoming, Offers)
<1>1. /\ pc = "pull" /\ UNCHANGED <<marks, recs, now, removed>> /\ SameHighlights(server')
      /\ \/ /\ pc' = "pull" /\ SameWork /\ s'.list = s.list /\ s'.incoming = took
         \/ pc' = "advance" /\ s' = s
      /\ Typed'
  BY PullDoes DEF FilesInv
<1>2. /\ Typed /\ Fine(marks.list) /\ Fine(s.marks) /\ RefsApart(recs.list)
      /\ ~recs.here => DOMAIN recs.list = {}
      /\ PlacedIn(s.incoming) /\ s.applied \subseteq DOMAIN server
  BY SoundParts
<1>3. /\ s.list = recs.list /\ s.marks = marks.list /\ s.watermark = recs.watermark
      /\ s.here = {} /\ s.applied = {} /\ Refs(s.list) \subseteq Refs(s.marks)
  BY <1>1 DEF FilesInv, Loaded, Early
<1>4. PlacedIn(took)
  BY MorePlaced
<1>5. Kin(server')
  BY <1>1, Zenon DEF SameHighlights, Kin
<1> HIDE DEF took
<1>6. pc' # "idle" /\ pc' # "mint" /\ pc' \notin {"mint", "exchange"} /\ pc' \notin {"cover", "ack"}
  BY <1>1
<1>7. /\ s'.marks = marks'.list /\ s'.watermark = recs'.watermark /\ s'.here = {} /\ s'.applied = {}
      /\ Fine(s'.marks) /\ Fine(marks'.list)
      /\ PlacedIn(s'.incoming) /\ s'.applied \subseteq DOMAIN server
      /\ s'.list = recs'.list /\ RefsApart(recs'.list) /\ (~recs'.here => DOMAIN recs'.list = {})
      /\ Refs(s'.list) \subseteq Refs(s'.marks)
  BY <1>1, <1>2, <1>3, <1>4 DEF SameWork
<1> QED
  BY <1>1, <1>5, <1>6, <1>7, GoesOnSound

LEMMA AdvanceSound ==
  ASSUME FilesInv, Advance, Trimmed'
  PROVE  FilesInv'
<1> DEFINE f == Advanced(recs, s.top)
<1>1. /\ pc \in {"pull", "advance"} /\ UNCHANGED <<marks, now, server, removed>>
      /\ \/ /\ recs'.list = recs.list /\ recs'.here = recs.here
            /\ \/ pc' = "idle" /\ s' = NoSync
               \/ /\ pc' = "apply" /\ SameWork /\ s'.list = s.list
                  /\ s'.incoming = s.incoming /\ s'.next = 1
         \/ Cuts(f)
      /\ Typed'
  BY AdvanceDoes DEF FilesInv
<1>2. /\ Typed /\ Fine(marks.list) /\ Fine(s.marks) /\ RefsApart(recs.list)
      /\ ~recs.here => DOMAIN recs.list = {}
      /\ PlacedIn(s.incoming) /\ s.applied \subseteq DOMAIN server
  BY SoundParts
<1>3. f.list = recs.list /\ f.here = recs.here
  BY <1>2, SyncFields, AdvancedIs DEF Typed
<1> HIDE DEF f
<1>4. CASE Cuts(f)
  BY <1>1, <1>2, <1>3, <1>4, CutSound
<1>5. CASE recs'.list = recs.list /\ recs'.here = recs.here /\ pc' = "idle" /\ s' = NoSync
  BY <1>1, <1>2, <1>5, EndedSound
<1>6. CASE /\ recs'.list = recs.list /\ recs'.here = recs.here
           /\ pc' = "apply" /\ SameWork /\ s'.incoming = s.incoming
  <2>1. /\ pc' # "idle" /\ pc' # "mint" /\ pc' \notin {"mint", "exchange"} /\ pc' \notin {"cover", "ack"}
        /\ pc' \notin Early /\ pc' \notin {"exchange", "pull", "advance"}
    BY <1>6 DEF Early
  <2>2. /\ Fine(s'.marks) /\ Fine(marks'.list) /\ Kin(server')
        /\ PlacedIn(s'.incoming) /\ s'.applied \subseteq DOMAIN server
        /\ RefsApart(recs'.list) /\ (~recs'.here => DOMAIN recs'.list = {})
    BY <1>1, <1>2, <1>6, KinItself DEF SameWork
  <2> QED BY <1>1, <2>1, <2>2, GoesOnSound
<1> QED
  BY <1>1, <1>4, <1>5, <1>6

\* A step that applies a change.
LEMMA AppliesSound ==
  ASSUME FilesInv, Typed', pc' = "apply", UNCHANGED <<marks, server>>, Fine(s'.marks),
         RefsApart(recs'.list), ~recs'.here => DOMAIN recs'.list = {},
         s'.incoming = s.incoming, s'.applied \subseteq DOMAIN server
  PROVE  FilesInv'
<1>1. /\ pc' # "idle" /\ pc' # "mint" /\ pc' \notin {"mint", "exchange"} /\ pc' \notin {"cover", "ack"}
      /\ pc' \notin Early /\ pc' \notin {"exchange", "pull", "advance"}
  BY DEF Early
<1>2. Fine(marks'.list) /\ Kin(server') /\ PlacedIn(s'.incoming)
  BY SoundParts, KinItself
<1> QED
  BY <1>1, <1>2, GoesOnSound

LEMMA ApplyDeleteSound ==
  ASSUME FilesInv, ApplyDelete
  PROVE  FilesInv'
<1>1. /\ pc' = "apply" /\ UNCHANGED <<marks, recs, server>> /\ Shorter(s'.marks, s.marks, Stays)
      /\ s'.incoming = s.incoming /\ s'.applied = s.applied /\ Typed'
  BY ApplyDeleteDoes DEF FilesInv
<1>2. /\ Fine(s.marks) /\ RefsApart(recs.list) /\ s.applied \subseteq DOMAIN server
      /\ ~recs.here => DOMAIN recs.list = {}
  BY SoundParts
<1>3. Fine(s'.marks)
  BY <1>1, <1>2, Zenon DEF Fine, Shorter
<1> QED
  BY <1>1, <1>2, <1>3, AppliesSound

LEMMA ApplyPresentSound ==
  ASSUME FilesInv, ApplyPresent
  PROVE  FilesInv'
<1>1. /\ pc' = "apply" /\ UNCHANGED <<marks, recs, server>> /\ s'.marks = s.marks
      /\ s'.incoming = s.incoming /\ s'.applied = s.applied \cup {TheChange.item} /\ Typed'
      /\ s.next \in DOMAIN s.incoming
  BY ApplyPresentDoes DEF FilesInv
<1>2. /\ Fine(s.marks) /\ RefsApart(recs.list) /\ s.applied \subseteq DOMAIN server
      /\ ~recs.here => DOMAIN recs.list = {}
      /\ PlacedIn(s.incoming)
  BY SoundParts
<1>3. s'.applied \subseteq DOMAIN server
  BY <1>1, <1>2 DEF PlacedIn, TheChange
<1>4. Fine(s'.marks)
  BY <1>1, <1>2
<1> QED
  BY <1>1, <1>2, <1>3, <1>4, AppliesSound

\* A record put into the file leaves it sound.
LEMMA PutSound ==
  ASSUME FilesInv, NEW r \in Record
  PROVE  PutRecord(recs, r).here /\ RefsApart(PutRecord(recs, r).list)
<1>1. Puts(PutRecord(recs, r), recs, r) /\ RefsApart(recs.list)
  BY PutIs, SoundParts DEF Typed
<1> QED
  BY <1>1, Zenon DEF Puts

LEMMA ApplyAddSound ==
  ASSUME FilesInv, ApplyAdd, Trimmed'
  PROVE  FilesInv'
<1>1. /\ UNCHANGED <<marks, now, server, removed>> /\ s.next \in DOMAIN s.incoming
      /\ \E m, r :
           /\ Adds(m, r)
           /\ \/ /\ pc' = "apply" /\ recs' \in {recs, PutRecord(recs, r)}
                 /\ s'.marks = Append(s.marks, m) /\ s'.list = Append(s.list, r)
                 /\ s'.incoming = s.incoming /\ s'.here = s.here \cup {m.ts}
                 /\ s'.applied = s.applied \cup {TheChange.item} /\ s'.next = s.next + 1
              \/ Cuts(PutRecord(recs, r))
      /\ Typed'
  BY ApplyAddDoes DEF FilesInv
<1>2. /\ Typed /\ Fine(s.marks) /\ RefsApart(recs.list) /\ s.applied \subseteq DOMAIN server
      /\ ~recs.here => DOMAIN recs.list = {}
      /\ PlacedIn(s.incoming)
  BY SoundParts
<1>3. PICK m, r :
        /\ Adds(m, r)
        /\ \/ /\ pc' = "apply" /\ recs' \in {recs, PutRecord(recs, r)}
              /\ s'.marks = Append(s.marks, m) /\ s'.list = Append(s.list, r)
              /\ s'.incoming = s.incoming /\ s'.here = s.here \cup {m.ts}
              /\ s'.applied = s.applied \cup {TheChange.item} /\ s'.next = s.next + 1
           \/ Cuts(PutRecord(recs, r))
  BY <1>1
<1>4. m \in Mark /\ r \in Record /\ \A i \in DOMAIN s.marks : s.marks[i].ts # m.ts /\ s.marks[i].p # m.p
  BY <1>3 DEF Adds
<1> DEFINE f == PutRecord(recs, r)
<1>5. f.here /\ RefsApart(f.list)
  BY <1>4, PutSound
<1>6. f = PutRecord(recs, r)
  OBVIOUS
<1> HIDE DEF f
<1>7. CASE Cuts(f)
  BY <1>1, <1>5, <1>7, CutSound
<1>8. CASE /\ pc' = "apply" /\ recs' \in {recs, f} /\ s'.marks = Append(s.marks, m)
           /\ s'.incoming = s.incoming /\ s'.applied = s.applied \cup {TheChange.item}
  <2> DEFINE m2 == Append(s.marks, m)
  <2>1. s.marks \in Seq(Mark)
    BY <1>2, SyncFields
  <2>2. Longer(m2, s.marks, m)
    BY <1>4, <2>1, AppendFile
  <2>3. s'.marks = m2
    BY <1>8
  <2> HIDE DEF m2
  <2>4. Fine(m2)
    BY <1>2, <1>4, <2>2, Zenon DEF Longer, Fine
  <2>5. s'.applied \subseteq DOMAIN server
    BY <1>1, <1>2, <1>8 DEF PlacedIn, TheChange
  <2>6. RefsApart(recs'.list) /\ (~recs'.here => DOMAIN recs'.list = {})
    BY <1>2, <1>5, <1>8
  <2>7. Fine(s'.marks)
    BY <2>3, <2>4
  <2> QED BY <1>1, <1>8, <2>5, <2>6, <2>7, AppliesSound
<1> QED
  BY <1>3, <1>6, <1>7, <1>8

LEMMA ApplyLaterSound ==
  ASSUME FilesInv, ApplyLater
  PROVE  FilesInv'
<1>1. /\ pc' = "apply" /\ UNCHANGED <<marks, recs, server>> /\ SameWork
      /\ s'.incoming = s.incoming /\ Typed'
  BY ApplyLaterDoes DEF FilesInv
<1>2. /\ Fine(s.marks) /\ RefsApart(recs.list) /\ s.applied \subseteq DOMAIN server
      /\ ~recs.here => DOMAIN recs.list = {}
  BY SoundParts
<1>3. Fine(s'.marks) /\ s'.applied \subseteq DOMAIN server
  BY <1>1, <1>2 DEF SameWork
<1> QED
  BY <1>1, <1>2, <1>3, AppliesSound

LEMMA SaveSound ==
  ASSUME FilesInv, Save
  PROVE  FilesInv'
<1>1. /\ UNCHANGED <<recs, now, server, removed>>
      /\ \/ marks'.list = s.marks /\ pc' = "cover" /\ s' = s
         \/ pc' = "idle" /\ s' = NoSync /\ (marks' = marks \/ Torn)
      /\ Typed'
  BY SaveDoes DEF FilesInv
<1>2. /\ Typed /\ Fine(marks.list) /\ Fine(s.marks) /\ RefsApart(recs.list)
      /\ ~recs.here => DOMAIN recs.list = {}
      /\ PlacedIn(s.incoming) /\ s.applied \subseteq DOMAIN server
  BY SoundParts
<1>3. CASE pc' = "idle" /\ s' = NoSync /\ (marks' = marks \/ Torn)
  <2>1. Fine(marks'.list)
    BY <1>2, <1>3, NothingSound DEF Torn
  <2> QED BY <1>1, <1>2, <1>3, <2>1, EndedSound
<1>4. CASE marks'.list = s.marks /\ pc' = "cover" /\ s' = s
  <2>1. /\ pc' # "idle" /\ pc' # "mint" /\ pc' \notin {"mint", "exchange"}
        /\ pc' \notin Early /\ pc' \notin {"exchange", "pull", "advance"}
    BY <1>4 DEF Early
  <2>2. /\ Fine(s'.marks) /\ Fine(marks'.list) /\ Kin(server') /\ s'.marks = marks'.list
        /\ PlacedIn(s'.incoming) /\ s'.applied \subseteq DOMAIN server
        /\ RefsApart(recs'.list) /\ (~recs'.here => DOMAIN recs'.list = {})
    BY <1>1, <1>2, <1>4, KinItself
  <2> QED BY <1>1, <2>1, <2>2, GoesOnSound
<1> QED
  BY <1>1, <1>3, <1>4

LEMMA CoverSound ==
  ASSUME FilesInv, Cover, Trimmed'
  PROVE  FilesInv'
<1> DEFINE f == Advanced(recs, s.newest)
<1>1. /\ pc = "cover" /\ UNCHANGED <<marks, now, server, removed>>
      /\ \/ /\ recs'.list = recs.list /\ recs'.here = recs.here
            /\ (pc' = "idle" /\ s' = NoSync) \/ (pc' = "ack" /\ s' = s)
         \/ Cuts(f)
      /\ Typed'
  BY CoverDoes DEF FilesInv
<1>2. /\ Typed /\ Fine(marks.list) /\ Fine(s.marks) /\ RefsApart(recs.list)
      /\ ~recs.here => DOMAIN recs.list = {}
      /\ PlacedIn(s.incoming) /\ s.applied \subseteq DOMAIN server
  BY SoundParts
<1>3. s.marks = marks.list
  BY <1>1 DEF FilesInv, Loaded
<1>4. f.list = recs.list /\ f.here = recs.here
  BY <1>2, SyncFields, AdvancedIs DEF Typed
<1> HIDE DEF f
<1>5. CASE Cuts(f)
  BY <1>1, <1>2, <1>4, <1>5, CutSound
<1>6. CASE recs'.list = recs.list /\ recs'.here = recs.here /\ pc' = "idle" /\ s' = NoSync
  BY <1>1, <1>2, <1>6, EndedSound
<1>7. CASE recs'.list = recs.list /\ recs'.here = recs.here /\ pc' = "ack" /\ s' = s
  <2>1. /\ pc' # "idle" /\ pc' # "mint" /\ pc' \notin {"mint", "exchange"}
        /\ pc' \notin Early /\ pc' \notin {"exchange", "pull", "advance"}
    BY <1>7 DEF Early
  <2>2. /\ Fine(s'.marks) /\ Fine(marks'.list) /\ Kin(server') /\ s'.marks = marks'.list
        /\ PlacedIn(s'.incoming) /\ s'.applied \subseteq DOMAIN server
        /\ RefsApart(recs'.list) /\ (~recs'.here => DOMAIN recs'.list = {})
    BY <1>1, <1>2, <1>3, <1>7, KinItself
  <2> QED BY <1>1, <2>1, <2>2, GoesOnSound
<1> QED
  BY <1>1, <1>5, <1>6, <1>7

LEMMA AckSound ==
  ASSUME FilesInv, Ack
  PROVE  FilesInv'
<1>1. pc' = "idle" /\ s' = NoSync /\ UNCHANGED <<marks, recs, now, removed>> /\ Typed'
  BY AckDoes DEF FilesInv
<1> QED
  BY <1>1, SoundParts, EndedSound

LEMMA PowerCutSound ==
  ASSUME FilesInv, PowerCut
  PROVE  FilesInv'
<1>1. pc' = "idle" /\ s' = NoSync /\ UNCHANGED <<marks, recs, now, server, removed>> /\ Typed'
  BY PowerCutDoes DEF FilesInv
<1> QED
  BY <1>1, SoundParts, EndedSound

\* An edit between two syncs.
LEMMA EditSound ==
  ASSUME FilesInv, Typed', pc = "idle", UNCHANGED <<recs, server, pc, s>>, Fine(marks'.list)
  PROVE  FilesInv'
<1>1. pc' = "idle" /\ s' = NoSync
  BY DEF FilesInv, Loaded
<1> QED
  BY <1>1, SoundParts, EndedSound

LEMMA MarkPassageSound ==
  ASSUME FilesInv, NEW p \in Passages, MarkPassage(p)
  PROVE  FilesInv'
<1>1. /\ pc = "idle" /\ UNCHANGED <<recs, server, pc, s, removed>>
      /\ \/ \E m : /\ m \in Mark /\ m.own /\ m.p = p
                   /\ \A i \in DOMAIN marks.list : marks.list[i].ts # m.ts
                   /\ marks'.list = Append(marks.list, m)
         \/ Torn
      /\ Typed'
  BY MarkPassageDoes DEF FilesInv
<1>2. Fine(marks.list) /\ marks.list \in Seq(Mark)
  BY SoundParts, SyncFields
<1>3. CASE Torn
  <2>1. Fine(marks'.list)
    BY <1>3, NothingSound DEF Torn
  <2> QED BY <1>1, <2>1, EditSound
<1>4. CASE \E m : /\ m \in Mark /\ m.own /\ m.p = p
                  /\ \A i \in DOMAIN marks.list : marks.list[i].ts # m.ts
                  /\ marks'.list = Append(marks.list, m)
  <2>1. PICK m : /\ m \in Mark /\ m.own /\ m.p = p
                 /\ \A i \in DOMAIN marks.list : marks.list[i].ts # m.ts
                 /\ marks'.list = Append(marks.list, m)
    BY <1>4
  <2> DEFINE m2 == Append(marks.list, m)
  <2>2. Longer(m2, marks.list, m)
    BY <1>2, <2>1, AppendFile
  <2>3. marks'.list = m2
    BY <2>1
  <2> HIDE DEF m2
  <2>4. Fine(m2)
    BY <1>2, <2>1, <2>2, Zenon DEF Longer, Fine
  <2>5. Fine(marks'.list)
    BY <2>3, <2>4
  <2> QED BY <1>1, <2>5, EditSound
<1> QED
  BY <1>1, <1>3, <1>4

LEMMA RemoveMarkSound ==
  ASSUME FilesInv, NEW i \in DOMAIN marks.list, RemoveMark(i)
  PROVE  FilesInv'
<1> DEFINE rest == DOMAIN marks.list \ {i}
<1>1. /\ pc = "idle" /\ UNCHANGED <<recs, server, pc, s>>
      /\ Shorter(marks'.list, marks.list, rest) \/ Torn
      /\ Typed'
  BY RemoveMarkDoes DEF FilesInv
<1> HIDE DEF rest
<1>2. Fine(marks.list)
  BY SoundParts
<1>3. CASE Torn
  <2>1. Fine(marks'.list)
    BY <1>3, NothingSound DEF Torn
  <2> QED BY <1>1, <2>1, EditSound
<1>4. CASE Shorter(marks'.list, marks.list, rest)
  <2>1. Fine(marks'.list)
    BY <1>2, <1>4, Zenon DEF Fine, Shorter
  <2> QED BY <1>1, <2>1, EditSound
<1> QED
  BY <1>1, <1>3, <1>4

\* A change made on the web.
LEMMA WebSound ==
  ASSUME FilesInv, Typed', UNCHANGED <<marks, recs, now, pc, s>>, Kin(server')
  PROVE  FilesInv'
<1>1. Sound'
  BY DEF FilesInv, Sound
<1>2. PlacedIn(s'.incoming) /\ s.applied \subseteq DOMAIN server
  BY SoundParts
<1>3. Placed' /\ s'.applied \subseteq DOMAIN server'
  BY <1>2, StillPlaced DEF Kin
<1>4. Loaded'
  BY <1>3 DEF FilesInv, Loaded, Early
<1> QED
  BY <1>1, <1>4 DEF FilesInv

LEMMA WebAddSound ==
  ASSUME FilesInv, NEW p \in Passages, NEW date \in WebDates, WebAdd(p, date)
  PROVE  FilesInv'
<1>1. /\ UNCHANGED <<marks, recs, now, pc, s, removed>>
      /\ \E x : /\ x \in Item /\ x.p = p /\ x.key[2] = p /\ x.state = "live" /\ ~x.delivered
                /\ Grows(server', server, x)
      /\ Typed'
  BY WebAddDoes DEF FilesInv
<1>2. Kin(server')
  BY <1>1, Zenon DEF Grows, Kin
<1> QED
  BY <1>1, <1>2, WebSound

LEMMA WebDeleteSound ==
  ASSUME FilesInv, NEW i \in DOMAIN server, WebDelete(i)
  PROVE  FilesInv'
<1>1. /\ UNCHANGED <<marks, recs, now, pc, s, removed>> /\ DOMAIN server' = DOMAIN server
      /\ \A j \in DOMAIN server : server'[j].p = server[j].p
      /\ Typed'
  BY WebDeleteDoes DEF FilesInv
<1>2. Kin(server')
  BY <1>1 DEF Kin
<1> QED
  BY <1>1, <1>2, WebSound

LEMMA NextSound ==
  ASSUME FilesInv, [Next]_vars, Trimmed'
  PROVE  FilesInv'
<1>1. CASE UNCHANGED vars
  <2>1. UNCHANGED <<marks, recs, now, server, pc, s, faults, edits, removed, twice>>
    BY <1>1 DEF vars
  <2>2. Typed'
    BY <2>1 DEF FilesInv, Typed
  <2>3. Kin(server')
    BY <2>1, KinItself
  <2> QED BY <2>1, <2>2, <2>3, WebSound
<1>2. CASE SyncStep
  BY <1>2, BeginSound, MintSound, RetainSound, ExchangeSound, PullSound, AdvanceSound, ApplyDeleteSound,
     ApplyPresentSound, ApplyAddSound, ApplyLaterSound, SaveSound, CoverSound, AckSound
  DEF SyncStep, Apply
<1>3. CASE Reader
  BY <1>3, MarkPassageSound, RemoveMarkSound DEF Reader
<1>4. CASE Web
  BY <1>4, WebAddSound, WebDeleteSound DEF Web
<1> QED
  BY <1>1, <1>2, <1>3, <1>4, PowerCutSound DEF Next

\* While the records are trimmed, whatever is lost or written half: the files stay sound.
LEMMA FilesAlwaysSound == Spec => [](Trimmed => FilesInv)
<1>1. Init => FilesInv
  BY InitSound
<1>2. Basic /\ (Trimmed => FilesInv) /\ [Next]_vars => (Trimmed => FilesInv)'
  BY NextSound, NextTrimmed DEF Basic
<1> QED
  BY <1>1, <1>2, AlwaysBasic, PTL DEF Spec

-----------------------------------------------------------------------------
(* What changes the server.                                                *)

\* A step that leaves the server's highlights as they are, or one of these.
LEMMA ServerSteps ==
  ASSUME FilesInv, [Next]_vars, Trimmed'
  PROVE  SameHighlights(server') \/ Exchange \/ Ack \/ Web
<1>1. Typed
  BY DEF FilesInv
<1>2. server' = server => SameHighlights(server')
  BY <1>1, SameAsIs
<1>3. CASE UNCHANGED vars
  BY <1>2, <1>3 DEF vars
<1>4. CASE Begin \/ Mint \/ Retain \/ Advance
  BY <1>1, <1>2, <1>4, BeginDoes, MintDoes, RetainDoes, AdvanceDoes
<1>5. CASE Apply
  BY <1>1, <1>2, <1>5, ApplyDeleteDoes, ApplyPresentDoes, ApplyAddDoes, ApplyLaterDoes DEF Apply
<1>6. CASE Save \/ Cover
  BY <1>1, <1>2, <1>6, SaveDoes, CoverDoes
<1>7. CASE Pull
  BY <1>1, <1>7, PullDoes
<1>8. CASE Reader
  BY <1>1, <1>2, <1>8, MarkPassageDoes, RemoveMarkDoes DEF Reader
<1>9. CASE PowerCut
  BY <1>1, <1>2, <1>9, PowerCutDoes
<1> QED
  BY <1>3, <1>4, <1>5, <1>6, <1>7, <1>8, <1>9 DEF Next, SyncStep

\* A request leaves the highlights keyed by their passages.
LEMMA AnswerKeyed ==
  ASSUME Typed, Keyed
  PROVE  \A i \in DOMAIN Answer : Answer[i].key[2] = Answer[i].p
<1> DEFINE next == Answer
           q == Outgoing
           keys == SentKeys
           complete == KeysComplete
<1>1. q \in Seq(Record) /\ AfterRequest(next, q, keys, complete)
  BY AnswerIs
<1>2. \A n \in DOMAIN q : q[n] \in Record /\ KeyOf(q[n])[2] = q[n].p
  BY <1>1, ElementOfSeq, KeyFacts
<1> HIDE DEF next, q, keys, complete
<1>3. ASSUME NEW i \in DOMAIN server PROVE next[i].key[2] = next[i].p
  <2>1. next[i].p = server[i].p /\ server[i].key[2] = server[i].p
    BY <1>1, <1>3, Zenon DEF AfterRequest, Keyed
  <2>2. CASE Linked(q, i) = {}
    <3>1. next[i].key = server[i].key
      BY <1>1, <2>2, Zenon DEF AfterRequest
    <3> QED BY <2>1, <3>1
  <2>3. CASE Linked(q, i) # {}
    <3> DEFINE n == Min(Linked(q, i))
    <3>1. n \in DOMAIN q /\ q[n].p = server[i].p
      BY <1>1, <2>3, LinkedAre
    <3>2. next[i].key = KeyOf(q[n])
      BY <1>1, <2>3, Zenon DEF AfterRequest
    <3> HIDE DEF n
    <3> QED BY <1>2, <2>1, <3>1, <3>2
  <2> QED BY <2>2, <2>3
<1>4. ASSUME NEW j \in DOMAIN next, j \notin DOMAIN server PROVE next[j].key[2] = next[j].p
  <2>1. PICK n \in Unlinked(q) : next[j].p = q[n].p /\ next[j].key = KeyOf(q[n])
    BY <1>1, <1>4, SMTT(30) DEF AfterRequest
  <2>2. n \in DOMAIN q
    BY DEF Unlinked, News
  <2> QED BY <1>2, <2>1, <2>2
<1>5. \A i \in DOMAIN next : next[i].key[2] = next[i].p
  BY <1>3, <1>4
<1> QED
  BY <1>5 DEF next

\* So does every step.
LEMMA NextKeyed ==
  ASSUME FilesInv, Keyed, [Next]_vars, Trimmed'
  PROVE  Keyed'
<1>1. Typed
  BY DEF FilesInv
<1>2. CASE SameHighlights(server')
  BY <1>2 DEF SameHighlights, Keyed
<1>3. CASE Exchange
  <2>1. server' = server \/ server' = Answer
    BY <1>1, <1>3, ExchangeDoes
  <2> QED BY <1>1, <2>1, AnswerKeyed DEF Keyed
<1>4. CASE Ack
  <2> DEFINE next == Acknowledged(s.applied, s.dels)
  <2>1. server' \in {server, next}
    BY <1>1, <1>4, AckDoes
  <2>2. DOMAIN next = DOMAIN server /\ \A i \in DOMAIN server : next[i].p = server[i].p /\ next[i].key = server[i].key
    BY <1>1, AcknowledgedIs
  <2> HIDE DEF next
  <2> QED BY <2>1, <2>2 DEF Keyed
<1>5. CASE \E p \in Passages, date \in WebDates : WebAdd(p, date)
  <2>1. PICK x : x.key[2] = x.p /\ Grows(server', server, x)
    BY <1>1, <1>5, WebAddDoes
  <2>2. \A i \in DOMAIN server' : (i \in DOMAIN server /\ server'[i] = server[i]) \/ server'[i] = x
    BY <2>1, Zenon DEF Grows
  <2> QED BY <2>1, <2>2 DEF Keyed
<1>6. CASE \E i \in DOMAIN server : WebDelete(i)
  <2>1. DOMAIN server' = DOMAIN server /\ \A j \in DOMAIN server : server'[j].p = server[j].p /\ server'[j].key = server[j].key
    BY <1>1, <1>6, WebDeleteDoes
  <2> QED BY <2>1 DEF Keyed
<1> QED
  BY <1>2, <1>3, <1>4, <1>5, <1>6, ServerSteps DEF Web

LEMMA AlwaysKeyed == Spec => [](Trimmed => FilesInv /\ Keyed)
<1>1. Init => Keyed
  BY DEF Init, Keyed
<1>2. Basic /\ (Trimmed => FilesInv) /\ (Trimmed => FilesInv /\ Keyed) /\ [Next]_vars
        => (Trimmed => Keyed)'
  BY NextKeyed, NextTrimmed DEF Basic
<1> QED
  BY <1>1, <1>2, AlwaysBasic, FilesAlwaysSound, PTL DEF Spec

-----------------------------------------------------------------------------
(* What the watermark covers the server knows.                             *)

\* No step makes the server forget a highlight.
LEMMA NextKin ==
  ASSUME FilesInv, [Next]_vars, Trimmed'
  PROVE  Kin(server')
<1>1. Typed
  BY DEF FilesInv
<1>2. CASE SameHighlights(server')
  BY <1>2 DEF SameHighlights, Kin
<1>3. CASE Exchange
  BY <1>1, <1>3, ExchangeDoes, AnswerKin, KinItself
<1>4. CASE Ack
  <2> DEFINE next == Acknowledged(s.applied, s.dels)
  <2>1. server' \in {server, next}
    BY <1>1, <1>4, AckDoes
  <2>2. DOMAIN next = DOMAIN server /\ \A i \in DOMAIN server : next[i].p = server[i].p
    BY <1>1, AcknowledgedIs
  <2> HIDE DEF next
  <2> QED BY <2>1, <2>2 DEF Kin
<1>5. CASE \E p \in Passages, date \in WebDates : WebAdd(p, date)
  <2>1. PICK x : Grows(server', server, x)
    BY <1>1, <1>5, WebAddDoes
  <2> QED BY <2>1, Zenon DEF Grows, Kin
<1>6. CASE \E i \in DOMAIN server : WebDelete(i)
  <2>1. DOMAIN server' = DOMAIN server /\ \A j \in DOMAIN server : server'[j].p = server[j].p
    BY <1>1, <1>6, WebDeleteDoes
  <2> QED BY <2>1 DEF Kin
<1> QED
  BY <1>2, <1>3, <1>4, <1>5, <1>6, ServerSteps DEF Web

\* A step whose records were here, were answered for, or are above the watermark.
LEMMA CoveredStays ==
  ASSUME Covered, Kin(server'),
         \A k \in DOMAIN recs'.list :
           \/ Known(server', recs'.list[k].p)
           \/ ~(recs'.list[k].id <= recs'.watermark) /\ pc' \notin Answered
           \/ /\ \E n \in DOMAIN recs.list : recs'.list[k] = recs.list[n]
              /\ pc \in Answered \/ (recs'.watermark = recs.watermark /\ pc' \notin Answered)
  PROVE  Covered'
<1> SUFFICES ASSUME NEW k \in DOMAIN recs'.list,
                    recs'.list[k].id <= recs'.watermark \/ pc' \in Answered
             PROVE  Known(server', recs'.list[k].p)
  BY DEF Covered
<1>1. CASE /\ \E n \in DOMAIN recs.list : recs'.list[k] = recs.list[n]
           /\ pc \in Answered \/ (recs'.watermark = recs.watermark /\ pc' \notin Answered)
  <2>1. PICK n \in DOMAIN recs.list : recs'.list[k] = recs.list[n]
    BY <1>1
  <2>2. Known(server, recs.list[n].p)
    BY <1>1, <2>1 DEF Covered
  <2> QED BY <2>1, <2>2 DEF Known, Kin
<1> QED
  BY <1>1

\* What goes out, the server knew by its key, or does when it answers.
LEMMA SentIs ==
  ASSUME Typed, NEW k \in DOMAIN Outgoing
  PROVE  \/ \E i \in DOMAIN server : server[i].key = KeyOf(Outgoing[k])
         \/ \E j \in DOMAIN Answer : Answer[j].key = KeyOf(Outgoing[k])
<1> DEFINE q == Outgoing
           keys == SentKeys
           complete == KeysComplete
           next == Answer
           key == KeyOf(q[k])
<1>1. q \in Seq(Record) /\ AfterRequest(next, q, keys, complete)
  BY AnswerIs
<1> HIDE DEF keys, complete, next
<1>2. \/ \E i \in DOMAIN server : server[i].key = KeyOf(q[k])
      \/ \E m \in News(q) : KeyOf(q[m]) = KeyOf(q[k])
  BY <1>1, NewsCover
<1>3. ASSUME NEW m \in News(q), KeyOf(q[m]) = key
      PROVE  \E j \in DOMAIN next : next[j].key = key
  <2>1. CASE m \in Unlinked(q)
    <3>1. \E j \in DOMAIN next : next[j].key = KeyOf(q[m])
      BY <1>1, <2>1, Zenon DEF AfterRequest
    <3> QED BY <1>3, <3>1
  <2>2. CASE m \notin Unlinked(q)
    <3>1. PICK i \in DOMAIN server : Linked(q, i) # {} /\ m = Min(Linked(q, i))
      BY <2>2 DEF Unlinked
    <3>2. i \in DOMAIN next /\ next[i].key = KeyOf(q[m])
      BY <1>1, <3>1, Zenon DEF AfterRequest
    <3> QED BY <1>3, <3>2
  <2> QED BY <2>1, <2>2
<1> QED
  BY <1>2, <1>3 DEF next

\* So it knows its passage.
LEMMA SentIsKnown ==
  ASSUME Typed, Keyed, NEW k \in DOMAIN Outgoing
  PROVE  Known(Answer, Outgoing[k].p)
<1>1. Outgoing[k] \in Record
  BY OutgoingAre, ElementOfSeq
<1> DEFINE r == Outgoing[k]
           next == Answer
<1>2. KeyOf(r)[2] = r.p
  BY <1>1, KeyFacts
<1>3. \/ \E i \in DOMAIN server : server[i].key = KeyOf(r)
      \/ \E j \in DOMAIN next : next[j].key = KeyOf(r)
  BY SentIs
<1>4. \A i \in DOMAIN next : next[i].key[2] = next[i].p
  BY AnswerKeyed
<1>5. Kin(next)
  BY AnswerKin
<1> HIDE DEF r, next
<1>6. Known(next, r.p)
  BY <1>2, <1>3, <1>4, <1>5 DEF Known, Kin, Keyed
<1> QED
  BY <1>6 DEF r, next

\* What is left of a record file when it is cut short.
LEMMA CutCovered ==
  ASSUME Covered, Kin(server'), NEW f, Cuts(f), f.list = recs.list, f.watermark = recs.watermark \/ pc \in Answered
  PROVE  Covered'
<1>1. pc' \notin Answered
  BY DEF Cuts, Answered, Late
<1>2. \A k \in DOMAIN recs'.list :
        recs'.watermark = f.watermark /\ \E n \in DOMAIN f.list : recs'.list[k] = f.list[n]
  BY Zenon DEF Cuts
<1> QED
  BY <1>1, <1>2, CoveredStays

\* A record minted is above the watermark.
LEMMA MintCovered ==
  ASSUME FilesInv, Covered, Mint, Trimmed'
  PROVE  Covered'
<1>1. /\ pc = "mint" /\ UNCHANGED <<marks, now, server, removed>>
      /\ \/ /\ pc' = "mint" /\ SameWork /\ s'.late > s'.watermark /\ s'.incoming = s.incoming
            /\ \/ recs' = recs /\ s'.list = s.list
               \/ \E r : Mints(r) /\ s'.list = Append(s.list, r) /\ recs' = PutRecord(recs, r)
         \/ \E r : Mints(r) /\ Cuts(PutRecord(recs, r))
      /\ Typed'
  BY MintDoes
<1>2. Typed /\ recs \in RecordFile /\ recs.watermark \in Nat /\ s.watermark = recs.watermark /\ Kin(server')
  BY <1>1, SyncFields, KinItself DEF FilesInv, Typed, Loaded, Early
<1>3. CASE recs' = recs /\ pc' = "mint"
  BY <1>1, <1>2, <1>3, CoveredStays DEF Answered, Late
<1>4. ASSUME NEW r, Mints(r), NEW f, f = PutRecord(recs, r)
      PROVE  /\ f.watermark = recs.watermark /\ ~(r.id <= f.watermark)
             /\ \A k \in DOMAIN f.list : f.list[k] = r \/ \E n \in DOMAIN recs.list : f.list[k] = recs.list[n]
  <2>1. r \in Record /\ r.id > s.watermark /\ r.id \in Nat
    BY <1>4, FieldTypes DEF Mints
  <2>2. Puts(PutRecord(recs, r), recs, r)
    BY <1>2, <2>1, PutIs
  <2>3. Puts(f, recs, r)
    BY <1>4, <2>2
  <2>4. f.watermark = recs.watermark
    BY <2>3, Zenon DEF Puts
  <2>5. \A k \in DOMAIN f.list : f.list[k] = r \/ \E n \in DOMAIN recs.list : f.list[k] = recs.list[n]
    BY <2>3, Zenon DEF Puts
  <2>6. ~(r.id <= f.watermark)
    BY <1>2, <2>1, <2>4
  <2> QED BY <2>4, <2>5, <2>6
<1>5. ASSUME NEW r, Mints(r), recs' = PutRecord(recs, r), pc' = "mint" PROVE Covered'
  <2> DEFINE f == PutRecord(recs, r)
  <2>1. /\ f.watermark = recs.watermark /\ ~(r.id <= f.watermark)
        /\ \A k \in DOMAIN f.list : f.list[k] = r \/ \E n \in DOMAIN recs.list : f.list[k] = recs.list[n]
    BY <1>4, <1>5
  <2>2. recs' = f
    BY <1>5
  <2> HIDE DEF f
  <2> QED BY <1>2, <1>5, <2>1, <2>2, CoveredStays DEF Answered, Late
<1>6. ASSUME NEW r, Mints(r), Cuts(PutRecord(recs, r)) PROVE Covered'
  <2> DEFINE f == PutRecord(recs, r)
  <2>1. /\ f.watermark = recs.watermark /\ ~(r.id <= f.watermark)
        /\ \A k \in DOMAIN f.list : f.list[k] = r \/ \E n \in DOMAIN recs.list : f.list[k] = recs.list[n]
    BY <1>4, <1>6
  <2>2. Cuts(f)
    BY <1>6
  <2> HIDE DEF f
  <2>3. /\ pc' = "idle"
        /\ \A k \in DOMAIN recs'.list :
             recs'.watermark = f.watermark /\ \E n \in DOMAIN f.list : recs'.list[k] = f.list[n]
    BY <2>2, Zenon DEF Cuts
  <2>4. \A k \in DOMAIN recs'.list :
          /\ recs'.watermark = recs.watermark
          /\ recs'.list[k] = r \/ \E n \in DOMAIN recs.list : recs'.list[k] = recs.list[n]
    BY <2>1, <2>3
  <2> QED BY <1>2, <2>1, <2>3, <2>4, CoveredStays DEF Answered, Late
<1> QED
  BY <1>1, <1>3, <1>5, <1>6

\* Retain leaves some of the records.
LEMMA RetainCovered ==
  ASSUME FilesInv, Covered, Retain, Trimmed'
  PROVE  Covered'
<1> DEFINE kept == [recs EXCEPT !.list = Kept(@)]
           list == Kept(recs.list)
<1>1. /\ Typed /\ pc = "mint" /\ Unrecorded = {} /\ UNCHANGED <<now, server, removed>>
      /\ Shorter(list, recs.list, HasMark)
      /\ \/ /\ pc' = "exchange" /\ marks' = marks /\ SameWork /\ s'.incoming = s.incoming
            /\ recs' = kept /\ s'.list = list
            /\ recs'.list = list /\ recs'.here = recs.here
            /\ recs'.watermark = recs.watermark
         \/ Cuts(kept) /\ marks' = marks
         \/ /\ recs' = recs /\ marks' = TornFile /\ pc' = "idle" /\ s' = NoSync
            /\ "torn" \in Faults
      /\ Typed'
  BY RetainDoes DEF FilesInv
<1>2. kept.list = list /\ kept.watermark = recs.watermark
  BY <1>1 DEF Typed, RecordFile
<1> HIDE DEF kept, list
<1>3. \A k \in DOMAIN list : \E n \in DOMAIN recs.list : list[k] = recs.list[n]
  BY <1>1, Zenon DEF Shorter
<1>4. Kin(server')
  BY <1>1, KinItself
<1>5. CASE Cuts(kept)
  <2>1. /\ pc' = "idle"
        /\ \A k \in DOMAIN recs'.list :
             recs'.watermark = kept.watermark /\ \E n \in DOMAIN kept.list : recs'.list[k] = kept.list[n]
    BY <1>5, Zenon DEF Cuts
  <2>2. \A k \in DOMAIN recs'.list :
          recs'.watermark = recs.watermark /\ \E n \in DOMAIN recs.list : recs'.list[k] = recs.list[n]
    BY <1>2, <1>3, <2>1
  <2> QED BY <1>4, <2>1, <2>2, CoveredStays DEF Answered, Late
<1> QED
  BY <1>1, <1>3, <1>4, <1>5, CoveredStays DEF Answered, Late

\* A batch that holds all records carries every one above the watermark.
LEMMA AllSent ==
  ASSUME FilesInv, pc = "exchange", Len(s.list) <= Batch,
         NEW n \in DOMAIN s.list, s.list[n].id > s.watermark
  PROVE  \E k \in DOMAIN Outgoing : Outgoing[k] = s.list[n]
<1>1. RefOf(s.list[n]) \in Refs(s.marks)
  BY DEF FilesInv, Loaded, Refs
<1> QED
  BY <1>1, OutgoingAre DEF FilesInv

\* After an exchange the server knows every record, covered or just sent.
LEMMA ExchangeCovered ==
  ASSUME FilesInv, Keyed, Covered, OneBatch, Exchange
  PROVE  Covered'
<1>1. /\ pc = "exchange" /\ UNCHANGED <<marks, recs, now, removed>>
      /\ server' = server \/ server' = Answer
      /\ \/ pc' = "idle" /\ s' = NoSync
         \/ /\ pc' = "pull" /\ SameWork /\ s'.list = s.list
            /\ s'.incoming = Collected(<<>>, Offers) /\ server' = Answer
      /\ Typed'
  BY ExchangeDoes DEF FilesInv
<1>2. /\ Typed /\ s.list = recs.list /\ s.watermark = recs.watermark /\ Len(s.list) <= Batch
  BY <1>1 DEF FilesInv, Loaded, Early, OneBatch
<1>3. Kin(Answer) /\ Kin(server')
  BY <1>1, <1>2, AnswerKin, KinItself
<1>4. CASE pc' = "idle"
  BY <1>1, <1>3, <1>4, CoveredStays DEF Answered, Late
<1>5. CASE pc' = "pull" /\ server' = Answer
  <2> DEFINE next == Answer
  <2>1. \A k \in DOMAIN Outgoing : Known(next, Outgoing[k].p)
    BY <1>2, SentIsKnown
  <2>2. Kin(next) /\ server' = next
    BY <1>3, <1>5
  <2> HIDE DEF next
  <2>3. ASSUME NEW n \in DOMAIN recs.list PROVE Known(next, recs.list[n].p)
    <3>1. recs.list[n].id \in Nat /\ recs.watermark \in Nat
      BY <1>2, SyncFields, ElementOfSeq, FieldTypes
    <3>2. CASE recs.list[n].id <= recs.watermark
      <4>1. Known(server, recs.list[n].p)
        BY <3>2 DEF Covered
      <4> QED BY <2>2, <4>1 DEF Known, Kin
    <3>3. CASE recs.list[n].id > recs.watermark
      <4>1. PICK k \in DOMAIN Outgoing : Outgoing[k] = recs.list[n]
        BY <1>1, <1>2, <3>3, AllSent
      <4> QED BY <2>1, <4>1
    <3> QED BY <3>1, <3>2, <3>3
  <2>4. \A k \in DOMAIN recs'.list : Known(server', recs'.list[k].p)
    BY <1>1, <2>2, <2>3
  <2> QED BY <1>3, <2>4, CoveredStays
<1> QED
  BY <1>1, <1>4, <1>5

\* A highlight added is of a passage the server has one of.
LEMMA ApplyAddCovered ==
  ASSUME FilesInv, Covered, ApplyAdd, Trimmed'
  PROVE  Covered'
<1>1. /\ pc = "apply" /\ UNCHANGED <<marks, now, server, removed>> /\ s.next \in DOMAIN s.incoming
      /\ \E m, r :
           /\ Adds(m, r)
           /\ \/ pc' = "apply" /\ recs' \in {recs, PutRecord(recs, r)}
              \/ Cuts(PutRecord(recs, r))
  BY ApplyAddDoes DEF FilesInv
<1>2. PICK r : /\ r \in Record /\ r.p = TheChange.p
               /\ \/ pc' = "apply" /\ recs' \in {recs, PutRecord(recs, r)}
                  \/ Cuts(PutRecord(recs, r))
  BY <1>1, Zenon DEF Adds
<1>3. /\ recs \in RecordFile /\ pc \in Answered /\ Kin(server')
      /\ TheChange.item \in DOMAIN server /\ server[TheChange.item].p = TheChange.p
  BY <1>1, KinItself DEF FilesInv, Typed, Loaded, Placed, TheChange, Answered, Late
<1>4. Known(server', r.p)
  BY <1>1, <1>2, <1>3 DEF Known
<1> DEFINE f == PutRecord(recs, r)
<1>5. Puts(f, recs, r)
  BY <1>2, <1>3, PutIs
<1>6. recs' = recs \/ recs' = f \/ Cuts(f)
  BY <1>2
<1> HIDE DEF f
<1>7. \A k \in DOMAIN f.list : f.list[k] = r \/ \E n \in DOMAIN recs.list : f.list[k] = recs.list[n]
  BY <1>5, Zenon DEF Puts
<1>8. Cuts(f) => \A k \in DOMAIN recs'.list : \E n \in DOMAIN f.list : recs'.list[k] = f.list[n]
  BY Zenon DEF Cuts
<1>9. \A k \in DOMAIN recs'.list : recs'.list[k] = r \/ \E n \in DOMAIN recs.list : recs'.list[k] = recs.list[n]
  BY <1>6, <1>7, <1>8
<1>10. \A k \in DOMAIN recs'.list :
         \/ Known(server', recs'.list[k].p)
         \/ (\E n \in DOMAIN recs.list : recs'.list[k] = recs.list[n]) /\ pc \in Answered
  BY <1>3, <1>4, <1>9
<1> QED
  BY <1>3, <1>10, CoveredStays

\* Every step, and none.
LEMMA NextCovered ==
  ASSUME FilesInv, Keyed, Covered, OneBatch, [Next]_vars, Trimmed'
  PROVE  Covered'
<1>1. Typed /\ Kin(server')
  BY NextKin DEF FilesInv
<1>2. CASE recs' = recs /\ (pc \in Answered \/ pc' \notin Answered)
  BY <1>1, <1>2, CoveredStays
<1>3. CASE UNCHANGED vars
  BY <1>2, <1>3 DEF vars
<1>4. CASE Begin
  BY <1>1, <1>2, <1>4, BeginDoes DEF Answered, Late
<1>5. CASE Pull
  BY <1>1, <1>2, <1>5, PullDoes DEF Answered, Late
<1>6. CASE Advance
  <2> DEFINE f == Advanced(recs, s.top)
  <2>1. recs'.list = recs.list \/ Cuts(f)
    BY <1>1, <1>6, AdvanceDoes DEF Answered
  <2>2. pc \in Answered
    BY <1>1, <1>6, AdvanceDoes DEF Answered
  <2>3. f.list = recs.list
    BY <1>1, SyncFields, AdvancedIs DEF Typed
  <2> HIDE DEF f
  <2> QED BY <1>1, <2>1, <2>2, <2>3, CutCovered, CoveredStays
<1>7. CASE ApplyDelete \/ ApplyPresent \/ ApplyLater
  BY <1>1, <1>2, <1>7, ApplyDeleteDoes, ApplyPresentDoes, ApplyLaterDoes DEF Answered, Late
<1>8. CASE Save
  BY <1>1, <1>2, <1>8, SaveDoes DEF Answered, Late
<1>9. CASE Cover
  <2> DEFINE f == Advanced(recs, s.newest)
  <2>1. recs'.list = recs.list \/ Cuts(f)
    BY <1>1, <1>9, CoverDoes
  <2>2. pc \in Answered
    BY <1>1, <1>9, CoverDoes DEF Answered, Late
  <2>3. f.list = recs.list
    BY <1>1, SyncFields, AdvancedIs DEF Typed
  <2> HIDE DEF f
  <2> QED BY <1>1, <2>1, <2>2, <2>3, CutCovered, CoveredStays
<1>10. CASE Ack \/ PowerCut
  BY <1>1, <1>2, <1>10, AckDoes, PowerCutDoes DEF Answered, Late
<1>11. CASE Reader
  BY <1>1, <1>2, <1>11, MarkPassageDoes, RemoveMarkDoes DEF Reader, Answered, Late
<1>12. CASE Web
  BY <1>1, <1>2, <1>12, WebAddDoes, WebDeleteDoes DEF Web
<1> QED
  BY <1>3, <1>4, <1>5, <1>6, <1>7, <1>8, <1>9, <1>10, <1>11, <1>12, MintCovered, RetainCovered,
     ExchangeCovered, ApplyAddCovered DEF Next, SyncStep, Apply

LEMMA AlwaysCovered == Spec /\ []OneBatch => [](Trimmed => Covered)
<1>1. Init => Covered
  <2> SUFFICES ASSUME Init PROVE Covered
    OBVIOUS
  <2>1. DOMAIN recs.list = {}
    BY EmptySeq DEF Init, NoRecordFile
  <2> QED BY <2>1 DEF Covered
<1>2. Basic /\ (Trimmed => FilesInv /\ Keyed) /\ (Trimmed => Covered) /\ OneBatch /\ [Next]_vars
        => (Trimmed => Covered)'
  BY NextCovered, NextTrimmed DEF Basic
<1> QED
  BY <1>1, <1>2, AlwaysBasic, AlwaysKeyed, PTL DEF Spec

\* While the records are trimmed and no sync has more to send than a batch carries: a
\* record the watermark covers, and so is never sent again, is of a passage the server
\* knows, wherever a write is cut off by the power (syncHighlights,
\* BookOrbitSyncExtras.cpp).
THEOREM CoveredIsAlwaysKnown == Spec /\ []OneBatch => []CoveredIsKnown
<1>1. (Trimmed => Covered) => CoveredIsKnown
  BY DEF Covered, Known, CoveredIsKnown
<1> QED
  BY <1>1, AlwaysCovered, PTL

-----------------------------------------------------------------------------
(* What the server holds of one passage, and by which keys.                *)

\* Where the keys of its answer are from.
LEMMA AnswerKeys ==
  ASSUME Typed, NEW i \in DOMAIN Answer
  PROVE  \/ i \in DOMAIN server /\ Linked(Outgoing, i) = {} /\ Answer[i].key = server[i].key
         \/ /\ i \in DOMAIN server /\ Waiting(i)
            /\ \E n \in News(Outgoing) :
                 /\ n = Min(Linked(Outgoing, i)) /\ Linked(Outgoing, i) # {}
                 /\ n \in DOMAIN Outgoing /\ Outgoing[n].p = server[i].p
                 /\ Answer[i].key = KeyOf(Outgoing[n])
         \/ /\ i \notin DOMAIN server
            /\ \E n \in Unlinked(Outgoing) :
                 /\ n \in News(Outgoing) /\ n \in DOMAIN Outgoing
                 /\ Answer[i].p = Outgoing[n].p /\ Answer[i].key = KeyOf(Outgoing[n])
<1> DEFINE next == Answer
           q == Outgoing
           keys == SentKeys
           complete == KeysComplete
           n == Min(Linked(q, i))
<1>1. q \in Seq(Record) /\ AfterRequest(next, q, keys, complete)
  BY AnswerIs
<1> HIDE DEF next, q, keys, complete
<1>2. i \in DOMAIN next
  BY DEF next
<1>3. CASE i \in DOMAIN server /\ Linked(q, i) = {}
  <2>1. next[i].key = server[i].key
    BY <1>1, <1>3, Zenon DEF AfterRequest
  <2> QED BY <1>3, <2>1 DEF next, q
<1>4. CASE i \in DOMAIN server /\ Linked(q, i) # {}
  <2>1. n \in Linked(q, i) /\ Waiting(i)
    BY <1>1, <1>4, LinkedAre
  <2>2. n \in News(q) /\ n \in DOMAIN q /\ q[n].p = server[i].p
    BY <1>1, <1>4, <2>1, LinkedAre
  <2>3. next[i].key = KeyOf(q[n])
    BY <1>1, <1>4, Zenon DEF AfterRequest
  <2> QED BY <1>4, <2>1, <2>2, <2>3 DEF next, q
<1>5. CASE i \notin DOMAIN server
  <2>1. PICK k \in Unlinked(q) : next[i].p = q[k].p /\ next[i].key = KeyOf(q[k])
    BY <1>1, <1>2, <1>5, ZenonT(60) DEF AfterRequest
  <2>2. k \in News(q) /\ k \in DOMAIN q
    BY DEF Unlinked, News
  <2> QED BY <1>5, <2>1, <2>2 DEF next, q
<1> QED
  BY <1>3, <1>4, <1>5

\* What else there is to know of it.
LEMMA AnswerStates ==
  ASSUME Typed
  PROVE  /\ Kin(Answer)
         /\ \A i \in DOMAIN server :
              \/ Answer[i].state = server[i].state
              \/ server[i].state = "live" /\ server[i].delivered /\ Answer[i].state = "deviceDeleted"
         /\ \A i \in DOMAIN server : server[i].delivered => Answer[i].delivered
         /\ \A i \in DOMAIN server : Linked(Outgoing, i) # {} => Answer[i].delivered
         /\ \A j \in DOMAIN Answer : j \notin DOMAIN server => Answer[j].delivered
         /\ \A j, k \in DOMAIN Answer :
              j \notin DOMAIN server /\ k \notin DOMAIN server /\ Answer[j].key = Answer[k].key => j = k
<1> DEFINE next == Answer
           q == Outgoing
           keys == SentKeys
           complete == KeysComplete
<1>1. AfterRequest(next, q, keys, complete)
  BY AnswerIs
<1>2. Kin(next)
  BY AnswerKin
<1> HIDE DEF next, q, keys, complete
<1>3. \A i \in DOMAIN server :
        \/ next[i].state = server[i].state
        \/ server[i].state = "live" /\ server[i].delivered /\ next[i].state = "deviceDeleted"
  BY <1>1, Zenon DEF AfterRequest
<1>4. \A i \in DOMAIN server : server[i].delivered \/ Linked(q, i) # {} => next[i].delivered
  BY <1>1, Zenon DEF AfterRequest
<1>5. \A j \in DOMAIN next : j \notin DOMAIN server => next[j].delivered
  BY <1>1, Zenon DEF AfterRequest
<1>6. \A j, k \in DOMAIN next :
        j \notin DOMAIN server /\ k \notin DOMAIN server /\ next[j].key = next[k].key => j = k
  BY <1>1, Zenon DEF AfterRequest
<1> QED
  BY <1>2, <1>3, <1>4, <1>5, <1>6 DEF next, q

\* A highlight still waiting for an entry of its passage stays alone.
LEMMA AnswerAlone ==
  ASSUME Typed, server' = Answer, NEW i \in DOMAIN server, Waiting(i), Alone(i), Linked(Outgoing, i) = {}
  PROVE  Alone(i)'
<1>1. SUFFICES ASSUME NEW j \in DOMAIN server', j # i, server'[j].p = server'[i].p
               PROVE  server'[j].state \in {"gone", "deviceDeleted"}
  BY DEF Alone
<1>2. Kin(server')
  BY AnswerKin
<1>3. server'[i].p = server[i].p
  BY <1>2 DEF Kin
<1>4. CASE j \in DOMAIN server
  <2>1. server[j].p = server[i].p
    BY <1>1, <1>2, <1>3, <1>4 DEF Kin
  <2>2. server[j].state \in {"gone", "deviceDeleted"}
    BY <1>1, <1>4, <2>1 DEF Alone
  <2>3. \/ server'[j].state = server[j].state
        \/ server[j].state = "live" /\ server'[j].state = "deviceDeleted"
    BY <1>4, AnswerStates
  <2> QED BY <2>2, <2>3
<1>5. CASE j \notin DOMAIN server
  <2>1. PICK n \in News(Outgoing) : server'[j].p = Outgoing[n].p
    BY <1>1, <1>5, AnswerKeys
  <2>2. n \in Linked(Outgoing, i)
    BY <1>1, <1>3, <2>1 DEF Linked
  <2> QED BY <2>2
<1> QED
  BY <1>4, <1>5

\* After a request, highlights that wait are still alone and keys apart.
LEMMA AnswerServer ==
  ASSUME Typed, Typed', ServerInv, server' = Answer
  PROVE  ServerInv'
<1>1. ASSUME NEW i \in DOMAIN server', Waiting(i)' PROVE Alone(i)'
  <2>1. server'[i].state = "live" /\ ~server'[i].delivered
    BY <1>1 DEF Waiting
  <2>2. i \in DOMAIN server
    BY <1>1, <2>1, AnswerStates
  <2>3. Waiting(i) /\ Linked(Outgoing, i) = {}
    BY <2>1, <2>2, AnswerStates DEF Waiting
  <2> QED BY <2>2, <2>3, AnswerAlone DEF ServerInv
<1>2. \A i \in DOMAIN server : There(i)' => There(i)
  BY AnswerStates DEF There
<1> DEFINE old(i) == i \in DOMAIN server /\ server'[i].key = server[i].key
           linked(i) == /\ i \in DOMAIN server /\ Waiting(i)
                        /\ \E n \in News(Outgoing) :
                             /\ n = Min(Linked(Outgoing, i)) /\ Linked(Outgoing, i) # {}
                             /\ Outgoing[n].p = server[i].p /\ server'[i].key = KeyOf(Outgoing[n])
           made(i) == /\ i \notin DOMAIN server
                      /\ \E n \in Unlinked(Outgoing) :
                           n \in News(Outgoing) /\ server'[i].key = KeyOf(Outgoing[n])
<1>3. \A i \in DOMAIN server' : old(i) \/ linked(i) \/ made(i)
  BY AnswerKeys
<1>4. Outgoing \in Seq(Record)
  BY OutgoingAre
<1>5. ASSUME NEW i, NEW j, old(i), linked(j) \/ made(j) PROVE server'[i].key # server'[j].key
  <2>1. PICK n \in News(Outgoing) : server'[j].key = KeyOf(Outgoing[n])
    BY <1>5
  <2> QED BY <1>5, <2>1 DEF News
<1>6. ASSUME NEW i, NEW j, linked(i), made(j) PROVE server'[i].key # server'[j].key
  <2>1. PICK n \in News(Outgoing) :
          i \in DOMAIN server /\ n = Min(Linked(Outgoing, i)) /\ Linked(Outgoing, i) # {}
          /\ server'[i].key = KeyOf(Outgoing[n])
    BY <1>6
  <2>2. PICK m \in Unlinked(Outgoing) : m \in News(Outgoing) /\ server'[j].key = KeyOf(Outgoing[m])
    BY <1>6
  <2>3. m # n
    BY <2>1, <2>2 DEF Unlinked
  <2> QED BY <1>4, <2>1, <2>2, <2>3, NewsApart
<1>7. ASSUME NEW i, NEW j, linked(i), linked(j), server'[i].key = server'[j].key PROVE i = j
  <2>1. PICK n \in News(Outgoing) : Outgoing[n].p = server[i].p /\ server'[i].key = KeyOf(Outgoing[n])
    BY <1>7
  <2>2. PICK m \in News(Outgoing) : Outgoing[m].p = server[j].p /\ server'[j].key = KeyOf(Outgoing[m])
    BY <1>7
  <2>3. m = n
    BY <1>4, <1>7, <2>1, <2>2, NewsApart
  <2>4. server[i].p = server[j].p /\ Waiting(i) /\ Waiting(j) /\ i \in DOMAIN server /\ j \in DOMAIN server
    BY <1>7, <2>1, <2>2, <2>3
  <2> QED BY <2>4 DEF ServerInv, Alone, Waiting
<1>8. ASSUME NEW i, NEW j, old(i), old(j), There(i)', There(j)', server'[i].key = server'[j].key PROVE i = j
  BY <1>2, <1>8 DEF ServerInv
<1>9. ASSUME NEW i \in DOMAIN server', NEW j \in DOMAIN server', made(i), made(j), server'[i].key = server'[j].key
      PROVE  i = j
  BY <1>9, AnswerStates
<1> HIDE DEF old, linked, made
<1>10. ASSUME NEW i \in DOMAIN server', NEW j \in DOMAIN server', There(i)', There(j)', server'[i].key = server'[j].key
       PROVE  i = j
  BY <1>3, <1>5, <1>6, <1>7, <1>8, <1>9, <1>10
<1> QED
  BY <1>1, <1>10 DEF ServerInv

\* So they are after every step.
LEMMA NextServer ==
  ASSUME FilesInv, Keyed, ServerInv, [Next]_vars, Trimmed'
  PROVE  ServerInv'
<1>1. Typed /\ Typed'
  BY NextSound DEF FilesInv
<1>2. ASSUME DOMAIN server' = DOMAIN server,
             \A i \in DOMAIN server : /\ server'[i].p = server[i].p /\ server'[i].key = server[i].key
                                      /\ Waiting(i)' => Waiting(i)
                                      /\ There(i)' => There(i)
                                      /\ server[i].state \in {"gone", "deviceDeleted"} =>
                                           server'[i].state \in {"gone", "deviceDeleted"}
      PROVE  ServerInv'
  <2>1. ASSUME NEW i \in DOMAIN server', Waiting(i)' PROVE Alone(i)'
    BY <1>2, <2>1 DEF ServerInv, Alone
  <2>2. ASSUME NEW i \in DOMAIN server', NEW j \in DOMAIN server', There(i)', There(j)', server'[i].key = server'[j].key
        PROVE  i = j
    BY <1>2, <2>2 DEF ServerInv
  <2> QED BY <2>1, <2>2 DEF ServerInv
<1>3. CASE SameHighlights(server')
  BY <1>2, <1>3 DEF SameHighlights, Waiting, There
<1>4. CASE Exchange
  <2>1. server' = server \/ server' = Answer
    BY <1>1, <1>4, ExchangeDoes
  <2>2. CASE server' = server
    BY <1>1, <1>3, <2>2, SameAsIs
  <2> QED BY <1>1, <2>1, <2>2, AnswerServer
<1>5. CASE Ack
  <2> DEFINE next == Acknowledged(s.applied, s.dels)
  <2>1. server' \in {server, next}
    BY <1>1, <1>5, AckDoes
  <2>2. CASE server' = server
    BY <1>1, <1>3, <2>2, SameAsIs
  <2>3. CASE server' = next
    <3>1. /\ DOMAIN next = DOMAIN server
          /\ \A i \in DOMAIN server :
               /\ next[i].p = server[i].p /\ next[i].key = server[i].key
               /\ \/ i \in s.dels /\ next[i].state = "gone"
                  \/ i \notin s.dels /\ next[i].state = server[i].state
               /\ i \notin s.dels => (next[i].delivered <=> server[i].delivered \/ i \in s.applied)
      BY <1>1, AcknowledgedIs
    <3> HIDE DEF next
    <3> QED BY <1>2, <2>3, <3>1 DEF Waiting, There
  <2> QED BY <2>1, <2>2, <2>3
<1>6. ASSUME NEW p \in Passages, NEW date \in WebDates, WebAdd(p, date) PROVE ServerInv'
  <2>1. PICK x : x.p = p /\ x.key[2] = p /\ Grows(server', server, x)
    BY <1>1, <1>6, WebAddDoes
  <2>2. \A i \in DOMAIN server : server[i].p # p \/ server[i].state \in {"gone", "deviceDeleted"}
    BY <1>1, <1>6, WebAddDoes
  <2> DEFINE l == Len(server')
  <2>3. /\ \A i \in DOMAIN server : i \in DOMAIN server' /\ server'[i] = server[i]
        /\ l \in DOMAIN server' /\ l \notin DOMAIN server /\ server'[l] = x
        /\ \A i \in DOMAIN server' : i \in DOMAIN server \/ i = l
    BY <2>1, Zenon DEF Grows
  <2> HIDE DEF l
  <2>4. \A i \in DOMAIN server : Waiting(i)' = Waiting(i) /\ There(i)' = There(i)
    BY <2>3 DEF Waiting, There
  <2>5. \A i \in DOMAIN server : There(i) => server[i].p # p /\ server[i].key # x.key
    BY <2>1, <2>2 DEF There, Keyed
  <2>6. ASSUME NEW i \in DOMAIN server', Waiting(i)' PROVE Alone(i)'
    <3> SUFFICES ASSUME NEW j \in DOMAIN server', j # i, server'[j].p = server'[i].p
                 PROVE  server'[j].state \in {"gone", "deviceDeleted"}
      BY DEF Alone
    <3>1. CASE i = l
      BY <2>1, <2>2, <2>3, <3>1
    <3>2. CASE i # l
      <4>1. i \in DOMAIN server /\ Waiting(i) /\ There(i)
        BY <2>3, <2>4, <2>6, <3>2 DEF Waiting, There
      <4>2. j # l
        BY <2>1, <2>3, <2>5, <4>1
      <4>3. j \in DOMAIN server /\ server[j].p = server[i].p
        BY <2>3, <4>1, <4>2
      <4> QED BY <2>3, <4>1, <4>3 DEF ServerInv, Alone
    <3> QED BY <3>1, <3>2
  <2>7. ASSUME NEW i \in DOMAIN server', NEW j \in DOMAIN server', There(i)', There(j)', server'[i].key = server'[j].key
        PROVE  i = j
    <3>1. CASE i \in DOMAIN server /\ j \in DOMAIN server
      BY <2>3, <2>4, <2>7, <3>1 DEF ServerInv
    <3>2. CASE i = l /\ j \in DOMAIN server
      BY <2>3, <2>4, <2>5, <2>7, <3>2
    <3>3. CASE i \in DOMAIN server /\ j = l
      BY <2>3, <2>4, <2>5, <2>7, <3>3
    <3> QED BY <2>3, <3>1, <3>2, <3>3
  <2> QED BY <2>6, <2>7 DEF ServerInv
<1>7. ASSUME NEW i \in DOMAIN server, WebDelete(i) PROVE ServerInv'
  <2>1. /\ server[i].state = "live" /\ DOMAIN server' = DOMAIN server
        /\ \A j \in DOMAIN server :
              /\ server'[j].p = server[j].p /\ server'[j].key = server[j].key
              /\ server'[j].delivered <=> server[j].delivered
              /\ IF j = i THEN server'[j].state = "webDeleted" ELSE server'[j].state = server[j].state
    BY <1>1, <1>7, WebDeleteDoes
  <2>2. \A j \in DOMAIN server : /\ Waiting(j)' => Waiting(j)
                                 /\ There(j)' => There(j)
                                 /\ server[j].state \in {"gone", "deviceDeleted"} =>
                                      server'[j].state \in {"gone", "deviceDeleted"}
    BY <2>1 DEF Waiting, There
  <2> QED BY <1>2, <2>1, <2>2
<1> QED
  BY <1>3, <1>4, <1>5, <1>6, <1>7, ServerSteps DEF Web

LEMMA AlwaysServer == Spec => [](Trimmed => FilesInv /\ Keyed /\ ServerInv)
<1>1. Init => ServerInv
  BY DEF Init, ServerInv
<1>2. Basic /\ (Trimmed => FilesInv /\ Keyed) /\ (Trimmed => FilesInv /\ Keyed /\ ServerInv) /\ [Next]_vars
        => (Trimmed => ServerInv)'
  BY NextServer, NextTrimmed DEF Basic
<1> QED
  BY <1>1, <1>2, AlwaysBasic, AlwaysKeyed, PTL DEF Spec

-----------------------------------------------------------------------------
(* What was received.                                                      *)

\* The server's highlights stay what a change received takes them for.
Stands ==
  \A i \in DOMAIN server :
    /\ i \in DOMAIN server' /\ server'[i].p = server[i].p /\ server'[i].key = server[i].key
    /\ server[i].state = "webDeleted" => server'[i].state = "webDeleted"
    /\ There(i) => There(i)'
    /\ There(i) /\ Alone(i) => Alone(i)'

\* So they do while the server leaves them alone, and when the web page changes them.
LEMMA ServerStands ==
  ASSUME FilesInv, SameHighlights(server') \/ Web
  PROVE  Stands
<1>1. Typed
  BY DEF FilesInv
<1>2. CASE SameHighlights(server')
  BY <1>2 DEF SameHighlights, Stands, There, Alone
<1>3. ASSUME NEW p \in Passages, NEW date \in WebDates, WebAdd(p, date) PROVE Stands
  <2>1. PICK x : x.p = p /\ Grows(server', server, x)
    BY <1>1, <1>3, WebAddDoes
  <2>2. \A i \in DOMAIN server : server[i].p # p \/ server[i].state \in {"gone", "deviceDeleted"}
    BY <1>1, <1>3, WebAddDoes
  <2>3. /\ \A i \in DOMAIN server : i \in DOMAIN server' /\ server'[i] = server[i]
        /\ \A i \in DOMAIN server' : i \in DOMAIN server \/ server'[i] = x
    BY <2>1, Zenon DEF Grows
  <2>4. ASSUME NEW i \in DOMAIN server, There(i), Alone(i) PROVE Alone(i)'
    BY <2>1, <2>2, <2>3, <2>4 DEF There, Alone
  <2>5. \A i \in DOMAIN server : There(i) => There(i)'
    BY <2>3 DEF There
  <2> QED BY <2>3, <2>4, <2>5 DEF Stands
<1>4. ASSUME NEW i \in DOMAIN server, WebDelete(i) PROVE Stands
  <2>1. /\ server[i].state = "live" /\ DOMAIN server' = DOMAIN server
        /\ \A j \in DOMAIN server :
              /\ server'[j].p = server[j].p /\ server'[j].key = server[j].key
              /\ IF j = i THEN server'[j].state = "webDeleted" ELSE server'[j].state = server[j].state
    BY <1>1, <1>4, WebDeleteDoes
  <2>2. \A j \in DOMAIN server : There(j) => There(j)'
    BY <2>1 DEF There
  <2>3. ASSUME NEW j \in DOMAIN server, Alone(j) PROVE Alone(j)'
    BY <2>1, <2>3 DEF Alone
  <2> QED BY <2>1, <2>2, <2>3 DEF Stands
<1> QED
  BY <1>2, <1>3, <1>4 DEF Web

\* Changes each accounted for.
LEMMA AllTaken ==
  ASSUME ItemsApart(s'.incoming),
         \A n \in DOMAIN s'.incoming :
           \E c : /\ c = s'.incoming[n]
                  /\ c.deleted => Deleted(c)'
                  /\ ~c.deleted => Wanted(c)'
  PROVE  Taken'
<1>1. ASSUME NEW n \in DOMAIN s'.incoming
      PROVE  (IF s.incoming[n].deleted THEN Deleted(s.incoming[n]) ELSE Wanted(s.incoming[n]))'
  <2>1. PICK c : /\ c = s'.incoming[n]
                 /\ c.deleted => Deleted(c)'
                 /\ ~c.deleted => Wanted(c)'
    OBVIOUS
  <2>2. CASE c.deleted
    BY <2>1, <2>2 DEF Deleted
  <2>3. CASE ~c.deleted
    BY <2>1, <2>3 DEF Wanted, Ours, Recorded, There, Alone
  <2> QED BY <2>2, <2>3
<1> QED
  BY <1>1 DEF Taken, ItemsApart

\* A change taken stays so.
LEMMA StaysTaken ==
  ASSUME Stands, NEW c, c.item \in DOMAIN server,
         pc' \in {"pull", "advance"} => s'.list = s.list /\ (~c.deleted => Ours(c) \/ Recorded(c)),
         c.deleted => Deleted(c), ~c.deleted => There(c.item)
  PROVE  (c.deleted => Deleted(c)') /\ (~c.deleted => Wanted(c)')
<1> DEFINE i == c.item
<1>1. /\ server'[i].key = server[i].key /\ server[i].state = "webDeleted" => server'[i].state = "webDeleted"
      /\ There(i) => There(i)'
      /\ There(i) /\ Alone(i) => Alone(i)'
  BY DEF Stands
<1>2. server'[i].key = server[i].key
  BY DEF Stands
<1>3. c.deleted => Deleted(c)'
  BY <1>1, <1>2 DEF Deleted, Stands
<1>4. ASSUME ~c.deleted PROVE Wanted(c)'
  <2>1. There(i) /\ There(i)'
    BY <1>1, <1>4
  <2>2. Ours(c) => Ours(c)'
    BY <1>1, <1>2, <2>1 DEF Ours
  <2>3. ASSUME s'.list = s.list PROVE Recorded(c) => Recorded(c)'
    BY <1>2, <2>3 DEF Recorded
  <2> HIDE DEF i
  <2> QED BY <1>4, <2>1, <2>2, <2>3 DEF Wanted, i
<1> QED
  BY <1>3, <1>4

LEMMA StillTaken ==
  ASSUME FilesInv, Taken, Stands, s'.incoming = s.incoming,
         pc' \in {"pull", "advance"} => pc \in {"pull", "advance"} /\ s'.list = s.list
  PROVE  Taken'
<1>1. ASSUME NEW n \in DOMAIN s'.incoming
      PROVE  \E c : /\ c = s'.incoming[n]
                    /\ c.deleted => Deleted(c)'
                    /\ ~c.deleted => Wanted(c)'
  <2>1. PICK c : c = s.incoming[n]
    OBVIOUS
  <2>2. c.item \in DOMAIN server
    BY <2>1 DEF FilesInv, Loaded, Placed
  <2>3. c.deleted => Deleted(c)
    BY <2>1 DEF Taken
  <2>4. ~c.deleted => Wanted(c)
    BY <2>1 DEF Taken
  <2>5. (c.deleted => Deleted(c)') /\ (~c.deleted => Wanted(c)')
    BY <2>2, <2>3, <2>4, StaysTaken DEF Wanted
  <2> QED BY <2>1, <2>5
<1> QED
  BY <1>1, AllTaken DEF Taken

\* A sync that has taken nothing.
LEMMA NothingTaken ==
  ASSUME DOMAIN s'.incoming = {}
  PROVE  Taken'
BY DEF Taken, ItemsApart

\* The first changes are taken as the server holds them once it has answered.
LEMMA ExchangeTaken ==
  ASSUME FilesInv, ServerInv, Exchange
  PROVE  Taken'
<1>1. /\ Typed
      /\ \/ pc' = "idle" /\ s' = NoSync
         \/ /\ pc' = "pull" /\ s'.list = s.list
            /\ s'.incoming = Collected(<<>>, Offers) /\ server' = Answer
  BY ExchangeDoes DEF FilesInv
<1>2. CASE s' = NoSync
  BY <1>2, NoSyncIs, NothingTaken
<1>3. CASE pc' = "pull" /\ s'.list = s.list /\ s'.incoming = Collected(<<>>, Offers) /\ server' = Answer
  <2>1. (\A n \in DOMAIN s'.incoming : IsOffer(s'.incoming[n])) /\ ItemsApart(s'.incoming)
    BY <1>1, <1>3, FirstTaken
  <2>2. ASSUME NEW c, IsOffer(c), c.deleted PROVE Deleted(c)'
    <3>1. /\ c.item \in DOMAIN server /\ c.key = server[c.item].key
          /\ server[c.item].state = "webDeleted" /\ ~Waiting(c.item)
      BY <2>2 DEF IsOffer, Waiting
    <3>2. c.item \in DOMAIN server' /\ server'[c.item].state = "webDeleted"
      BY <1>1, <1>3, <3>1, AnswerStates DEF Kin
    <3>3. server'[c.item].key = server[c.item].key
      BY <1>1, <1>3, <3>1, <3>2, AnswerKeys
    <3> QED BY <3>1, <3>2, <3>3 DEF Deleted
  <2>3. ASSUME NEW c, IsOffer(c), ~c.deleted PROVE Wanted(c)'
    <3>1. /\ c.item \in DOMAIN server /\ c.key = server[c.item].key
          /\ Waiting(c.item) /\ Alone(c.item)
      BY <2>3 DEF IsOffer, ServerInv
    <3>2. There(c.item)' /\ c.item \in DOMAIN server'
      BY <1>1, <1>3, <3>1, AnswerStates DEF Waiting, There, Kin
    <3>3. CASE Linked(Outgoing, c.item) = {}
      <4>1. Alone(c.item)'
        BY <1>1, <1>3, <3>1, <3>3, AnswerAlone
      <4>2. server'[c.item].key = server[c.item].key
        BY <1>1, <1>3, <3>1, <3>2, <3>3, AnswerKeys
      <4> QED BY <3>1, <3>2, <4>1, <4>2 DEF Wanted, Ours
    <3>4. CASE Linked(Outgoing, c.item) # {}
      <4>1. PICK n \in DOMAIN Outgoing : server'[c.item].key = KeyOf(Outgoing[n])
        BY <1>1, <1>3, <3>1, <3>2, <3>4, AnswerKeys
      <4>2. PICK m \in DOMAIN s.list : Outgoing[n] = s.list[m]
        BY <1>1, OutgoingAre
      <4>3. Recorded(c)'
        BY <1>3, <4>1, <4>2 DEF Recorded
      <4> QED BY <3>2, <4>3 DEF Wanted
    <3> QED BY <3>3, <3>4
  <2> QED BY <2>1, <2>2, <2>3, AllTaken
<1> QED
  BY <1>1, <1>2, <1>3

\* A further request brings changes to other highlights, as the server holds them.
LEMMA PullTaken ==
  ASSUME FilesInv, ServerInv, Taken, Pull
  PROVE  Taken'
<1>1. /\ Typed /\ pc = "pull" /\ SameHighlights(server')
      /\ \/ /\ pc' = "pull" /\ s'.list = s.list /\ s'.incoming = Collected(s.incoming, Offers)
         \/ pc' = "advance" /\ s' = s
  BY PullDoes DEF FilesInv
<1>2. Stands
  BY <1>1, ServerStands
<1>3. CASE pc' = "advance" /\ s' = s
  BY <1>1, <1>2, <1>3, StillTaken
<1>4. CASE pc' = "pull" /\ s'.list = s.list /\ s'.incoming = Collected(s.incoming, Offers)
  <2> DEFINE next == s'.incoming
  <2>1. Takes(next, s.incoming, Offers)
    BY <1>1, <1>4, MoreTaken
  <2>2. (\A n \in DOMAIN Offers : IsOffer(Offers[n])) /\ ItemsApart(Offers)
    BY <1>1, OffersAre
  <2> DEFINE old(c) == \E m \in DOMAIN s.incoming : c = s.incoming[m]
  <2> HIDE DEF next
  <2>3. \A n \in DOMAIN next : old(next[n]) \/ \E k \in DOMAIN Offers : next[n] = Offers[k]
    BY <2>1, Zenon DEF Takes
  <2>4. ItemsApart(next)
    <3>1. ItemsApart(s.incoming)
      BY DEF Taken
    <3> QED BY <2>1, <2>2, <3>1, Zenon DEF Takes
  <2>5. ASSUME NEW c, old(c)
        PROVE  /\ c.item \in DOMAIN server /\ (c.deleted => Deleted(c))
               /\ ~c.deleted => There(c.item) /\ (Ours(c) \/ Recorded(c))
    <3>1. PICK m \in DOMAIN s.incoming : c = s.incoming[m]
      BY <2>5
    <3>2. c.item \in DOMAIN server
      BY <3>1 DEF FilesInv, Loaded, Placed
    <3>3. c.deleted => Deleted(c)
      BY <3>1 DEF Taken
    <3>4. ~c.deleted => Wanted(c)
      BY <3>1 DEF Taken
    <3> QED BY <1>1, <3>2, <3>3, <3>4 DEF Wanted
  <2>6. ASSUME NEW c, IsOffer(c)
        PROVE  /\ c.item \in DOMAIN server /\ (c.deleted => Deleted(c))
               /\ ~c.deleted => There(c.item) /\ (Ours(c) \/ Recorded(c))
    BY <2>6 DEF IsOffer, Deleted, Waiting, There, Ours, ServerInv
  <2> HIDE DEF old
  <2>7. ASSUME NEW n \in DOMAIN next
        PROVE  \E c : /\ c = next[n]
                      /\ c.deleted => Deleted(c)'
                      /\ ~c.deleted => Wanted(c)'
    <3>1. PICK c : c = next[n] /\ (old(c) \/ IsOffer(c))
      BY <2>2, <2>3
    <3>2. /\ c.item \in DOMAIN server /\ (c.deleted => Deleted(c))
          /\ ~c.deleted => There(c.item) /\ (Ours(c) \/ Recorded(c))
      BY <2>5, <2>6, <3>1
    <3>3. (c.deleted => Deleted(c)') /\ (~c.deleted => Wanted(c)')
      BY <1>2, <1>4, <3>2, StaysTaken
    <3> QED BY <3>1, <3>3
  <2> QED BY <2>4, <2>7, AllTaken DEF next
<1> QED
  BY <1>1, <1>3, <1>4

\* Every step, and none.
LEMMA NextTaken ==
  ASSUME FilesInv, ServerInv, Taken, [Next]_vars, Trimmed'
  PROVE  Taken'
<1>1. Typed /\ SameHighlights(server)
  BY SameAsIs DEF FilesInv
<1>2. s' = NoSync => Taken'
  BY NoSyncIs, NothingTaken
<1>3. CASE SameHighlights(server') /\ s' = s /\ (pc' = pc \/ pc' \notin {"pull", "advance"})
  BY <1>3, ServerStands, StillTaken
<1>4. CASE UNCHANGED vars
  BY <1>1, <1>3, <1>4 DEF vars
<1>5. CASE Begin
  BY <1>1, <1>5, BeginDoes, NothingTaken
<1>6. CASE Mint \/ Retain
  <2>1. s' = NoSync \/ (s'.incoming = s.incoming /\ DOMAIN s.incoming = {})
    BY <1>6, MintDoes, RetainDoes DEF FilesInv, Loaded, Cuts
  <2> QED BY <1>2, <2>1, NothingTaken
<1>7. CASE Advance
  <2>1. server' = server /\ (s' = NoSync \/ (pc' = "apply" /\ s'.incoming = s.incoming))
    BY <1>1, <1>7, AdvanceDoes DEF Cuts
  <2> QED BY <1>1, <1>2, <2>1, ServerStands, StillTaken
<1>8. CASE Apply
  <2>1. server' = server /\ (s' = NoSync \/ (pc' = "apply" /\ s'.incoming = s.incoming))
    BY <1>1, <1>8, ApplyDeleteDoes, ApplyPresentDoes, ApplyAddDoes, ApplyLaterDoes DEF Apply, Cuts
  <2> QED BY <1>1, <1>2, <2>1, ServerStands, StillTaken
<1>9. CASE Save
  <2>1. server' = server /\ (s' = NoSync \/ (pc' = "cover" /\ s' = s))
    BY <1>1, <1>9, SaveDoes
  <2> QED BY <1>1, <1>2, <1>3, <2>1
<1>10. CASE Cover
  <2>1. server' = server /\ (s' = NoSync \/ (pc' = "ack" /\ s' = s))
    BY <1>1, <1>10, CoverDoes DEF Cuts
  <2> QED BY <1>1, <1>2, <1>3, <2>1
<1>11. CASE Ack \/ PowerCut
  BY <1>1, <1>2, <1>11, AckDoes, PowerCutDoes
<1>12. CASE Reader
  <2>1. server' = server /\ s' = s /\ pc' = pc
    BY <1>1, <1>12, MarkPassageDoes, RemoveMarkDoes DEF Reader
  <2> QED BY <1>1, <1>3, <2>1
<1>13. CASE Web
  <2>1. s' = s /\ pc' = pc
    BY <1>1, <1>13, WebAddDoes, WebDeleteDoes DEF Web
  <2> QED BY <1>13, <2>1, ServerStands, StillTaken
<1> QED
  BY <1>4, <1>5, <1>6, <1>7, <1>8, <1>9, <1>10, <1>11, <1>12, <1>13, ExchangeTaken, PullTaken DEF Next, SyncStep

-----------------------------------------------------------------------------
(* What is applied.                                                        *)

\* A deletion due names a record.
LEMMA DueIs ==
  ASSUME Typed, NEW n \in Due
  PROVE  /\ n \in DOMAIN s.incoming /\ n >= s.next /\ n \in Nat /\ s.incoming[n].deleted
         /\ Min(Dooms(n)) \in DOMAIN s.list /\ Doomed(n) = s.list[Min(Dooms(n))]
         /\ Doomed(n) \in Record /\ KeyOf(Doomed(n)) = s.incoming[n].key
<1>1. n \in DOMAIN s.incoming /\ n >= s.next /\ n \in Nat /\ s.incoming[n].deleted /\ Dooms(n) # {}
  BY SyncFields DEF Due
<1>2. s.list \in Seq(Record) /\ Dooms(n) \in SUBSET (DOMAIN s.list)
  BY SyncFields DEF Dooms
<1>3. Min(Dooms(n)) \in Dooms(n)
  BY <1>1, <1>2, FirstOf
<1> DEFINE m == Min(Dooms(n))
<1>4. m \in DOMAIN s.list /\ KeyOf(s.list[m]) = s.incoming[n].key /\ Doomed(n) = s.list[m]
  BY <1>3 DEF Dooms, Doomed
<1> HIDE DEF m
<1>5. s.list[m] \in Record
  BY <1>2, <1>4, ElementOfSeq
<1> QED
  BY <1>1, <1>4, <1>5 DEF m

\* Deletions of one highlight are one.
LEMMA DueTaken ==
  ASSUME FilesInv, Keyed, Taken, NEW n \in Due
  PROVE  /\ s.incoming[n].item \in DOMAIN server /\ server[s.incoming[n].item].state = "webDeleted"
         /\ server[s.incoming[n].item].key = KeyOf(Doomed(n))
         /\ server[s.incoming[n].item].p = Doomed(n).p
<1>1. /\ n \in DOMAIN s.incoming /\ s.incoming[n].deleted
      /\ Doomed(n) \in Record /\ KeyOf(Doomed(n)) = s.incoming[n].key
  BY DueIs DEF FilesInv
<1>2. s.incoming[n].item \in DOMAIN server
  BY <1>1 DEF FilesInv, Loaded, Placed
<1>3. Deleted(s.incoming[n])
  BY <1>1 DEF Taken
<1>4. KeyOf(Doomed(n))[2] = Doomed(n).p
  BY <1>1, KeyFacts
<1> QED
  BY <1>1, <1>2, <1>3, <1>4 DEF Deleted, Keyed

\* Before any change is applied, every record's highlight is here, and of a deletion
\* and an addition each names another.
LEMMA AdvanceApplied ==
  ASSUME FilesInv, Keyed, ServerInv, Taken, Advance, Trimmed'
  PROVE  Applied'
<1>1. /\ Typed /\ pc \in {"pull", "advance"} /\ server' = server
      /\ \/ pc' = "idle" /\ s' = NoSync
         \/ /\ pc' = "apply" /\ SameWork /\ s'.list = s.list
            /\ s'.incoming = s.incoming /\ s'.next = 1
  BY AdvanceDoes DEF FilesInv, Cuts
<1>2. CASE pc' = "idle"
  BY <1>2 DEF Applied
<1>3. CASE /\ pc' = "apply" /\ SameWork /\ s'.list = s.list
           /\ s'.incoming = s.incoming /\ s'.next = 1
  <2> DEFINE dels == {n \in DOMAIN s.incoming : s.incoming[n].deleted /\ Dooms(n) # {}}
  <2>1. /\ s.list \in Seq(Record) /\ Refs(s.list) \subseteq Refs(s.marks) /\ OneEach(s.marks)
        /\ RefsApart(s.list) /\ s.applied = {} /\ s'.applied = {} /\ s'.marks = s.marks
    BY <1>1, <1>3, SyncFields DEF FilesInv, Sound, Loaded, Early, SameWork
  <2>2. ASSUME NEW m \in DOMAIN s.list
        PROVE  \E i \in DOMAIN s.marks : s.marks[i].ts = s.list[m].ts /\ s.marks[i].p = s.list[m].p
    <3>1. RefOf(s.list[m]) \in Refs(s.marks)
      BY <2>1 DEF Refs
    <3>2. PICK i \in DOMAIN s.marks : RefOf(s.marks[i]) = RefOf(s.list[m])
      BY <3>1 DEF Refs
    <3> QED BY <3>2, RefFacts
  <2>3. ASSUME NEW m \in DOMAIN s.list, NEW n \in DOMAIN s.list, s.list[m].ts = s.list[n].ts
        PROVE  m = n
    <3>1. PICK i \in DOMAIN s.marks : s.marks[i].ts = s.list[m].ts /\ s.marks[i].p = s.list[m].p
      BY <2>2
    <3>2. PICK j \in DOMAIN s.marks : s.marks[j].ts = s.list[n].ts /\ s.marks[j].p = s.list[n].p
      BY <2>2
    <3>3. i = j
      BY <2>1, <2>3, <3>1, <3>2 DEF OneEach
    <3>4. RefOf(s.list[m]) = RefOf(s.list[n])
      BY <2>3, <3>1, <3>2, <3>3 DEF RefOf
    <3> QED BY <2>1, <3>4 DEF RefsApart
  <2>4. Due' = dels /\ \A n : Doomed(n)' = Doomed(n)
    BY <1>1, <1>3, SyncFields, SMTT(30) DEF Due, Dooms, Doomed
  <2>5. ASSUME NEW n \in dels
        PROVE  /\ n \in DOMAIN s.incoming /\ s.incoming[n].item \in DOMAIN server
               /\ server[s.incoming[n].item].state = "webDeleted"
               /\ \E m \in DOMAIN s.list : /\ Doomed(n) = s.list[m]
                                           /\ KeyOf(s.list[m]) = server[s.incoming[n].item].key
    <3>1. Dooms(n) \in SUBSET (DOMAIN s.list) /\ Dooms(n) # {}
      BY DEF Dooms
    <3>2. Min(Dooms(n)) \in Dooms(n)
      BY <2>1, <3>1, FirstOf
    <3> DEFINE m == Min(Dooms(n))
    <3>3. m \in DOMAIN s.list /\ KeyOf(s.list[m]) = s.incoming[n].key /\ Doomed(n) = s.list[m]
      BY <3>2 DEF Dooms, Doomed
    <3> HIDE DEF m
    <3>4. s.incoming[n].item \in DOMAIN server
      BY DEF FilesInv, Loaded, Placed
    <3>5. Deleted(s.incoming[n])
      BY DEF Taken
    <3> QED BY <3>3, <3>4, <3>5 DEF Deleted
  <2> HIDE DEF dels
  <2>6. ASSUME NEW n \in dels PROVE RefOf(Doomed(n)) \in Refs(s.marks)
    BY <2>1, <2>5 DEF Refs
  <2>7. ASSUME NEW m \in dels, NEW n \in dels, Doomed(m).ts = Doomed(n).ts PROVE m = n
    <3>1. PICK a \in DOMAIN s.list : Doomed(m) = s.list[a] /\ KeyOf(s.list[a]) = server[s.incoming[m].item].key
      BY <2>5
    <3>2. PICK b \in DOMAIN s.list : Doomed(n) = s.list[b] /\ KeyOf(s.list[b]) = server[s.incoming[n].item].key
      BY <2>5
    <3>3. a = b
      BY <2>3, <2>7, <3>1, <3>2
    <3>4. s.incoming[m].item = s.incoming[n].item
      BY <2>5, <3>1, <3>2, <3>3 DEF ServerInv, There
    <3> QED BY <2>5, <3>4 DEF Taken, ItemsApart
  <2>8. ASSUME NEW n \in DOMAIN s.incoming, ~s.incoming[n].deleted
        PROVE  Ours(s.incoming[n])' \/ Safe(s.incoming[n].p)'
    <3>0. PICK c : c = s.incoming[n] /\ c = s'.incoming[n]
      BY <1>3
    <3>1. c.item \in DOMAIN server /\ server[c.item].p = c.p
      BY <3>0 DEF FilesInv, Loaded, Placed
    <3>2. Wanted(c)
      BY <2>8, <3>0 DEF Taken
    <3>4. \A k \in dels : s.incoming[k].item # c.item
      BY <2>5, <2>8, <3>0 DEF Taken, ItemsApart, dels
    <3>5. CASE Ours(c)
      <4>1. Ours(c)'
        BY <1>1, <3>5 DEF Ours, Alone
      <4> QED BY <3>0, <4>1 DEF Ours, Alone
    <3>6. CASE Recorded(c)
      <4>1. PICK m \in DOMAIN s.list : KeyOf(s.list[m]) = server[c.item].key
        BY <3>6 DEF Recorded
      <4>2. s.list[m].p = c.p
        <5>1. s.list[m] \in Record
          BY <2>1, ElementOfSeq
        <5>2. KeyOf(s.list[m])[2] = s.list[m].p
          BY <5>1, KeyFacts
        <5> QED BY <3>1, <4>1, <5>2 DEF Keyed
      <4>3. PICK i \in DOMAIN s.marks : s.marks[i].ts = s.list[m].ts /\ s.marks[i].p = s.list[m].p
        BY <2>2
      <4>4. ASSUME NEW k \in dels, Doomed(k).ts = s.marks[i].ts PROVE FALSE
        <5>1. PICK b \in DOMAIN s.list : Doomed(k) = s.list[b] /\ KeyOf(s.list[b]) = server[s.incoming[k].item].key
          BY <2>5
        <5>2. b = m
          BY <2>3, <4>3, <4>4, <5>1
        <5>3. There(c.item) /\ There(s.incoming[k].item)
          BY <2>5, <3>2 DEF Wanted, There
        <5>4. s.incoming[k].item = c.item
          BY <2>5, <3>1, <4>1, <5>1, <5>2, <5>3 DEF ServerInv
        <5> QED BY <3>4, <5>4
      <4>5. Safe(c.p)'
        <5>1. i \in DOMAIN s'.marks /\ s'.marks[i].p = c.p /\ \A k \in Due' : (Doomed(k).ts # s.marks[i].ts)'
          BY <2>1, <2>4, <4>2, <4>3, <4>4
        <5> QED BY <5>1 DEF Safe
      <4> QED BY <3>0, <4>5 DEF Safe
    <3> QED BY <1>1, <3>2, <3>5, <3>6 DEF Wanted
  <2> QED BY <1>3, <2>1, <2>4, <2>6, <2>7, <2>8 DEF Applied
<1> QED
  BY <1>1, <1>2, <1>3

\* A change applied that adds no record, and takes away what its deletion names.
LEMMA AppliesOn ==
  ASSUME FilesInv, Applied, pc = "apply", pc' = "apply", server' = server, s.next \in DOMAIN s.incoming,
         s'.incoming = s.incoming, s'.list = s.list, s'.next = s.next + 1,
         \A i \in DOMAIN s.marks :
           \/ s.next \in Due /\ s.marks[i].ts = Doomed(s.next).ts
           \/ \E k \in DOMAIN s'.marks : s'.marks[k] = s.marks[i],
         \A i \in s'.applied : i \in s.applied \/ Safe(server[i].p)
  PROVE  Applied'
<1>1. s.next \in Nat /\ DOMAIN s.incoming \subseteq Nat
  BY SyncFields DEF FilesInv
<1>2. \A n \in Due' : n \in Due /\ n # s.next /\ n \in DOMAIN s.incoming
  BY <1>1 DEF Due, Dooms
<1>3. \A n : Doomed(n)' = Doomed(n)
  BY DEF Doomed, Dooms
<1>4. ASSUME NEW p, Safe(p) PROVE Safe(p)'
  <2>1. PICK i \in DOMAIN s.marks : s.marks[i].p = p /\ \A n \in Due : Doomed(n).ts # s.marks[i].ts
    BY <1>4 DEF Safe
  <2>2. PICK k \in DOMAIN s'.marks : s'.marks[k] = s.marks[i]
    BY <2>1
  <2>3. s'.marks[k].p = p /\ \A n \in Due' : (Doomed(n))'.ts # s'.marks[k].ts
    BY <1>2, <1>3, <2>1, <2>2
  <2> QED BY <2>2, <2>3 DEF Safe
<1>5. ASSUME NEW n \in Due' PROVE RefOf(Doomed(n)') \in Refs(s'.marks)
  <2>1. n \in Due /\ n # s.next /\ RefOf(Doomed(n)) \in Refs(s.marks)
    BY <1>2 DEF Applied
  <2>2. PICK i \in DOMAIN s.marks : RefOf(s.marks[i]) = RefOf(Doomed(n))
    BY <2>1 DEF Refs
  <2>3. s.marks[i].ts = Doomed(n).ts
    BY <2>2, RefFacts
  <2>4. ~(s.next \in Due /\ s.marks[i].ts = Doomed(s.next).ts)
    BY <2>1, <2>3 DEF Applied
  <2>5. PICK k \in DOMAIN s'.marks : s'.marks[k] = s.marks[i]
    BY <2>4
  <2> QED BY <1>3, <2>2, <2>5 DEF Refs
<1>6. ASSUME NEW m \in Due', NEW n \in Due', Doomed(m)'.ts = Doomed(n)'.ts PROVE m = n
  BY <1>2, <1>3, <1>6 DEF Applied
<1>7. ASSUME NEW i \in s'.applied PROVE (Safe(server[i].p))'
  <2>1. PICK p : p = server[i].p
    OBVIOUS
  <2>2. Safe(p)
    BY <2>1 DEF Applied
  <2>3. Safe(p)' /\ p = server'[i].p
    BY <1>4, <2>1, <2>2
  <2> QED BY <2>3 DEF Safe
<1>8. ASSUME NEW n \in DOMAIN s'.incoming, n >= s'.next, ~s'.incoming[n].deleted
      PROVE  Ours(s.incoming[n])' \/ Safe(s.incoming[n].p)'
  <2>1. PICK c : c = s.incoming[n] /\ c = s'.incoming[n]
    OBVIOUS
  <2>2. n >= s.next
    BY <1>1, <1>8
  <2>3. Ours(c) \/ Safe(c.p)
    BY <1>8, <2>1, <2>2 DEF Applied
  <2>4. Ours(c) => Ours(c)'
    BY DEF Ours, Alone
  <2>5. Safe(c.p) => Safe(c.p)'
    BY <1>4
  <2>6. Ours(c)' \/ Safe(c.p)'
    BY <2>3, <2>4, <2>5
  <2> QED BY <2>1, <2>6 DEF Ours, Alone, Safe
<1> QED
  BY <1>5, <1>6, <1>7, <1>8 DEF Applied

\* Only what the deletion names is taken away.
LEMMA ApplyDeleteApplied ==
  ASSUME FilesInv, Applied, ApplyDelete
  PROVE  Applied'
<1>1. /\ Typed /\ pc = "apply" /\ pc' = "apply" /\ UNCHANGED <<marks, recs, now, server, removed>>
      /\ TheChange.deleted /\ s.next \in DOMAIN s.incoming
      /\ Shorter(s'.marks, s.marks, Stays)
      /\ s'.list = s.list /\ s'.incoming = s.incoming
      /\ s'.applied = s.applied /\ s'.next = s.next + 1
  BY ApplyDeleteDoes DEF FilesInv
<1>2. ASSUME NEW i \in DOMAIN s.marks
      PROVE  \/ s.next \in Due /\ s.marks[i].ts = Doomed(s.next).ts
             \/ \E k \in DOMAIN s'.marks : s'.marks[k] = s.marks[i]
  <2>1. CASE i \in Stays
    BY <1>1, <2>1, Zenon DEF Shorter
  <2>2. CASE i \notin Stays
    <3>1. s.marks[i].ts \in Gone
      BY <2>2 DEF Stays
    <3>2. Gone = IF Dooms(s.next) = {} THEN {} ELSE {Doomed(s.next).ts}
      BY DEF Gone, Dooms, Doomed, TheChange
    <3>3. Dooms(s.next) # {} /\ s.marks[i].ts = Doomed(s.next).ts
      BY <3>1, <3>2
    <3>4. s.next \in Due
      BY <1>1, <3>3, SyncFields, SMTT(30) DEF Due, TheChange
    <3> QED BY <3>3, <3>4
  <2> QED BY <2>1, <2>2
<1> QED
  BY <1>1, <1>2, AppliesOn

\* What is present, and has no other highlight, no deletion takes away.
LEMMA ApplyPresentApplied ==
  ASSUME FilesInv, Keyed, Taken, Applied, ApplyPresent
  PROVE  Applied'
<1>1. /\ Typed /\ pc = "apply" /\ pc' = "apply" /\ UNCHANGED <<marks, recs, now, server, removed>>
      /\ ~TheChange.deleted /\ Present(TheChange.p) /\ s.next \in DOMAIN s.incoming
      /\ s'.marks = s.marks /\ s'.list = s.list /\ s'.incoming = s.incoming
      /\ s'.applied = s.applied \cup {TheChange.item} /\ s'.next = s.next + 1
  BY ApplyPresentDoes DEF FilesInv
<1>2. PICK c : c = s.incoming[s.next] /\ c = TheChange
  BY DEF TheChange
<1>3. c.item \in DOMAIN server /\ server[c.item].p = c.p /\ ~c.deleted
  BY <1>1, <1>2 DEF FilesInv, Loaded, Placed
<1>4. Ours(c) \/ Safe(c.p)
  <2>1. s.next >= s.next
    BY <1>1, SyncFields
  <2>2. Ours(s.incoming[s.next]) \/ Safe(s.incoming[s.next].p)
    BY <1>1, <1>2, <1>3, <2>1, Zenon DEF Applied
  <2> QED BY <1>2, <2>2
<1>5. Safe(c.p)
  <2> SUFFICES ASSUME Ours(c) PROVE Safe(c.p)
    BY <1>4
  <2>1. PICK i \in DOMAIN s.marks : s.marks[i].p = c.p
    BY <1>1, <1>2 DEF Present, Marked
  <2>2. ASSUME NEW n \in Due, Doomed(n).ts = s.marks[i].ts PROVE FALSE
    <3>1. PICK k \in DOMAIN s.marks : RefOf(s.marks[k]) = RefOf(Doomed(n))
      BY <1>1 DEF Applied, Refs
    <3>2. s.marks[k].ts = Doomed(n).ts /\ s.marks[k].p = Doomed(n).p
      BY <3>1, RefFacts
    <3>3. k = i
      BY <2>2, <3>2 DEF FilesInv, Sound, OneEach
    <3>4. /\ s.incoming[n].item \in DOMAIN server /\ server[s.incoming[n].item].state = "webDeleted"
          /\ server[s.incoming[n].item].p = c.p
      BY <2>1, <3>2, <3>3, DueTaken
    <3>5. s.incoming[n].item = c.item
      BY <1>3, <3>4 DEF Ours, Alone
    <3>6. n \in DOMAIN s.incoming /\ s.incoming[n].deleted
      BY <1>1, DueIs
    <3> QED BY <1>1, <1>2, <1>3, <3>5, <3>6 DEF Taken, ItemsApart
  <2> QED BY <2>1, <2>2 DEF Safe
<1>6. \A i \in s'.applied : i \in s.applied \/ Safe(server[i].p)
  BY <1>1, <1>2, <1>3, <1>5
<1>7. \A i \in DOMAIN s.marks : \E k \in DOMAIN s'.marks : s'.marks[k] = s.marks[i]
  BY <1>1
<1> QED
  BY <1>1, <1>6, <1>7, AppliesOn

LEMMA ApplyLaterApplied ==
  ASSUME FilesInv, Applied, ApplyLater
  PROVE  Applied'
<1>1. /\ pc = "apply" /\ pc' = "apply" /\ UNCHANGED <<marks, recs, now, server, removed>>
      /\ ~TheChange.deleted /\ s.next \in DOMAIN s.incoming
      /\ SameWork /\ s'.list = s.list /\ s'.incoming = s.incoming /\ s'.next = s.next + 1
  BY ApplyLaterDoes DEF FilesInv
<1>2. \A i \in DOMAIN s.marks : \E k \in DOMAIN s'.marks : s'.marks[k] = s.marks[i]
  BY <1>1 DEF SameWork
<1>3. s'.applied = s.applied
  BY <1>1 DEF SameWork
<1> QED
  BY <1>1, <1>2, <1>3, AppliesOn

\* An addition's highlight is here, its record is no deletion's.
LEMMA ApplyAddApplied ==
  ASSUME FilesInv, Keyed, ServerInv, Taken, Applied, ApplyAdd, Trimmed'
  PROVE  Applied'
<1>1. /\ Typed /\ pc = "apply" /\ UNCHANGED <<marks, now, server, removed>>
      /\ ~TheChange.deleted /\ ~Present(TheChange.p) /\ s.next \in DOMAIN s.incoming
      /\ \E m, r :
           /\ Adds(m, r)
           /\ \/ /\ pc' = "apply"
                 /\ s'.marks = Append(s.marks, m) /\ s'.list = Append(s.list, r)
                 /\ s'.incoming = s.incoming
                 /\ s'.applied = s.applied \cup {TheChange.item} /\ s'.next = s.next + 1
              \/ pc' = "idle"
  BY ApplyAddDoes DEF FilesInv, Cuts
<1>2. CASE pc' = "idle"
  BY <1>2 DEF Applied
<1>3. CASE \E m, r :
             /\ Adds(m, r) /\ pc' = "apply"
             /\ s'.marks = Append(s.marks, m) /\ s'.list = Append(s.list, r)
             /\ s'.incoming = s.incoming
             /\ s'.applied = s.applied \cup {TheChange.item} /\ s'.next = s.next + 1
  <2>1. PICK c : c = s.incoming[s.next] /\ c = TheChange
    BY DEF TheChange
  <2>2. PICK m, r :
          /\ m \in Mark /\ m.p = c.p /\ r \in Record /\ r.id = c.key[1] /\ r.p = c.p
          /\ \A i \in DOMAIN s.marks : s.marks[i].ts # m.ts
          /\ pc' = "apply"
          /\ s'.marks = Append(s.marks, m) /\ s'.list = Append(s.list, r)
          /\ s'.incoming = s.incoming
          /\ s'.applied = s.applied \cup {c.item} /\ s'.next = s.next + 1
    <3>1. PICK m, r :
            /\ Adds(m, r) /\ pc' = "apply"
            /\ s'.marks = Append(s.marks, m) /\ s'.list = Append(s.list, r)
            /\ s'.incoming = s.incoming
            /\ s'.applied = s.applied \cup {TheChange.item} /\ s'.next = s.next + 1
      BY <1>3
    <3>2. /\ m \in Mark /\ m.p = c.p /\ r \in Record /\ r.id = c.key[1] /\ r.p = c.p
          /\ \A i \in DOMAIN s.marks : s.marks[i].ts # m.ts
      BY <2>1, <3>1, Zenon DEF Adds
    <3>3. s'.applied = s.applied \cup {c.item}
      BY <2>1, <3>1
    <3> QED BY <3>1, <3>2, <3>3, Zenon
  <2>3. /\ c.item \in DOMAIN server /\ server[c.item].p = c.p /\ ~c.deleted
        /\ c.key \in Nat \X Passages /\ s.next \in Nat /\ DOMAIN s.incoming \subseteq Nat
        /\ s.list \in Seq(Record) /\ s.marks \in Seq(Mark)
    BY <1>1, <2>1, ChangeIs, SyncFields DEF FilesInv, Loaded, Placed, ApplyAdd
  <2>4. There(c.item)
    BY <1>1, <2>1, <2>3 DEF Taken, Wanted
  <2>5. Ours(c)
    <3>1. Ours(c) \/ Safe(c.p)
      <4>1. s.next >= s.next
        BY <2>3
      <4>2. Ours(s.incoming[s.next]) \/ Safe(s.incoming[s.next].p)
        BY <1>1, <2>1, <2>3, <4>1, Zenon DEF Applied
      <4> QED BY <2>1, <4>2
    <3>2. Safe(c.p) => Present(c.p)
      BY DEF Safe, Present, Marked
    <3> QED BY <1>1, <2>1, <3>1, <3>2
  <2>6. KeyOf(r) = server[c.item].key
    BY <2>2, <2>3, <2>5 DEF Ours, Keyed, KeyOf
  <2>7. Grows(s'.marks, s.marks, m) /\ Grows(s'.list, s.list, r)
    BY <2>2, <2>3, AppendGrows
  <2>8. /\ \A i \in DOMAIN s.marks : i \in DOMAIN s'.marks /\ s'.marks[i] = s.marks[i]
        /\ \E i \in DOMAIN s'.marks : s'.marks[i] = m
        /\ \A n \in DOMAIN s.list : n \in DOMAIN s'.list /\ s'.list[n] = s.list[n]
        /\ \A n \in DOMAIN s'.list : n \in DOMAIN s.list \/ s'.list[n] = r
    BY <2>7, Zenon DEF Grows
  <2>9. ASSUME NEW n \in DOMAIN s.incoming, n # s.next, s.incoming[n].deleted
        PROVE  Dooms(n)' = Dooms(n)
    <3>1. Deleted(s.incoming[n]) /\ s.incoming[n].item \in DOMAIN server
      BY <2>9 DEF Taken, FilesInv, Loaded, Placed
    <3>2. s.incoming[n].item # c.item
      BY <1>1, <2>1, <2>9 DEF Taken, ItemsApart
    <3>3. KeyOf(r) # s.incoming[n].key
      BY <2>3, <2>4, <2>6, <3>1, <3>2 DEF Deleted, There, ServerInv
    <3> QED BY <2>2, <2>8, <3>3 DEF Dooms
  <2>10. \A n \in Due' : n \in Due /\ n # s.next /\ n \in DOMAIN s.incoming
    <3> SUFFICES ASSUME NEW n \in Due' PROVE n \in Due /\ n # s.next /\ n \in DOMAIN s.incoming
      OBVIOUS
    <3>1. n \in DOMAIN s.incoming /\ n >= s.next + 1 /\ s.incoming[n].deleted /\ Dooms(n)' # {}
      BY <2>2 DEF Due
    <3>2. n # s.next /\ n >= s.next
      BY <2>3, <3>1
    <3>3. Dooms(n)' = Dooms(n)
      BY <2>9, <3>1, <3>2
    <3> QED BY <3>1, <3>2, <3>3 DEF Due
  <2>11. \A n \in Due' : Doomed(n)' = Doomed(n)
    <3> SUFFICES ASSUME NEW n \in Due' PROVE Doomed(n)' = Doomed(n)
      OBVIOUS
    <3>1. n \in Due /\ n # s.next
      BY <2>10
    <3>2. n \in DOMAIN s.incoming /\ s.incoming[n].deleted /\ Min(Dooms(n)) \in DOMAIN s.list
      BY <1>1, <3>1, DueIs
    <3>3. Dooms(n)' = Dooms(n)
      BY <2>9, <3>1, <3>2
    <3> QED BY <2>8, <3>2, <3>3 DEF Doomed
  <2>12. ASSUME NEW p, Safe(p) PROVE Safe(p)'
    <3>1. PICK i \in DOMAIN s.marks : s.marks[i].p = p /\ \A n \in Due : Doomed(n).ts # s.marks[i].ts
      BY <2>12 DEF Safe
    <3>2. i \in DOMAIN s'.marks /\ s'.marks[i].p = p /\ \A n \in Due' : Doomed(n)'.ts # s'.marks[i].ts
      BY <2>8, <2>10, <2>11, <3>1
    <3> QED BY <3>2 DEF Safe
  <2>13. ASSUME NEW n \in Due' PROVE RefOf(Doomed(n)') \in Refs(s'.marks) /\ Doomed(n)'.ts # m.ts
    <3>1. RefOf(Doomed(n)) \in Refs(s.marks)
      BY <1>1, <2>10 DEF Applied
    <3>2. PICK i \in DOMAIN s.marks : RefOf(s.marks[i]) = RefOf(Doomed(n))
      BY <3>1 DEF Refs
    <3>3. s.marks[i].ts = Doomed(n).ts
      BY <3>2, RefFacts
    <3> QED BY <2>2, <2>8, <2>11, <3>2, <3>3 DEF Refs
  <2>14. Safe(c.p)'
    <3>1. PICK i \in DOMAIN s'.marks : s'.marks[i] = m
      BY <2>8
    <3>2. s'.marks[i].p = c.p /\ \A n \in Due' : Doomed(n)'.ts # s'.marks[i].ts
      BY <2>2, <2>13, <3>1
    <3> QED BY <3>2 DEF Safe
  <2>15. ASSUME NEW i \in s'.applied PROVE (Safe(server[i].p))'
    <3>1. PICK p : p = server[i].p
      OBVIOUS
    <3>2. CASE i \in s.applied
      <4>1. Safe(p)
        BY <1>1, <3>1, <3>2 DEF Applied
      <4>2. Safe(p)' /\ p = server'[i].p
        BY <1>1, <2>12, <3>1, <4>1
      <4> QED BY <4>2 DEF Safe
    <3>3. CASE i = c.item
      <4>1. c.p = server'[i].p
        BY <1>1, <2>3, <3>3
      <4> QED BY <2>14, <4>1 DEF Safe
    <3> QED BY <2>2, <3>2, <3>3
  <2>16. ASSUME NEW n \in DOMAIN s'.incoming, n >= s'.next, ~s'.incoming[n].deleted
         PROVE  Ours(s.incoming[n])' \/ Safe(s.incoming[n].p)'
    <3>1. PICK d : d = s.incoming[n] /\ d = s'.incoming[n]
      BY <2>2
    <3>2. n >= s.next
      BY <2>2, <2>3, <2>16
    <3>3. Ours(d) \/ Safe(d.p)
      BY <1>1, <2>2, <2>16, <3>1, <3>2 DEF Applied
    <3>4. Ours(d) => Ours(d)'
      BY <1>1 DEF Ours, Alone
    <3>5. Safe(d.p) => Safe(d.p)'
      BY <2>12
    <3>6. Ours(d)' \/ Safe(d.p)'
      BY <3>3, <3>4, <3>5
    <3> QED BY <3>1, <3>6 DEF Ours, Alone, Safe
  <2>17. ASSUME NEW a \in Due', NEW b \in Due', Doomed(a)'.ts = Doomed(b)'.ts PROVE a = b
    BY <1>1, <2>10, <2>11, <2>17 DEF Applied
  <2> QED BY <2>2, <2>13, <2>15, <2>16, <2>17 DEF Applied
<1> QED
  BY <1>1, <1>2, <1>3

\* While nothing is applied or acknowledged, nothing is owed.
LEMMA NotApplied ==
  ASSUME pc' \notin Late
  PROVE  Applied'
BY DEF Applied, Late

\* Once saved, what was applied is on the card.
LEMMA SaveApplied ==
  ASSUME FilesInv, Applied, Save
  PROVE  Applied'
<1>1. /\ pc = "apply" /\ UNCHANGED <<recs, now, server, removed>> /\ Due = {}
      /\ \/ marks'.list = s.marks /\ pc' = "cover" /\ s' = s
         \/ pc' = "idle"
  BY SaveDoes DEF FilesInv
<1>2. CASE pc' = "idle"
  BY <1>2, NotApplied DEF Late
<1>3. CASE marks'.list = s.marks /\ pc' = "cover" /\ s' = s
  <2>1. \A p : Safe(p) => p \in Marked(s.marks)
    BY DEF Safe, Marked
  <2>2. \A i \in s.applied : server[i].p \in Marked(s.marks)
    BY <1>1, <2>1 DEF Applied
  <2> QED BY <1>1, <1>3, <2>2 DEF Applied
<1> QED
  BY <1>1, <1>2, <1>3

\* The web page changes nothing that is applied or owed.
LEMMA WebApplied ==
  ASSUME FilesInv, Taken, Applied, Stands, pc' = pc, s' = s, marks' = marks
  PROVE  Applied'
<1>1. s.applied \subseteq DOMAIN server
  BY DEF FilesInv, Loaded
<1>2. \A i \in s.applied : server'[i].p = server[i].p
  BY <1>1 DEF Stands
<1>3. CASE pc = "apply"
  <2>1. Due' = Due /\ \A n : Doomed(n)' = Doomed(n)
    BY DEF Due, Dooms, Doomed
  <2>2. \A p : Safe(p) => Safe(p)'
    BY <2>1 DEF Safe
  <2>3. ASSUME NEW i \in s.applied PROVE (Safe(server[i].p))'
    <3>1. PICK p : p = server[i].p /\ p = server'[i].p
      BY <1>2
    <3>2. Safe(p)'
      BY <1>3, <2>2, <3>1 DEF Applied
    <3> QED BY <3>1, <3>2 DEF Safe
  <2>4. ASSUME NEW n \in DOMAIN s.incoming, n >= s.next, ~s.incoming[n].deleted
        PROVE  Ours(s.incoming[n])' \/ Safe(s.incoming[n].p)'
    <3>1. PICK c : c = s.incoming[n] /\ c = s'.incoming[n]
      OBVIOUS
    <3>2. c.item \in DOMAIN server
      BY <3>1 DEF FilesInv, Loaded, Placed
    <3>3. Ours(c) \/ Safe(c.p)
      BY <1>3, <2>4, <3>1 DEF Applied
    <3>4. Wanted(c)
      BY <2>4, <3>1 DEF Taken
    <3>5. Ours(c) => Ours(c)'
      BY <3>2, <3>4 DEF Ours, Wanted, Stands
    <3>6. Ours(c)' \/ Safe(c.p)'
      BY <2>2, <3>3, <3>5
    <3> QED BY <3>1, <3>6 DEF Ours, Alone, Safe
  <2>5. \A n \in Due : RefOf(Doomed(n)) \in Refs(s.marks)
    BY <1>3 DEF Applied
  <2>6. \A m, n \in Due : Doomed(m).ts = Doomed(n).ts => m = n
    BY <1>3 DEF Applied
  <2>7. pc' = "apply"
    BY <1>3
  <2> QED BY <2>1, <2>3, <2>4, <2>5, <2>6, <2>7 DEF Applied
<1>4. CASE pc # "apply"
  BY <1>2, <1>4 DEF Applied
<1> QED
  BY <1>3, <1>4

\* Every step, and none.
LEMMA NextApplied ==
  ASSUME FilesInv, Keyed, ServerInv, Taken, Applied, [Next]_vars, Trimmed'
  PROVE  Applied'
<1>1. Typed /\ SameHighlights(server)
  BY SameAsIs DEF FilesInv
<1>2. CASE pc' = "idle"
  BY <1>2, NotApplied DEF Late
<1>3. CASE UNCHANGED vars
  <2>1. pc' = pc /\ s' = s /\ marks' = marks /\ server' = server
    BY <1>3 DEF vars
  <2> QED BY <1>1, <2>1, ServerStands, WebApplied
<1>4. CASE Begin \/ Mint \/ Retain
  <2>1. pc' \in {"mint", "exchange", "idle"}
    BY <1>1, <1>4, BeginDoes, MintDoes, RetainDoes DEF Cuts
  <2> QED BY <2>1, NotApplied DEF Late
<1>5. CASE Exchange \/ Pull
  <2>1. pc' \in {"idle", "pull", "advance"}
    BY <1>1, <1>5, ExchangeDoes, PullDoes
  <2> QED BY <2>1, NotApplied DEF Late
<1>6. CASE Apply
  BY <1>6, ApplyDeleteApplied, ApplyPresentApplied, ApplyAddApplied, ApplyLaterApplied DEF Apply
<1>7. CASE Cover
  <2>1. pc = "cover" /\ marks' = marks /\ server' = server /\ (pc' = "idle" \/ (pc' = "ack" /\ s' = s))
    BY <1>1, <1>7, CoverDoes DEF Cuts
  <2> QED BY <1>2, <2>1 DEF Applied
<1>8. CASE Ack \/ PowerCut
  BY <1>1, <1>2, <1>8, AckDoes, PowerCutDoes
<1>9. CASE Reader
  <2>1. pc = "idle" /\ pc' = pc
    BY <1>1, <1>9, MarkPassageDoes, RemoveMarkDoes DEF Reader
  <2> QED BY <1>2, <2>1
<1>10. CASE Web
  <2>1. s' = s /\ pc' = pc /\ marks' = marks
    BY <1>1, <1>10, WebAddDoes, WebDeleteDoes DEF Web
  <2> QED BY <1>10, <2>1, ServerStands, WebApplied
<1> QED
  BY <1>3, <1>4, <1>5, <1>6, <1>7, <1>8, <1>9, <1>10, AdvanceApplied, SaveApplied DEF Next, SyncStep

LEMMA AlwaysAcked == Spec => [](Trimmed => FilesInv /\ AckInv)
<1>1. Init => Taken /\ Applied
  <2> SUFFICES ASSUME Init PROVE Taken /\ Applied
    OBVIOUS
  <2>1. DOMAIN s.incoming = {} /\ pc = "idle"
    BY NoSyncIs DEF Init
  <2> QED BY <2>1 DEF Taken, Applied, ItemsApart
<1>2. Basic /\ (Trimmed => FilesInv /\ Keyed /\ ServerInv) /\ (Trimmed => Taken /\ Applied) /\ [Next]_vars
        => (Trimmed => Taken /\ Applied)'
  BY NextTaken, NextApplied, NextTrimmed DEF Basic
<1>3. Spec => [](Trimmed => Taken /\ Applied)
  BY <1>1, <1>2, AlwaysBasic, AlwaysServer, PTL DEF Spec
<1> QED
  BY <1>3, AlwaysServer, PTL DEF AckInv

\* While the records are trimmed, whatever else fails and whatever the web page does
\* meanwhile: what the device acknowledges as applied is in the file on its card, though
\* later deletions of the same answer took highlights away (BookOrbitSyncExtras.cpp, the
\* save before the acknowledgment).
THEOREM AcknowledgedIsAlwaysHere == Spec => []AcknowledgedIsHere
<1>1. (Trimmed => FilesInv /\ AckInv) => AcknowledgedIsHere
  BY DEF AckInv, Applied, AcknowledgedIsHere
<1> QED
  BY <1>1, AlwaysAcked, PTL

-----------------------------------------------------------------------------
(* What is deleted: what is here stays here.                               *)

\* A complete key set has a record of every highlight.
LEMMA EachRecorded ==
  ASSUME FilesInv, pc = "exchange", KeysComplete, NEW i \in DOMAIN s.marks
  PROVE  \E n \in DOMAIN s.list : RefOf(s.list[n]) = RefOf(s.marks[i])
<1> SUFFICES ASSUME \A n \in DOMAIN s.list : RefOf(s.list[n]) # RefOf(s.marks[i])
             PROVE  FALSE
  OBVIOUS
<1>1. /\ s.list \in Seq(Record) /\ s.marks \in Seq(Mark)
      /\ RefsApart(s.list) /\ Refs(s.list) \subseteq Refs(s.marks)
  BY SyncFields DEF FilesInv, Sound, Loaded, Early
<1>2. /\ Len(s.list) \in Nat /\ DOMAIN s.list = 1 .. Len(s.list)
      /\ Len(s.marks) \in Nat /\ DOMAIN s.marks = 1 .. Len(s.marks)
  BY <1>1, LenProperties
<1>3. Len(s.list) >= Len(s.marks)
  BY DEF KeysComplete
<1>4. \A n \in DOMAIN s.list : \E j \in DOMAIN s.marks : RefOf(s.marks[j]) = RefOf(s.list[n])
  BY <1>1 DEF Refs
<1> DEFINE a == Len(s.list)
           b == Len(s.marks)
           f == [n \in 1 .. a + 1 |->
                   IF n = a + 1 THEN i
                   ELSE CHOOSE j \in 1 .. b : RefOf(s.marks[j]) = RefOf(s.list[n])]
<1>5. a \in Nat /\ b \in Nat /\ i \in 1 .. b /\ b <= a
  BY <1>2, <1>3
<1>6. \A n \in 1 .. a : n \in 1 .. a + 1 /\ n # a + 1
  BY <1>5
<1>7. \A n \in 1 .. a : f[n] \in 1 .. b /\ RefOf(s.marks[f[n]]) = RefOf(s.list[n])
  BY <1>2, <1>4, <1>6
<1>8. a + 1 \in 1 .. a + 1 /\ f[a + 1] = i
  BY <1>5
<1>9. \A n \in 1 .. a + 1 : n \in 1 .. a \/ n = a + 1
  BY <1>5
<1>10. DOMAIN f = 1 .. a + 1 /\ \A n \in 1 .. a + 1 : f[n] \in 1 .. b
  BY <1>5, <1>7, <1>8, <1>9
<1>11. f \in [1 .. a + 1 -> 1 .. b]
  BY <1>10
<1>12. ASSUME NEW j \in 1 .. a + 1, NEW k \in 1 .. a + 1, f[j] = f[k] PROVE j = k
  <2>1. CASE j \in 1 .. a /\ k \in 1 .. a
    <3>1. RefOf(s.list[j]) = RefOf(s.list[k])
      BY <1>7, <1>12, <2>1
    <3> QED BY <1>1, <1>2, <2>1, <3>1 DEF RefsApart
  <2>2. CASE j \in 1 .. a /\ k = a + 1
    BY <1>2, <1>7, <1>8, <1>12, <2>2
  <2>3. CASE j = a + 1 /\ k \in 1 .. a
    BY <1>2, <1>7, <1>8, <1>12, <2>3
  <2> QED BY <1>9, <2>1, <2>2, <2>3
<1> HIDE DEF a, b, f
<1>13. a + 1 \in Nat /\ ~(a + 1 <= b)
  BY <1>5
<1> QED
  BY <1>5, <1>11, <1>12, <1>13, NoMoreThan

\* What the web page deleted stays deleted.
LEMMA NextOffWeb ==
  ASSUME FilesInv, [Next]_vars, NEW p, OffWeb(p), Trimmed'
  PROVE  OffWeb(p)'
<1> PICK i \in DOMAIN server : server[i].p = p /\ server[i].state \in {"webDeleted", "gone"}
  BY DEF OffWeb
<1>1. Typed
  BY DEF FilesInv
<1>2. i \in DOMAIN server' /\ server'[i].p = p
  BY NextKin DEF Kin
<1>3. server'[i].state \in {"webDeleted", "gone"}
  <2>1. CASE SameHighlights(server')
    BY <2>1 DEF SameHighlights
  <2>2. CASE Exchange
    <3>1. server' = server \/ server' = Answer
      BY <1>1, <2>2, ExchangeDoes
    <3>2. Answer[i].state = server[i].state
      BY <1>1, AnswerStates
    <3> QED BY <3>1, <3>2
  <2>3. CASE Ack
    <3>1. server' \in {server, Acknowledged(s.applied, s.dels)}
      BY <1>1, <2>3, AckDoes
    <3>2. Acknowledged(s.applied, s.dels)[i].state \in {"gone", server[i].state}
      BY <1>1, AcknowledgedIs
    <3> QED BY <3>1, <3>2
  <2>4. CASE \E q \in Passages, date \in WebDates : WebAdd(q, date)
    <3>1. PICK x : Grows(server', server, x)
      BY <1>1, <2>4, WebAddDoes
    <3>2. server'[i] = server[i]
      BY <3>1, Zenon DEF Grows
    <3> QED BY <3>2
  <2>5. CASE \E j \in DOMAIN server : WebDelete(j)
    <3>1. PICK j \in DOMAIN server : WebDelete(j)
      BY <2>5
    <3>2. IF i = j THEN server'[i].state = "webDeleted" ELSE server'[i].state = server[i].state
      BY <1>1, <3>1, WebDeleteDoes
    <3> QED BY <3>2
  <2> QED BY <2>1, <2>2, <2>3, <2>4, <2>5, ServerSteps DEF Web
<1> QED
  BY <1>2, <1>3 DEF OffWeb

\* No file is cut short.
Whole == Faults \cap {"cut", "torn"} = {}

\* A highlight stays, unless the reader removes it or it was deleted on the web.
LEMMA NextHere ==
  ASSUME FilesInv, Keyed, Taken, Applied, Whole, [Next]_vars,
         NEW t, NEW p, p \notin removed', Here(t, p), Trimmed'
  PROVE  Here(t, p)' \/ OffWeb(p)
<1>1. Typed /\ "cut" \notin Faults /\ "torn" \notin Faults
  BY DEF FilesInv, Whole
<1>2. <<t, p>> \in Refs(marks.list) /\ (pc # "idle" => <<t, p>> \in Refs(s.marks))
  BY DEF Here
<1>3. CASE marks' = marks /\ (pc' = "idle" \/ (pc # "idle" /\ s'.marks = s.marks))
  BY <1>2, <1>3 DEF Here
<1>4. CASE UNCHANGED vars
  BY <1>2, <1>4 DEF vars, Here
<1>5. CASE Begin
  <2>1. marks' = marks /\ s'.marks = marks.list
    BY <1>1, <1>5, BeginDoes
  <2> QED BY <1>2, <2>1 DEF Here
<1>6. CASE Mint
  BY <1>1, <1>3, <1>6, MintDoes DEF Cuts, SameWork
<1>7. CASE Retain
  BY <1>1, <1>3, <1>7, RetainDoes DEF Cuts, SameWork
<1>8. CASE Exchange \/ Pull \/ Advance
  BY <1>1, <1>3, <1>8, ExchangeDoes, PullDoes, AdvanceDoes DEF Cuts, SameWork
<1>9. CASE ApplyDelete
  <2>1. /\ pc = "apply" /\ pc' = "apply" /\ marks' = marks
        /\ TheChange.deleted /\ s.next \in DOMAIN s.incoming
        /\ Shorter(s'.marks, s.marks, Stays)
    BY <1>1, <1>9, ApplyDeleteDoes
  <2>2. PICK i \in DOMAIN s.marks : RefOf(s.marks[i]) = <<t, p>>
    BY <1>2, <2>1 DEF Refs
  <2>3. s.marks[i].ts = t /\ s.marks[i].p = p
    BY <2>2 DEF RefOf
  <2>4. CASE i \in Stays
    <3>1. \E k \in DOMAIN s'.marks : s'.marks[k] = s.marks[i]
      BY <2>1, <2>4, Zenon DEF Shorter
    <3>2. <<t, p>> \in Refs(s'.marks)
      BY <2>2, <3>1 DEF Refs
    <3> QED BY <1>2, <2>1, <3>2 DEF Here
  <2>5. CASE i \notin Stays
    <3>1. s.marks[i].ts \in Gone
      BY <2>5 DEF Stays
    <3>2. Gone = IF Dooms(s.next) = {} THEN {} ELSE {Doomed(s.next).ts}
      BY DEF Gone, Dooms, Doomed, TheChange
    <3>3. Dooms(s.next) # {} /\ s.marks[i].ts = Doomed(s.next).ts
      BY <3>1, <3>2
    <3>4. s.next \in Due
      BY <1>1, <2>1, <3>3, SyncFields, SMTT(30) DEF Due, TheChange
    <3>5. PICK d : d = Doomed(s.next)
      OBVIOUS
    <3>6. RefOf(d) \in Refs(s.marks)
      BY <2>1, <3>4, <3>5 DEF Applied
    <3>7. PICK k \in DOMAIN s.marks : RefOf(s.marks[k]) = RefOf(d)
      BY <3>6 DEF Refs
    <3>8. s.marks[k].ts = d.ts /\ s.marks[k].p = d.p
      BY <3>7, RefFacts
    <3>9. k = i
      BY <3>3, <3>5, <3>8 DEF FilesInv, Sound, OneEach
    <3>10. /\ s.incoming[s.next].item \in DOMAIN server /\ server[s.incoming[s.next].item].state = "webDeleted"
           /\ server[s.incoming[s.next].item].p = d.p
      BY <3>4, <3>5, DueTaken
    <3> QED BY <2>3, <3>8, <3>9, <3>10 DEF OffWeb
  <2> QED BY <2>4, <2>5
<1>10. CASE ApplyAdd
  <2>1. /\ pc = "apply" /\ marks' = marks
        /\ \E m, r :
             /\ Adds(m, r)
             /\ \/ pc' = "apply" /\ s'.marks = Append(s.marks, m)
                \/ pc' = "idle"
    BY <1>1, <1>10, ApplyAddDoes DEF Cuts
  <2>2. PICK m : m \in Mark /\ (s'.marks = Append(s.marks, m) \/ pc' = "idle")
    BY <2>1, Zenon DEF Adds
  <2>3. CASE s'.marks = Append(s.marks, m)
    <3>1. Grows(s'.marks, s.marks, m)
      BY <1>1, <2>2, <2>3, SyncFields, AppendGrows
    <3>2. \A i \in DOMAIN s.marks : i \in DOMAIN s'.marks /\ s'.marks[i] = s.marks[i]
      BY <3>1, Zenon DEF Grows
    <3>3. Refs(s.marks) \subseteq Refs(s'.marks)
      BY <3>2 DEF Refs
    <3> QED BY <1>2, <2>1, <3>3 DEF Here
  <2> QED BY <1>3, <2>1, <2>2, <2>3
<1>11. CASE ApplyPresent \/ ApplyLater
  BY <1>1, <1>3, <1>11, ApplyPresentDoes, ApplyLaterDoes DEF SameWork
<1>12. CASE Save
  <2>1. /\ pc = "apply"
        /\ \/ marks'.list = s.marks /\ pc' = "cover" /\ s' = s
           \/ pc' = "idle" /\ marks' = marks
    BY <1>1, <1>12, SaveDoes DEF Torn
  <2>2. CASE marks'.list = s.marks /\ pc' = "cover" /\ s' = s
    BY <1>2, <2>1, <2>2 DEF Here
  <2> QED BY <1>3, <2>1, <2>2
<1>13. CASE Cover \/ Ack \/ PowerCut
  BY <1>1, <1>3, <1>13, CoverDoes, AckDoes, PowerCutDoes DEF Cuts
<1>14. ASSUME NEW q \in Passages, MarkPassage(q) PROVE Here(t, p)'
  <2>1. pc = "idle" /\ pc' = "idle" /\ \E m : m \in Mark /\ marks'.list = Append(marks.list, m)
    BY <1>1, <1>14, MarkPassageDoes DEF Torn
  <2>2. PICK m : m \in Mark /\ marks'.list = Append(marks.list, m)
    BY <2>1
  <2>3. Grows(marks'.list, marks.list, m)
    BY <1>1, <2>2, SyncFields, AppendGrows
  <2>4. \A i \in DOMAIN marks.list : i \in DOMAIN marks'.list /\ marks'.list[i] = marks.list[i]
    BY <2>3, Zenon DEF Grows
  <2>5. Refs(marks.list) \subseteq Refs(marks'.list)
    BY <2>4 DEF Refs
  <2> QED BY <1>2, <2>1, <2>5 DEF Here
<1>15. ASSUME NEW i \in DOMAIN marks.list, RemoveMark(i) PROVE Here(t, p)'
  <2>1. /\ pc = "idle" /\ pc' = "idle" /\ removed' = removed \cup {marks.list[i].p}
        /\ Shorter(marks'.list, marks.list, DOMAIN marks.list \ {i})
    BY <1>1, <1>15, RemoveMarkDoes DEF Torn
  <2>2. PICK j \in DOMAIN marks.list : RefOf(marks.list[j]) = <<t, p>>
    BY <1>2 DEF Refs
  <2>3. marks.list[j].p = p
    BY <2>2 DEF RefOf
  <2>4. j \in DOMAIN marks.list \ {i}
    BY <2>1, <2>3
  <2>5. \E k \in DOMAIN marks'.list : marks'.list[k] = marks.list[j]
    BY <2>1, <2>4, Zenon DEF Shorter
  <2>6. <<t, p>> \in Refs(marks'.list)
    BY <2>2, <2>5 DEF Refs
  <2> QED BY <2>1, <2>6 DEF Here
<1>16. CASE Web
  <2>1. marks' = marks /\ s' = s /\ pc' = pc
    BY <1>1, <1>16, WebAddDoes, WebDeleteDoes DEF Web
  <2> QED BY <1>2, <2>1 DEF Here
<1> QED
  BY <1>4, <1>5, <1>6, <1>7, <1>8, <1>9, <1>10, <1>11, <1>12, <1>13, <1>14, <1>15, <1>16
  DEF Next, SyncStep, Apply, Reader

\* So does its record.
LEMMA NextRecord ==
  ASSUME FilesInv, Whole, [Next]_vars, NEW n \in DOMAIN recs.list,
         Here(recs.list[n].ts, recs.list[n].p), Trimmed'
  PROVE  \E k \in DOMAIN recs'.list : recs'.list[k] = recs.list[n]
<1>1. /\ Typed /\ "cut" \notin Faults /\ "torn" \notin Faults /\ recs \in RecordFile
      /\ pc \in Early => s.list = recs.list
  BY DEF FilesInv, Whole, Typed, Loaded
<1>2. RefOf(recs.list[n]) \in Refs(marks.list) /\ (pc # "idle" => RefOf(recs.list[n]) \in Refs(s.marks))
  BY DEF Here, RefOf
<1>3. CASE recs'.list = recs.list
  BY <1>3
<1>4. ASSUME NEW r \in Record, RefOf(recs.list[n]) # RefOf(r), recs' = PutRecord(recs, r)
      PROVE  \E k \in DOMAIN recs'.list : recs'.list[k] = recs.list[n]
  <2>1. Puts(PutRecord(recs, r), recs, r)
    BY <1>1, PutIs
  <2>2. Puts(recs', recs, r)
    BY <1>4, <2>1
  <2> QED BY <1>4, <2>2, Zenon DEF Puts
<1>5. CASE Mint
  <2>1. pc = "mint" /\ (recs' = recs \/ \E r : Mints(r) /\ recs' = PutRecord(recs, r))
    BY <1>1, <1>5, MintDoes DEF Cuts
  <2>2. ASSUME NEW r, Mints(r), recs' = PutRecord(recs, r)
        PROVE  \E k \in DOMAIN recs'.list : recs'.list[k] = recs.list[n]
    <3>1. r \in Record /\ RefOf(r) \notin Refs(recs.list)
      BY <1>1, <2>1, <2>2 DEF Mints, Early
    <3>2. RefOf(recs.list[n]) # RefOf(r)
      BY <3>1 DEF Refs
    <3> QED BY <1>4, <2>2, <3>1, <3>2
  <2> QED BY <1>3, <2>1, <2>2
<1>6. CASE Retain
  <2>1. pc = "mint" /\ Shorter(Kept(recs.list), recs.list, HasMark)
    BY <1>6, RetainDoes
  <2>2. recs' = recs \/ recs'.list = Kept(recs.list)
    BY <1>1, <1>6, RetainDoes DEF Cuts
  <2>3. n \in HasMark
    BY <1>2, <2>1 DEF HasMark
  <2>4. \E k \in DOMAIN Kept(recs.list) : Kept(recs.list)[k] = recs.list[n]
    BY <2>1, <2>3, Zenon DEF Shorter
  <2> QED BY <1>3, <2>2, <2>4
<1>7. CASE ApplyAdd
  <2>1. /\ pc = "apply"
        /\ \E m, r : Adds(m, r) /\ recs' \in {recs, PutRecord(recs, r)}
    BY <1>1, <1>7, ApplyAddDoes DEF Cuts
  <2>2. PICK m, r : Adds(m, r) /\ recs' \in {recs, PutRecord(recs, r)}
    BY <2>1
  <2>3. r \in Record /\ r.ts = m.ts /\ \A i \in DOMAIN s.marks : s.marks[i].ts # m.ts
    BY <2>2, Zenon DEF Adds
  <2>4. PICK i \in DOMAIN s.marks : RefOf(s.marks[i]) = RefOf(recs.list[n])
    BY <1>2, <2>1 DEF Refs
  <2>5. s.marks[i].ts = recs.list[n].ts
    BY <2>4, RefFacts
  <2>6. RefOf(recs.list[n]) # RefOf(r)
    BY <2>3, <2>5, RefFacts
  <2> QED BY <1>3, <1>4, <2>2, <2>3, <2>6
<1>8. CASE Begin \/ Exchange \/ Pull \/ ApplyDelete \/ ApplyPresent \/ Save
  BY <1>1, <1>3, <1>8, BeginDoes, ExchangeDoes, PullDoes, ApplyDeleteDoes, ApplyPresentDoes, SaveDoes
<1>9. CASE ApplyLater
  BY <1>1, <1>3, <1>9, ApplyLaterDoes
<1>10. CASE Advance \/ Cover
  BY <1>1, <1>3, <1>10, AdvanceDoes, CoverDoes DEF Cuts
<1>11. CASE Ack \/ PowerCut \/ Reader \/ Web
  BY <1>1, <1>3, <1>11, AckDoes, PowerCutDoes, MarkPassageDoes, RemoveMarkDoes, WebAddDoes,
     WebDeleteDoes DEF Reader, Web
<1>12. CASE UNCHANGED vars
  BY <1>3, <1>12 DEF vars
<1> QED
  BY <1>5, <1>6, <1>7, <1>8, <1>9, <1>10, <1>11, <1>12 DEF Next, SyncStep, Apply

\* So what shows, and what is held by its key, stays so.
LEMMA NextShown ==
  ASSUME FilesInv, Keyed, Taken, Applied, Whole, [Next]_vars,
         NEW p, p \notin removed', Shown(p), Trimmed'
  PROVE  Shown(p)' \/ OffWeb(p)
<1> PICK t \in Nat : Here(t, p)
  BY DEF Shown
<1>1. Here(t, p)' \/ OffWeb(p)
  BY NextHere
<1> QED
  BY <1>1 DEF Shown

LEMMA NextHeld ==
  ASSUME FilesInv, Keyed, Taken, Applied, Whole, [Next]_vars,
         NEW key, key[2] \notin removed', Held(key), Trimmed'
  PROVE  Held(key)' \/ OffWeb(key[2])
<1> PICK n \in DOMAIN recs.list : KeyOf(recs.list[n]) = key /\ Here(recs.list[n].ts, recs.list[n].p)
  BY DEF Held
<1> PICK r : r = recs.list[n]
  OBVIOUS
<1>1. r \in Record /\ r.p = key[2]
  BY SyncFields, ElementOfSeq, KeyFacts, SMTT(30) DEF FilesInv
<1>2. Here(r.ts, r.p)' \/ OffWeb(key[2])
  BY <1>1, NextHere
<1>3. PICK k \in DOMAIN recs'.list : recs'.list[k] = r
  BY NextRecord
<1> QED
  BY <1>2, <1>3 DEF Held, Here

-----------------------------------------------------------------------------
(* What is deleted: the answer to a request.                               *)

\* The server's answer when the reader has removed nothing of what was sent.
Answers == Exchange /\ server' = Answer

\* All records are of highlights here, then and after.
LEMMA AnswerHolds ==
  ASSUME FilesInv, Answers, NEW n \in DOMAIN recs.list, NEW r, r = recs.list[n]
  PROVE  Held(KeyOf(r))' /\ Shown(r.p)'
<1>1. /\ pc = "exchange" /\ marks' = marks /\ recs' = recs
      /\ pc' = "idle" \/ s'.marks = s.marks
  BY ExchangeDoes DEF FilesInv, Answers, SameWork
<1>2. s.list = recs.list /\ s.marks = marks.list /\ Refs(s.list) \subseteq Refs(s.marks)
  BY <1>1 DEF FilesInv, Loaded, Early
<1> r \in Record
  BY SyncFields, ElementOfSeq DEF FilesInv
<1>3. <<r.ts, r.p>> \in Refs(s.list)
  BY <1>2 DEF Refs, RefOf
<1>4. Here(r.ts, r.p)' /\ r.ts \in Nat
  BY <1>1, <1>2, <1>3, FieldTypes DEF Here
<1>5. \E k \in DOMAIN recs'.list : KeyOf(recs'.list[k]) = KeyOf(r) /\ recs'.list[k] = r
  BY <1>1
<1>6. Held(KeyOf(r))'
  BY <1>4, <1>5 DEF Held, Here
<1>7. Shown(r.p)'
  BY <1>4 DEF Shown
<1> QED
  BY <1>6, <1>7

\* What is held by its key is neither deleted nor given a key that is not.
LEMMA AnswerKeeps ==
  ASSUME FilesInv, Answers, NEW i, HeldHere(i)
  PROVE  HeldHere(i)'
<1>1. Typed /\ pc = "exchange" /\ i \in DOMAIN server /\ server[i].state = "live" /\ server' = Answer
  BY ExchangeDoes DEF FilesInv, Answers, HeldHere
<1>2. PICK n \in DOMAIN recs.list : KeyOf(recs.list[n]) = server[i].key
  BY DEF HeldHere, Held
<1>3. s.list = recs.list
  BY <1>1 DEF FilesInv, Loaded, Early
<1>4. KeysComplete => server[i].key \in SentKeys
  BY <1>2, <1>3 DEF SentKeys
<1>5. i \in DOMAIN server' /\ server'[i].state = "live"
  <2>1. AfterRequest(Answer, Outgoing, SentKeys, KeysComplete)
    BY <1>1, AnswerIs
  <2>2. /\ i \in DOMAIN Answer
        /\ \/ Answer[i].state = server[i].state
           \/ KeysComplete /\ server[i].key \notin SentKeys
    BY <1>1, <2>1, Zenon DEF AfterRequest
  <2> QED BY <1>1, <1>4, <2>2
<1>6. \/ server'[i].key = server[i].key
      \/ \E m \in DOMAIN Outgoing : server'[i].key = KeyOf(Outgoing[m])
  BY <1>1, <1>5, AnswerKeys
<1>7. \E k \in DOMAIN recs.list : server'[i].key = KeyOf(recs.list[k])
  BY <1>1, <1>2, <1>3, <1>6, OutgoingAre
<1>8. PICK k, r : k \in DOMAIN recs.list /\ r = recs.list[k] /\ server'[i].key = KeyOf(r)
  BY <1>7
<1>9. Held(KeyOf(r))'
  BY <1>8, AnswerHolds
<1> QED
  BY <1>5, <1>8, <1>9 DEF HeldHere, Held, Here

LEMMA AnswerGood ==
  ASSUME FilesInv, Answers, NEW p, Good(p), Trimmed'
  PROVE  Good(p)'
<1>1. CASE OffWeb(p)
  <2>1. [Next]_vars
    BY DEF Answers, Next, SyncStep
  <2> QED BY <1>1, <2>1, NextOffWeb DEF Good
<1>2. CASE \E i \in DOMAIN server : server[i].p = p /\ HeldHere(i)
  <2>1. PICK i \in DOMAIN server : server[i].p = p /\ HeldHere(i)
    BY <1>2
  <2>2. HeldHere(i)' /\ Kin(server')
    BY <2>1, AnswerKeeps, AnswerKin DEF FilesInv, Answers
  <2> QED BY <2>1, <2>2 DEF Good, Kin
<1> QED
  BY <1>1, <1>2 DEF Good

\* A record known by its key is not taken for deleted.
LEMMA KnownIsGood ==
  ASSUME FilesInv, Keyed, Excused, Answers, NEW n \in DOMAIN recs.list, recs.list[n].p \notin removed,
         NEW r, r = recs.list[n], KnownKey(KeyOf(r)) \/ KnownKey(KeyOf(r))', Trimmed'
  PROVE  Good(r.p)'
<1> PICK key : key = KeyOf(r)
  OBVIOUS
<1>1. Typed /\ Typed' /\ pc = "exchange" /\ server' = Answer
  BY ExchangeDoes DEF FilesInv, Answers
<1>2. s.list = recs.list /\ r \in Record /\ key[2] = r.p
  BY <1>1, SyncFields, ElementOfSeq, KeyFacts DEF FilesInv, Loaded, Early
<1>3. KeysComplete => key \in SentKeys
  BY <1>2 DEF SentKeys
<1>4. Held(key)'
  <2>1. Held(KeyOf(r))'
    BY AnswerHolds
  <2> QED BY <2>1 DEF Held, Here
<1>5. AfterRequest(server', Outgoing, SentKeys, KeysComplete)
  BY <1>1, AnswerIs
<1>6. \A j \in DOMAIN server' : server'[j].key[2] = server'[j].p
  BY <1>1, AnswerKeyed
<1>7. ASSUME NEW j \in DOMAIN server', server'[j].key = key PROVE Good(r.p)'
  <2>1. server'[j].p = r.p /\ server'[j].state \in ItemStates
    BY <1>1, <1>2, <1>6, <1>7, ElementOfSeq, ItemFields DEF Typed
  <2>2. CASE server'[j].state = "live"
    BY <1>4, <1>7, <2>1, <2>2 DEF Good, HeldHere, Held, Here
  <2>3. CASE server'[j].state \in {"webDeleted", "gone"}
    BY <2>1, <2>3 DEF Good, OffWeb
  <2>4. CASE server'[j].state = "deviceDeleted"
    <3>1. j \in DOMAIN server
      <4> SUFFICES ASSUME j \notin DOMAIN server PROVE FALSE
        OBVIOUS
      <4>1. server'[j].state = "live"
        BY <1>5, <1>7, Zenon DEF AfterRequest
      <4> QED BY <2>4, <4>1
    <3>2. server[j].p = r.p
      BY <1>5, <2>1, <3>1, Zenon DEF AfterRequest
    <3>3. CASE server[j].state = "deviceDeleted"
      <4>1. Good(r.p)
        BY <3>1, <3>2, <3>3 DEF Excused
      <4> QED BY <4>1, AnswerGood
    <3>4. CASE server[j].state # "deviceDeleted"
      <4>1. server'[j].state # server[j].state
        BY <2>4, <3>4
      <4>2. /\ server[j].delivered /\ KeysComplete /\ server[j].key \notin SentKeys
        BY <1>5, <3>1, <4>1, Zenon DEF AfterRequest
      <4>3. Linked(Outgoing, j) = {}
        BY <1>1, <3>1, <4>2, OutgoingAre, LinkedAre DEF Waiting
      <4>4. server'[j].key = server[j].key
        BY <1>5, <3>1, <4>3, Zenon DEF AfterRequest
      <4> QED BY <1>3, <1>7, <4>2, <4>4
    <3> QED BY <3>3, <3>4
  <2> QED BY <2>1, <2>2, <2>3, <2>4 DEF ItemStates
<1>8. ASSUME NEW i \in DOMAIN server, server[i].key = key PROVE Good(r.p)'
  <2>1. i \in DOMAIN server' /\ server'[i].p = server[i].p /\ server[i].p = r.p
    BY <1>1, <1>2, <1>8, AnswerKin DEF Kin, Keyed
  <2>2. CASE server'[i].key = server[i].key
    BY <1>7, <1>8, <2>1, <2>2
  <2>3. CASE server'[i].key # server[i].key
    <3>1. Waiting(i) /\ \E m \in DOMAIN Outgoing : server'[i].key = KeyOf(Outgoing[m])
      BY <1>1, <2>1, <2>3, AnswerKeys
    <3>2. PICK k, r2 : k \in DOMAIN recs.list /\ r2 = recs.list[k] /\ server'[i].key = KeyOf(r2)
      BY <1>1, <1>2, <3>1, OutgoingAre
    <3>3. Held(KeyOf(r2))'
      BY <3>2, AnswerHolds
    <3>4. server'[i].state = "live"
      BY <1>1, <3>1, AnswerStates DEF Waiting
    <3> QED BY <2>1, <3>2, <3>3, <3>4 DEF Good, HeldHere, Held, Here
  <2> QED BY <2>2, <2>3
<1>9. (\E i \in DOMAIN server : server[i].key = key) \/ (\E j \in DOMAIN server' : server'[j].key = key)
  BY DEF KnownKey
<1> QED
  BY <1>7, <1>8, <1>9

\* What shows, a complete key set has a record of.
LEMMA ShownIsGood ==
  ASSUME FilesInv, Keyed, Excused, Uploaded, OneBatch, Answers, KeysComplete,
         NEW p, p \notin removed, Shown(p), Trimmed'
  PROVE  Good(p)'
<1>1. Typed /\ pc = "exchange" /\ server' = Answer
  BY ExchangeDoes DEF FilesInv, Answers
<1>2. /\ s.list = recs.list /\ s.watermark = recs.watermark /\ Len(s.list) <= Batch
      /\ pc \notin Answered
  BY <1>1 DEF FilesInv, Loaded, Early, OneBatch, Answered, Late
<1>3. PICK t : <<t, p>> \in Refs(s.marks)
  BY <1>1 DEF Shown, Here
<1>4. PICK i \in DOMAIN s.marks : RefOf(s.marks[i]) = <<t, p>>
  BY <1>3 DEF Refs
<1>5. PICK n \in DOMAIN s.list : RefOf(s.list[n]) = <<t, p>>
  BY <1>1, <1>4, EachRecorded
<1>6. PICK r : r = recs.list[n]
  OBVIOUS
<1>7. n \in DOMAIN recs.list /\ r = s.list[n] /\ r.p = p
  BY <1>2, <1>5, <1>6 DEF RefOf
<1>8. r \in Record /\ r.id \in Nat /\ recs.watermark \in Nat
  BY <1>1, <1>6, <1>7, SyncFields, ElementOfSeq, FieldTypes
<1>9. CASE r.id <= recs.watermark
  <2>1. KnownKey(KeyOf(r)) \/ Good(p)
    BY <1>6, <1>7, <1>9 DEF Uploaded
  <2>2. KnownKey(KeyOf(r)) => Good(p)'
    BY <1>6, <1>7, KnownIsGood
  <2> QED BY <2>1, <2>2, AnswerGood
<1>10. CASE r.id > recs.watermark
  <2>1. PICK k \in DOMAIN Outgoing : Outgoing[k] = r
    BY <1>1, <1>2, <1>7, <1>10, AllSent
  <2>2. KnownKey(KeyOf(r)) \/ KnownKey(KeyOf(r))'
    BY <1>1, <2>1, SentIs DEF KnownKey
  <2> QED BY <1>6, <1>7, <2>2, KnownIsGood
<1> QED
  BY <1>8, <1>9, <1>10

\* So what an answer takes for deleted the server has from another.
LEMMA AnswerExcused ==
  ASSUME FilesInv, Keyed, DeletionInv, OneBatch, Answers, Trimmed'
  PROVE  Excused'
<1>1. Typed /\ server' = Answer /\ removed' = removed
  BY ExchangeDoes DEF FilesInv, Answers
<1>2. AfterRequest(server', Outgoing, SentKeys, KeysComplete)
  BY <1>1, AnswerIs
<1> SUFFICES ASSUME NEW i \in DOMAIN server', server'[i].state = "deviceDeleted", server'[i].p \notin removed
             PROVE  (Good(server[i].p))'
  BY <1>1 DEF Excused
<1>3. i \in DOMAIN server
  <2> SUFFICES ASSUME i \notin DOMAIN server PROVE FALSE
    OBVIOUS
  <2>1. server'[i].state = "live"
    BY <1>2, Zenon DEF AfterRequest
  <2> QED BY <2>1
<1>4. PICK p : p = server[i].p /\ p = server'[i].p
  BY <1>2, <1>3, Zenon DEF AfterRequest
<1>5. CASE server[i].state = "deviceDeleted"
  <2>1. Good(p)
    BY <1>3, <1>4, <1>5 DEF DeletionInv, Excused
  <2>2. Good(p)'
    BY <2>1, AnswerGood
  <2> QED BY <1>4, <2>2
<1>6. CASE server[i].state # "deviceDeleted"
  <2>1. server[i].state = "live" /\ server[i].delivered /\ KeysComplete
    BY <1>2, <1>3, <1>6, Zenon DEF AfterRequest
  <2>2. OffWeb(p) \/ Shown(p)
    BY <1>3, <1>4, <2>1 DEF DeletionInv, OnDevice
  <2>3. OffWeb(p) => Good(p)'
    BY AnswerGood DEF Good
  <2>4. Shown(p) => Good(p)'
    BY <1>4, <2>1, ShownIsGood DEF DeletionInv
  <2>5. Good(p)'
    BY <2>2, <2>3, <2>4
  <2> QED BY <1>4, <2>5
<1> QED
  BY <1>5, <1>6

\* What a request is the first to show the server, the device shows.
LEMMA AnswerShows ==
  ASSUME FilesInv, Keyed, Answers, NEW i \in DOMAIN server', NEW p, p = server'[i].p, server'[i].delivered,
         i \notin DOMAIN server \/ ~server[i].delivered
  PROVE  Shown(p)'
<1>1. Typed /\ pc = "exchange" /\ server' = Answer /\ s.list = recs.list
  BY ExchangeDoes DEF FilesInv, Answers, Loaded, Early
<1>2. AfterRequest(server', Outgoing, SentKeys, KeysComplete)
  BY <1>1, AnswerIs
<1>3. \E n \in DOMAIN recs.list : recs.list[n].p = p
  <2>1. CASE i \notin DOMAIN server
    <3>1. PICK m \in DOMAIN Outgoing : p = Outgoing[m].p
      BY <1>1, <2>1, AnswerKeys
    <3> QED BY <1>1, <3>1, OutgoingAre
  <2>2. CASE i \in DOMAIN server /\ Linked(Outgoing, i) # {}
    <3>1. server'[i].p = server[i].p
      BY <1>2, <2>2, Zenon DEF AfterRequest
    <3>2. PICK m \in DOMAIN Outgoing : Outgoing[m].p = server[i].p
      BY <1>1, <2>2, AnswerKeys
    <3> QED BY <1>1, <3>1, <3>2, OutgoingAre
  <2>3. CASE i \in DOMAIN server /\ Linked(Outgoing, i) = {}
    <3>1. server'[i].p = server[i].p /\ server[i].key \in SentKeys
      BY <1>2, <2>3, Zenon DEF AfterRequest
    <3>2. PICK n \in DOMAIN recs.list : server[i].key = KeyOf(recs.list[n])
      BY <1>1, <3>1 DEF SentKeys
    <3>3. KeyOf(recs.list[n])[2] = recs.list[n].p
      BY <1>1, SyncFields, ElementOfSeq, KeyFacts, SMTT(30)
    <3>4. server[i].key[2] = server[i].p
      BY <2>3 DEF Keyed
    <3> QED BY <3>1, <3>2, <3>3, <3>4
  <2> QED BY <2>1, <2>2, <2>3
<1>4. PICK n, r : n \in DOMAIN recs.list /\ r = recs.list[n] /\ r.p = p
  BY <1>3
<1>5. Shown(r.p)'
  BY <1>4, AnswerHolds
<1> QED
  BY <1>4, <1>5 DEF Shown, Here

\* Every record is covered, sent or not yet answered for.
LEMMA AnswerUploaded ==
  ASSUME FilesInv, Keyed, DeletionInv, OneBatch, Answers, Trimmed'
  PROVE  Uploaded'
<1>1. /\ Typed /\ pc = "exchange" /\ server' = Answer /\ removed' = removed /\ recs' = recs
      /\ pc' = "idle" \/ pc' = "pull"
  BY ExchangeDoes DEF FilesInv, Answers
<1>2. /\ s.list = recs.list /\ s.watermark = recs.watermark /\ Len(s.list) <= Batch
  BY <1>1 DEF FilesInv, Loaded, Early, OneBatch
<1> SUFFICES ASSUME NEW n \in DOMAIN recs'.list, recs'.list[n].p \notin removed',
                    recs'.list[n].id <= recs'.watermark \/ pc' \in Answered
             PROVE  (KnownKey(KeyOf(recs.list[n])) \/ Good(recs.list[n].p))'
  BY DEF Uploaded
<1>3. PICK r : n \in DOMAIN recs.list /\ r = recs.list[n] /\ r = recs'.list[n] /\ r.p \notin removed
  BY <1>1
<1>4. r \in Record /\ r.id \in Nat /\ recs.watermark \in Nat
  BY <1>1, <1>3, SyncFields, ElementOfSeq, FieldTypes
<1>5. CASE r.id <= recs.watermark
  <2>1. KnownKey(KeyOf(r)) \/ Good(r.p)
    BY <1>3, <1>5 DEF DeletionInv, Uploaded
  <2>2. KnownKey(KeyOf(r)) => Good(r.p)'
    BY <1>3, KnownIsGood DEF DeletionInv
  <2>3. Good(r.p)'
    BY <2>1, <2>2, AnswerGood
  <2> QED BY <1>3, <2>3 DEF Good
<1>6. CASE r.id > recs.watermark /\ pc' = "pull"
  <2>1. PICK k \in DOMAIN Outgoing : Outgoing[k] = r
    BY <1>1, <1>2, <1>3, <1>6, AllSent
  <2>2. KnownKey(KeyOf(r)) \/ KnownKey(KeyOf(r))'
    BY <1>1, <2>1, SentIs DEF KnownKey
  <2>3. Good(r.p)'
    BY <1>3, <2>2, KnownIsGood DEF DeletionInv
  <2> QED BY <1>3, <2>3 DEF Good
<1>7. CASE r.id > recs.watermark /\ pc' = "idle"
  <2>1. ~(r.id <= recs.watermark) /\ pc' \notin Answered
    BY <1>4, <1>7 DEF Answered, Late
  <2> QED BY <1>1, <1>3, <2>1
<1> QED
  BY <1>1, <1>4, <1>5, <1>6, <1>7

-----------------------------------------------------------------------------
(* What is deleted: every step.                                            *)

\* Steps but a request take no highlight for deleted, and leave keys as they are.
Leaves ==
  /\ \A i \in DOMAIN server :
       /\ i \in DOMAIN server' /\ server'[i].p = server[i].p /\ server'[i].key = server[i].key
       /\ \/ server'[i].state = server[i].state
          \/ server'[i].state \in {"webDeleted", "gone"}
       /\ server'[i].state = "live" /\ server'[i].delivered =>
            server[i].delivered \/ Shown(server[i].p)
  /\ \A i \in DOMAIN server' :
       i \notin DOMAIN server => server'[i].state = "live" /\ ~server'[i].delivered

LEMMA NextLeaves ==
  ASSUME FilesInv, Keyed, Taken, Applied, [Next]_vars, Trimmed'
  PROVE  Answers \/ Leaves
<1>1. Typed
  BY DEF FilesInv
<1>2. CASE SameHighlights(server')
  BY <1>2 DEF SameHighlights, Leaves
<1>3. CASE Exchange
  <2>1. server' = server \/ server' = Answer
    BY <1>1, <1>3, ExchangeDoes
  <2>2. server' = server => SameHighlights(server')
    BY <1>1, SameAsIs
  <2> QED BY <1>2, <1>3, <2>1, <2>2 DEF Answers
<1>4. CASE Ack
  <2> DEFINE next == Acknowledged(s.applied, s.dels)
  <2>1. pc = "ack" /\ pc' = "idle" /\ server' \in {server, next}
    BY <1>1, <1>4, AckDoes
  <2>2. server' = server => SameHighlights(server')
    BY <1>1, SameAsIs
  <2>3. CASE server' = next
    <3>1. /\ DOMAIN next = DOMAIN server
          /\ \A i \in DOMAIN server :
               /\ next[i].p = server[i].p /\ next[i].key = server[i].key
               /\ \/ i \in s.dels /\ next[i].state = "gone"
                  \/ i \notin s.dels /\ next[i].state = server[i].state
      BY <1>1, AcknowledgedIs
    <3>2. \A i \in DOMAIN server :
            i \notin s.dels => (next[i].delivered <=> server[i].delivered \/ i \in s.applied)
      BY <1>1, AcknowledgedIs
    <3> HIDE DEF next
    <3>4. ASSUME NEW i \in s.applied PROVE Shown(server[i].p)
      <4>1. PICK p : p = server[i].p
        OBVIOUS
      <4>2. p \in Marked(marks.list) /\ marks.list = s.marks
        BY <2>1, <4>1 DEF Applied, FilesInv, Loaded
      <4>3. PICK k \in DOMAIN marks.list : marks.list[k].p = p
        BY <4>2 DEF Marked
      <4>4. marks.list[k].ts \in Nat
        BY <1>1, SyncFields, ElementOfSeq, FieldTypes
      <4>5. <<marks.list[k].ts, p>> \in Refs(marks.list)
        BY <4>3 DEF Refs, RefOf
      <4> QED BY <4>1, <4>2, <4>4, <4>5 DEF Shown, Here
    <3> QED BY <2>1, <2>3, <3>1, <3>2, <3>4 DEF Leaves
  <2> QED BY <1>2, <2>1, <2>2, <2>3
<1>5. CASE \E p \in Passages, date \in WebDates : WebAdd(p, date)
  <2>1. PICK x : x.state = "live" /\ ~x.delivered /\ Grows(server', server, x)
    BY <1>1, <1>5, WebAddDoes
  <2>2. /\ \A i \in DOMAIN server : i \in DOMAIN server' /\ server'[i] = server[i]
        /\ \A i \in DOMAIN server' : i \in DOMAIN server \/ server'[i] = x
    BY <2>1, Zenon DEF Grows
  <2> QED BY <2>1, <2>2 DEF Leaves
<1>6. CASE \E i \in DOMAIN server : WebDelete(i)
  <2>1. PICK j \in DOMAIN server : WebDelete(j)
    BY <1>6
  <2>2. /\ DOMAIN server' = DOMAIN server
        /\ \A i \in DOMAIN server :
              /\ server'[i].p = server[i].p /\ server'[i].key = server[i].key
              /\ server'[i].delivered <=> server[i].delivered
              /\ IF i = j THEN server'[i].state = "webDeleted" ELSE server'[i].state = server[i].state
    BY <1>1, <2>1, WebDeleteDoes
  <2> QED BY <2>2 DEF Leaves
<1> QED
  BY <1>2, <1>3, <1>4, <1>5, <1>6, ServerSteps DEF Web

\* What was good stays so.
LEMMA NextGood ==
  ASSUME FilesInv, Keyed, Taken, Applied, Whole, [Next]_vars,
         NEW p, p \notin removed', Good(p), Trimmed'
  PROVE  Good(p)'
<1>1. CASE Answers
  BY <1>1, AnswerGood
<1>2. OffWeb(p) => OffWeb(p)'
  BY NextOffWeb
<1>3. ASSUME Leaves, NEW i \in DOMAIN server, server[i].p = p, HeldHere(i) PROVE Good(p)'
  <2>1. PICK key : key = server[i].key /\ key = server'[i].key
    BY <1>3 DEF Leaves
  <2>2. key[2] = p /\ Held(key)
    BY <1>3, <2>1 DEF Keyed, HeldHere
  <2>3. Held(key)' \/ OffWeb(p)
    BY <2>2, NextHeld
  <2>4. CASE Held(key)'
    <3>1. /\ i \in DOMAIN server' /\ server'[i].p = p
          /\ server'[i].state = "live" \/ server'[i].state \in {"webDeleted", "gone"}
      BY <1>3 DEF Leaves, HeldHere
    <3> QED BY <2>1, <2>4, <3>1 DEF Good, OffWeb, HeldHere, Held, Here
  <2> QED BY <1>2, <2>3, <2>4 DEF Good
<1> QED
  BY <1>1, <1>2, <1>3, NextLeaves DEF Good

\* No passage is put back among those not removed.
LEMMA StaysRemoved ==
  ASSUME FilesInv, [Next]_vars, Trimmed'
  PROVE  removed \subseteq removed'
<1>1. Typed
  BY DEF FilesInv
<1>2. CASE UNCHANGED vars
  BY <1>2 DEF vars
<1>3. CASE Begin \/ Mint \/ Retain \/ Exchange \/ Pull \/ Advance
  BY <1>1, <1>3, BeginDoes, MintDoes, RetainDoes, ExchangeDoes, PullDoes, AdvanceDoes
<1>4. CASE Apply
  BY <1>1, <1>4, ApplyDeleteDoes, ApplyPresentDoes, ApplyAddDoes, ApplyLaterDoes DEF Apply
<1>5. CASE Save \/ Cover \/ Ack \/ PowerCut
  BY <1>1, <1>5, SaveDoes, CoverDoes, AckDoes, PowerCutDoes
<1>6. CASE Reader
  BY <1>1, <1>6, MarkPassageDoes, RemoveMarkDoes DEF Reader
<1>7. CASE Web
  BY <1>1, <1>7, WebAddDoes, WebDeleteDoes DEF Web
<1> QED
  BY <1>2, <1>3, <1>4, <1>5, <1>6, <1>7 DEF Next, SyncStep

LEMMA NextExcused ==
  ASSUME FilesInv, Keyed, Taken, Applied, DeletionInv, OneBatch, Whole, [Next]_vars, Trimmed'
  PROVE  Excused'
<1>1. CASE Answers
  BY <1>1, AnswerExcused
<1>2. CASE Leaves
  <2> SUFFICES ASSUME NEW i \in DOMAIN server', server'[i].state = "deviceDeleted", server'[i].p \notin removed'
               PROVE  (Good(server[i].p))'
    BY DEF Excused
  <2>1. PICK p : p = server'[i].p
    OBVIOUS
  <2>2. i \in DOMAIN server /\ server[i].p = p /\ server[i].state = "deviceDeleted" /\ p \notin removed
    BY <1>2, <2>1, StaysRemoved DEF Leaves
  <2>3. Good(p)
    BY <2>2 DEF DeletionInv, Excused
  <2>4. Good(p)'
    BY <2>1, <2>3, NextGood
  <2> QED BY <2>1, <2>4 DEF Good
<1> QED
  BY <1>1, <1>2, NextLeaves

\* What the server takes to be here was here, or has just been acknowledged or sent.
LEMMA NextOnDevice ==
  ASSUME FilesInv, Keyed, Taken, Applied, DeletionInv, Whole, [Next]_vars, Trimmed'
  PROVE  OnDevice'
<1> SUFFICES ASSUME NEW i \in DOMAIN server', server'[i].state = "live", server'[i].delivered,
                    server'[i].p \notin removed'
             PROVE  (OffWeb(server[i].p) \/ Shown(server[i].p))'
  BY DEF OnDevice
<1> PICK p : p = server'[i].p
  OBVIOUS
<1>1. OffWeb(p) => OffWeb(p)'
  BY NextOffWeb
<1>2. Shown(p) => Shown(p)' \/ OffWeb(p)
  BY NextShown
<1>3. ASSUME i \in DOMAIN server, server[i].p = p, server[i].state = "live", server[i].delivered
      PROVE  OffWeb(p) \/ Shown(p)
  BY <1>3, StaysRemoved DEF DeletionInv, OnDevice
<1>4. CASE Answers
  <2>1. CASE i \notin DOMAIN server \/ ~server[i].delivered
    <3>1. Shown(p)'
      BY <1>4, <2>1, AnswerShows
    <3> QED BY <3>1 DEF Shown, Here
  <2>2. CASE i \in DOMAIN server /\ server[i].delivered
    <3>1. /\ server[i].p = p
          /\ server'[i].state = server[i].state \/ server'[i].state = "deviceDeleted"
      BY <1>4, <2>2, AnswerStates DEF Answers, FilesInv, Kin
    <3>2. OffWeb(p)' \/ Shown(p)'
      BY <1>1, <1>2, <1>3, <2>2, <3>1
    <3> QED BY <3>2 DEF OffWeb, Shown, Here
  <2> QED BY <2>1, <2>2
<1>5. CASE Leaves
  <2>1. /\ i \in DOMAIN server /\ server[i].p = p /\ server[i].state = "live"
        /\ server[i].delivered \/ Shown(p)
    BY <1>5 DEF Leaves
  <2>2. OffWeb(p)' \/ Shown(p)'
    BY <1>1, <1>2, <1>3, <2>1
  <2> QED BY <2>2 DEF OffWeb, Shown, Here
<1> QED
  BY <1>4, <1>5, NextLeaves

\* A step whose records were here and answered for, are known, or above the watermark.
LEMMA UploadedStays ==
  ASSUME FilesInv, Keyed, Taken, Applied, Uploaded, Whole, [Next]_vars, Leaves,
         \A k \in DOMAIN recs'.list :
           \/ KnownKey(KeyOf(recs'.list[k]))
           \/ ~(recs'.list[k].id <= recs'.watermark) /\ pc' \notin Answered
           \/ /\ \E n \in DOMAIN recs.list : recs'.list[k] = recs.list[n]
              /\ pc \in Answered \/ (recs'.watermark = recs.watermark /\ pc' \notin Answered), Trimmed'
  PROVE  Uploaded'
<1> SUFFICES ASSUME NEW k \in DOMAIN recs'.list, recs'.list[k].p \notin removed',
                    recs'.list[k].id <= recs'.watermark \/ pc' \in Answered
             PROVE  (KnownKey(KeyOf(recs.list[k])) \/ Good(recs.list[k].p))'
  BY DEF Uploaded
<1> PICK r : r = recs'.list[k]
  OBVIOUS
<1>1. KnownKey(KeyOf(r)) => KnownKey(KeyOf(r))'
  BY DEF KnownKey, Leaves
<1>2. Good(r.p) => Good(r.p)'
  BY NextGood
<1>3. KnownKey(KeyOf(r)) \/ Good(r.p)
  <2>1. \/ KnownKey(KeyOf(r))
        \/ ~(r.id <= recs'.watermark) /\ pc' \notin Answered
        \/ /\ \E n \in DOMAIN recs.list : r = recs.list[n]
           /\ pc \in Answered \/ (recs'.watermark = recs.watermark /\ pc' \notin Answered)
    OBVIOUS
  <2>2. r.p \notin removed /\ (r.id <= recs'.watermark \/ pc' \in Answered)
    BY StaysRemoved
  <2>3. ASSUME NEW n \in DOMAIN recs.list, r = recs.list[n], r.id <= recs.watermark \/ pc \in Answered
        PROVE  KnownKey(KeyOf(r)) \/ Good(r.p)
    BY <2>2, <2>3 DEF Uploaded
  <2> QED BY <2>1, <2>2, <2>3
<1>4. KnownKey(KeyOf(r))' \/ Good(r.p)'
  BY <1>1, <1>2, <1>3
<1> QED
  BY <1>4 DEF KnownKey, Good, OffWeb, HeldHere, Held, Here

\* The record of a highlight added is known by its key.
LEMMA AddedIsKnown ==
  ASSUME FilesInv, Keyed, Taken, Applied, ApplyAdd, NEW m, NEW r, Adds(m, r), Trimmed'
  PROVE  KnownKey(KeyOf(r))
<1>1. Typed /\ pc = "apply" /\ ~TheChange.deleted /\ ~Present(TheChange.p) /\ s.next \in DOMAIN s.incoming
  BY ApplyAddDoes DEF FilesInv
<1>2. PICK c : c = s.incoming[s.next] /\ c = TheChange
  BY DEF TheChange
<1>3. /\ c.item \in DOMAIN server /\ server[c.item].p = c.p /\ ~c.deleted
      /\ c.key \in Nat \X Passages /\ s.next \in Nat
  BY <1>1, <1>2, ChangeIs, SyncFields DEF FilesInv, Loaded, Placed, ApplyAdd
<1>4. Ours(c)
  <2>1. s.next >= s.next
    BY <1>3
  <2>2. Ours(s.incoming[s.next]) \/ Safe(s.incoming[s.next].p)
    BY <1>1, <1>2, <1>3, <2>1, Zenon DEF Applied
  <2>3. Ours(c) \/ Safe(c.p)
    BY <1>2, <2>2
  <2>4. Safe(c.p) => Present(c.p)
    BY DEF Safe, Present, Marked
  <2> QED BY <1>1, <1>2, <2>3, <2>4
<1>5. r.id = c.key[1] /\ r.p = c.p
  BY <1>2, Zenon DEF Adds
<1>6. KeyOf(r) = server[c.item].key
  BY <1>3, <1>4, <1>5 DEF Ours, Keyed, KeyOf
<1> QED
  BY <1>3, <1>6 DEF KnownKey

\* Every step, and none.
LEMMA NextUploaded ==
  ASSUME FilesInv, Keyed, Taken, Applied, DeletionInv, OneBatch, Whole, [Next]_vars, Trimmed'
  PROVE  Uploaded'
<1>1. /\ Typed /\ "cut" \notin Faults /\ recs \in RecordFile /\ recs.watermark \in Nat
      /\ pc = "mint" => s.watermark = recs.watermark
  BY SyncFields DEF FilesInv, Whole, Loaded, Early, Typed
<1>2. CASE Answers
  BY <1>2, AnswerUploaded
<1> SUFFICES ASSUME Leaves PROVE Uploaded'
  BY <1>2, NextLeaves
<1>3. Uploaded
  BY DEF DeletionInv
<1>4. CASE recs'.list = recs.list /\ (pc \in Answered \/ (recs'.watermark = recs.watermark /\ pc' \notin Answered))
  BY <1>3, <1>4, UploadedStays
<1>5. CASE Mint
  <2>1. /\ pc' = "mint" /\ pc = "mint"
        /\ recs' = recs \/ \E r : Mints(r) /\ recs' = PutRecord(recs, r)
    BY <1>1, <1>5, MintDoes DEF Cuts
  <2>2. CASE recs' = recs
    BY <1>4, <2>1, <2>2 DEF Answered, Late
  <2>3. ASSUME NEW r, Mints(r), recs' = PutRecord(recs, r) PROVE Uploaded'
    <3>1. r \in Record /\ r.id > recs.watermark /\ r.id \in Nat
      BY <1>1, <2>1, <2>3, FieldTypes DEF Mints
    <3>2. Puts(PutRecord(recs, r), recs, r)
      BY <1>1, <3>1, PutIs
    <3>3. Puts(recs', recs, r)
      BY <2>3, <3>2
    <3>4. /\ recs'.watermark = recs.watermark
          /\ \A k \in DOMAIN recs'.list : recs'.list[k] = r \/ \E n \in DOMAIN recs.list : recs'.list[k] = recs.list[n]
      BY <3>3, Zenon DEF Puts
    <3>5. ~(r.id <= recs'.watermark) /\ pc' \notin Answered
      BY <1>1, <2>1, <3>1, <3>4 DEF Answered, Late
    <3> QED BY <1>3, <3>4, <3>5, UploadedStays
  <2> QED BY <2>1, <2>2, <2>3
<1>6. CASE Retain
  <2>1. Shorter(Kept(recs.list), recs.list, HasMark) /\ pc' \in {"exchange", "idle"}
    BY <1>1, <1>6, RetainDoes DEF Cuts
  <2>2. /\ recs'.watermark = recs.watermark
        /\ recs' = recs \/ recs'.list = Kept(recs.list)
    BY <1>1, <1>6, RetainDoes DEF Cuts
  <2>3. \A k \in DOMAIN Kept(recs.list) : \E n \in DOMAIN recs.list : Kept(recs.list)[k] = recs.list[n]
    BY <2>1, Zenon DEF Shorter
  <2>4. pc' \notin Answered
    BY <2>1 DEF Answered, Late
  <2>5. \A k \in DOMAIN recs'.list : \E n \in DOMAIN recs.list : recs'.list[k] = recs.list[n]
    BY <2>2, <2>3
  <2> QED BY <1>3, <2>2, <2>4, <2>5, UploadedStays
<1>7. CASE ApplyAdd
  <2>1. /\ pc = "apply"
        /\ \E m, r : Adds(m, r) /\ recs' \in {recs, PutRecord(recs, r)}
    BY <1>1, <1>7, ApplyAddDoes DEF Cuts
  <2>2. PICK m, r : Adds(m, r) /\ recs' \in {recs, PutRecord(recs, r)}
    BY <2>1
  <2>3. r \in Record
    BY <2>2, Zenon DEF Adds
  <2>4. KnownKey(KeyOf(r))
    BY <1>7, <2>2, AddedIsKnown
  <2>5. Puts(PutRecord(recs, r), recs, r)
    BY <1>1, <2>3, PutIs
  <2>6. recs' = recs \/ Puts(recs', recs, r)
    BY <2>2, <2>5
  <2>7. \A k \in DOMAIN recs'.list : recs'.list[k] = r \/ \E n \in DOMAIN recs.list : recs'.list[k] = recs.list[n]
    BY <2>6, Zenon DEF Puts
  <2>8. pc \in Answered
    BY <2>1 DEF Answered, Late
  <2> QED BY <1>3, <2>4, <2>7, <2>8, UploadedStays
<1>8. CASE UNCHANGED vars \/ Begin
  <2>1. recs' = recs /\ (pc' = pc \/ pc' = "mint")
    BY <1>1, <1>8, BeginDoes DEF vars
  <2> QED BY <1>4, <2>1 DEF Answered, Late
<1>9. CASE Exchange
  <2>1. recs' = recs /\ (pc' = "idle" \/ server' = Answer)
    BY <1>1, <1>9, ExchangeDoes
  <2> QED BY <1>2, <1>4, <1>9, <2>1 DEF Answers, Answered, Late
<1>10. CASE Pull \/ Advance
  <2>1. pc \in Answered /\ recs'.list = recs.list
    BY <1>1, <1>10, PullDoes, AdvanceDoes DEF Cuts, Answered
  <2> QED BY <1>4, <2>1
<1>11. CASE ApplyDelete \/ ApplyPresent \/ ApplyLater \/ Save \/ Cover \/ Ack
  <2>1. pc \in Late /\ recs'.list = recs.list
    BY <1>1, <1>11, ApplyDeleteDoes, ApplyPresentDoes, ApplyLaterDoes, SaveDoes, CoverDoes, AckDoes DEF Cuts, Late
  <2> QED BY <1>4, <2>1 DEF Answered
<1>12. CASE PowerCut \/ Reader
  <2>1. recs' = recs /\ pc' = "idle"
    BY <1>1, <1>12, PowerCutDoes, MarkPassageDoes, RemoveMarkDoes DEF Reader
  <2> QED BY <1>4, <2>1 DEF Answered, Late
<1>13. CASE Web
  <2>1. recs' = recs /\ pc' = pc
    BY <1>1, <1>13, WebAddDoes, WebDeleteDoes DEF Web
  <2> QED BY <1>4, <2>1
<1> QED
  BY <1>5, <1>6, <1>7, <1>8, <1>9, <1>10, <1>11, <1>12, <1>13 DEF Next, SyncStep, Apply

LEMMA AlwaysDeleted ==
  ASSUME Faults \cap {"cut", "torn"} = {}
  PROVE  Spec /\ []OneBatch => [](Trimmed => DeletionInv)
<1>1. Init => DeletionInv
  <2> SUFFICES ASSUME Init PROVE DeletionInv
    OBVIOUS
  <2>1. DOMAIN recs.list = {} /\ DOMAIN server = {}
    BY EmptySeq DEF Init, NoRecordFile
  <2> QED BY <2>1 DEF DeletionInv, Excused, OnDevice, Uploaded
<1>2. Basic /\ (Trimmed => FilesInv /\ AckInv) /\ OneBatch /\ (Trimmed => DeletionInv) /\ [Next]_vars
        => (Trimmed => DeletionInv)'
  <2> SUFFICES ASSUME Basic, Trimmed => FilesInv /\ AckInv, OneBatch, Trimmed => DeletionInv,
                      [Next]_vars, Trimmed'
               PROVE  DeletionInv'
    OBVIOUS
  <2>1. FilesInv /\ Keyed /\ Taken /\ Applied /\ Whole /\ DeletionInv
    BY NextTrimmed DEF Basic, AckInv, Whole
  <2>2. Excused' /\ OnDevice' /\ Uploaded'
    BY <2>1, NextExcused, NextOnDevice, NextUploaded
  <2> QED BY <2>2 DEF DeletionInv
<1> QED
  BY <1>1, <1>2, AlwaysBasic, AlwaysAcked, PTL DEF Spec

\* Where no file is cut short by the power, and while the records are trimmed (retain()
\* has not failed, nor a failing card cut their file short) and no sync has more to send
\* than a batch carries: the server takes no highlight for deleted on this device that
\* its reader did not remove, whichever requests and minted positions fail, or writes
\* that leave the file as it was, and wherever else the power does (syncHighlights' test
\* for a complete key set, BookOrbitSyncExtras.cpp).
THEOREM DeletionsAreAlwaysTheReaders ==
  ASSUME Faults \cap {"cut", "torn"} = {}
  PROVE  Spec /\ []OneBatch => []DeletionsAreTheReaders
<1>1. (Trimmed => DeletionInv) => DeletionsAreTheReaders
  <2> SUFFICES ASSUME Excused, NEW i \in DOMAIN server, server[i].state = "deviceDeleted",
                      server[i].p \notin removed
               PROVE  \E j \in DOMAIN server : server[j].p = server[i].p /\ server[j].state # "deviceDeleted"
    BY DEF DeletionInv, DeletionsAreTheReaders
  <2>1. Good(server[i].p)
    BY DEF Excused
  <2> QED BY <2>1 DEF Good, OffWeb, HeldHere
<1> QED
  BY <1>1, AlwaysDeleted, PTL

=============================================================================
