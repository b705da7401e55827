---------------------- MODULE ReadingStatsStoreRefinement ----------------------
(***************************************************************************)
(* The store implements the atomic history of StatsHistory, for any books, *)
(* cap, session lengths, clock and older JSON: each call, each failure and *)
(* each loss of power leaves the history before it or after it; a slot     *)
(* that goes bad costs one book what only the slot held.  From the same    *)
(* argument, the rows of an index that is not stale are its books, and an  *)
(* import keeps what the cap would keep.                                   *)
(***************************************************************************)
EXTENDS ReadingStatsStoreProofs

\* The history a meta tells over a file.
Told(f, m) == [books |-> [b \in Books |-> BookIn(f, m, b)], totals |-> m.totals]

KeysAreBooks(m) == \A i \in Used(m.dir) : m.dir[i].key \in Books

\* The history of a file is the one its live meta tells.
LEMMA HistoryIsTold ==
  ASSUME NEW f \in File
  PROVE  HistoryOf(f) = Told(f, LiveMeta(f))
BY LiveMetaType DEF HistoryOf, HistoryIn, Told

\* The directory finds a book by its entry, and the entry is as good as the book,
\* which reads from the entry where the slot has gone bad.
LEMMA BookOfEntry ==
  ASSUME NEW f \in File, NEW m \in Meta, IntactBut(Slots, f, m), NEW i \in Used(m.dir)
  PROVE  LET b == ReadBook(f, m.dir[i])
         IN /\ Find(m.dir, m.dir[i].key) = i
            /\ BookIn(f, m, m.dir[i].key) = b
            /\ b.known /\ m.dir[i].secs = b.secs /\ m.dir[i].last = b.last
<1> DEFINE dir == m.dir
<1> DEFINE image == f.slot[dir[i].slot]
<1>1. dir \in Directory
  BY DEF Meta
<1>2. /\ \/ /\ image.sound /\ image.key = dir[i].key /\ image.val.known
            /\ dir[i] = EntryFor(dir[i].key, image.val, dir[i].slot)
         \/ ~image.sound
      /\ \A a, b \in Used(dir) : a # b => dir[a].key # dir[b].key
  BY DEF IntactBut
<1>3. Find(dir, dir[i].key) = i
  BY <1>1, <1>2, FindEntry
<1>4. i # NoEntry
  BY <1>1, UsedIsSubset DEF Entries, NoEntry
<1>5. BookIn(f, m, dir[i].key) = ReadBook(f, dir[i])
  BY <1>3, <1>4 DEF BookIn
<1>6. CASE ~image.sound
  <2>1. ReadBook(f, dir[i]) = BookFromEntry(dir[i])
    BY <1>6 DEF ReadBook
  <2> QED
    BY <1>3, <1>5, <2>1 DEF BookFromEntry
<1>7. CASE image.sound /\ image.key = dir[i].key /\ image.val.known
           /\ dir[i] = EntryFor(dir[i].key, image.val, dir[i].slot)
  <2>1. ReadBook(f, dir[i]) = image.val
    BY <1>7 DEF ReadBook
  <2>2. dir[i].secs = image.val.secs /\ dir[i].last = image.val.last
    <3>1. PICK e, v : e = dir[i] /\ v = image.val /\ e = EntryFor(e.key, v, e.slot)
      BY <1>7
    <3>2. e.secs = v.secs /\ e.last = v.last
      BY <3>1 DEF EntryFor
    <3> QED BY <3>1, <3>2
  <2> QED
    BY <1>3, <1>5, <1>7, <2>1, <2>2
<1> QED
  BY <1>2, <1>6, <1>7

\* A book is known exactly when the directory has it.
LEMMA NoEntryNoBook ==
  ASSUME NEW f \in File, NEW m \in Meta, NEW k, \A i \in Used(m.dir) : m.dir[i].key # k
  PROVE  Find(m.dir, k) = NoEntry /\ BookIn(f, m, k) = NewBook /\ ~NewBook.known
<1>1. m.dir \in Directory
  BY DEF Meta
<1>2. Find(m.dir, k) = NoEntry
  BY <1>1, FindEntry
<1> QED
  BY <1>2 DEF BookIn, NewBook

\* Metas with the same directory over the same slots tell the same books.
LEMMA SameBooks ==
  ASSUME NEW f \in File, NEW g \in File, NEW m \in Meta, NEW n \in Meta, m.dir = n.dir,
         \A i \in Used(m.dir) : f.slot[m.dir[i].slot] = g.slot[m.dir[i].slot]
  PROVE  \A k : BookIn(f, m, k) = BookIn(g, n, k)
<1> SUFFICES ASSUME NEW k PROVE BookIn(f, m, k) = BookIn(g, n, k)
  OBVIOUS
<1>1. m.dir \in Directory
  BY DEF Meta
<1>2. CASE Find(m.dir, k) = NoEntry
  BY <1>2 DEF BookIn
<1>3. CASE Find(m.dir, k) # NoEntry
  <2>1. Find(m.dir, k) \in Used(m.dir)
    BY <1>1, <1>3, FindEntry
  <2> QED
    BY <1>3, <2>1 DEF BookIn, ReadBook
<1> QED BY <1>2, <1>3

\* One book is written into a slot no other entry refers to and entered at i, in place
\* of what was there.
CanPut(f, m, k, book, i, s) ==
  /\ f \in File /\ m \in Meta /\ IntactBut(Slots, f, m)
  /\ k \in Books /\ book \in BookVal /\ book.known
  /\ i \in Entries /\ s \in Slots
  /\ \A j \in Used(m.dir) \ {i} : m.dir[j].slot # s /\ m.dir[j].key # k

SlotPut(f, k, book, s) == [f EXCEPT !.slot[s] = [key |-> k, val |-> book, sound |-> TRUE]]
EntryPut(m, k, book, i, s) == [m EXCEPT !.dir[i] = EntryFor(k, book, s)]

\* Then the book is told as written, the one it replaced is gone, the others stay.
LEMMA PutTells ==
  ASSUME NEW f, NEW m, NEW k, NEW book, NEW i, NEW s, CanPut(f, m, k, book, i, s)
  PROVE  \A b \in Books :
           BookIn(SlotPut(f, k, book, s), EntryPut(m, k, book, i, s), b) =
             IF b = k THEN book
             ELSE IF i \in Used(m.dir) /\ b = m.dir[i].key THEN NewBook
             ELSE BookIn(f, m, b)
<1> USE DEF CanPut
<1> DEFINE g == SlotPut(f, k, book, s)
<1> DEFINE n == EntryPut(m, k, book, i, s)
<1>g. g = [f EXCEPT !.slot[s] = [key |-> k, val |-> book, sound |-> TRUE]]
  BY DEF SlotPut
<1>n. n = [m EXCEPT !.dir[i] = EntryFor(k, book, s)]
  BY DEF EntryPut
<1> HIDE DEF g, n
<1> DEFINE image == [key |-> k, val |-> book, sound |-> TRUE]
<1>1. IntactBut(Slots, g, n)
  <2>1. IntactBut(Slots, [f EXCEPT !.slot[s] = image], [m EXCEPT !.dir[i] = EntryFor(k, book, s)])
    BY PutIsIntact
  <2> QED BY <2>1, <1>g, <1>n
<1>2. image \in SlotImage /\ g \in File /\ g.slot = [f.slot EXCEPT ![s] = image]
  <2>1. image \in SlotImage
    BY DEF SlotImage
  <2>2. g \in File
    BY <2>1, <1>g, FileUpdates, ConstantTypes
  <2>3. g.slot = [f.slot EXCEPT ![s] = image]
    BY <2>1, <1>g, FileUpdates, ConstantTypes
  <2> QED BY <2>1, <2>2, <2>3
<1>3. EntryFor(k, book, s) \in Entry /\ s \in 0 .. NoSlot /\ s # NoSlot
  <2>1. s \in 0 .. NoSlot /\ s # NoSlot
    BY CapAssumption DEF Slots, NoSlot
  <2> QED BY <2>1, EntryForType
<1>4. m.dir \in Directory /\ n \in Meta /\ n.dir = [m.dir EXCEPT ![i] = EntryFor(k, book, s)]
  BY <1>3, <1>n DEF Meta, Directory
<1>5. f.slot \in [Slots -> SlotImage] /\ g.slot[s] = image
      /\ \A t \in Slots \ {s} : g.slot[t] = f.slot[t]
  BY <1>2 DEF File
<1>6. n.dir[i] = EntryFor(k, book, s) /\ \A j \in Entries \ {i} : n.dir[j] = m.dir[j]
  BY <1>4 DEF Directory
<1>7. i \in Used(n.dir) /\ n.dir[i].key = k /\ n.dir[i].slot = s
  BY <1>3, <1>6 DEF Used, EntryFor
<1>8. Used(n.dir) \ {i} = Used(m.dir) \ {i}
  BY <1>6 DEF Used
<1>a. \A j \in Used(n.dir) : BookIn(g, n, n.dir[j].key) = ReadBook(g, n.dir[j])
  <2>1. g \in File /\ n \in Meta /\ IntactBut(Slots, g, n)
    BY <1>1, <1>2, <1>4
  <2> QED BY <2>1, BookOfEntry
<1>b. \A j \in Used(m.dir) : BookIn(f, m, m.dir[j].key) = ReadBook(f, m.dir[j])
  BY BookOfEntry
<1> SUFFICES ASSUME NEW b \in Books
             PROVE  BookIn(g, n, b) = IF b = k THEN book
                                      ELSE IF i \in Used(m.dir) /\ b = m.dir[i].key THEN NewBook
                                      ELSE BookIn(f, m, b)
  BY DEF g, n
<1>9. CASE b = k
  <2>1. BookIn(g, n, k) = ReadBook(g, n.dir[i])
    BY <1>7, <1>a
  <2>2. ReadBook(g, n.dir[i]) = book
    BY <1>5, <1>7 DEF ReadBook
  <2> QED BY <1>9, <2>1, <2>2
<1>10. CASE b # k /\ \E j \in Used(n.dir) : n.dir[j].key = b
  <2>1. PICK j \in Used(n.dir) : n.dir[j].key = b
    BY <1>10
  <2>2. j # i /\ j \in Used(m.dir) /\ n.dir[j] = m.dir[j]
    BY <1>4, <1>6, <1>7, <1>8, <1>10, <2>1, UsedIsSubset
  <2>3. BookIn(g, n, b) = ReadBook(g, m.dir[j])
    BY <1>a, <2>1, <2>2
  <2>4. BookIn(f, m, b) = ReadBook(f, m.dir[j])
    BY <1>b, <2>1, <2>2
  <2>5. m.dir[j].slot \in Slots \ {s}
    BY <1>4, <2>2, UsedIsSubset
  <2>6. ~(i \in Used(m.dir) /\ b = m.dir[i].key)
    BY <2>1, <2>2 DEF IntactBut
  <2>7. ReadBook(g, m.dir[j]) = ReadBook(f, m.dir[j])
    BY <1>5, <2>5 DEF ReadBook
  <2> QED BY <1>10, <2>3, <2>4, <2>6, <2>7
<1>11. CASE b # k /\ \A j \in Used(n.dir) : n.dir[j].key # b
  <2>1. BookIn(g, n, b) = NewBook
    <3>1. g \in File /\ n \in Meta
      BY <1>2, <1>4
    <3> QED BY <1>11, <3>1, NoEntryNoBook
  <2>2. CASE i \in Used(m.dir) /\ b = m.dir[i].key
    BY <1>11, <2>1, <2>2
  <2>3. CASE ~(i \in Used(m.dir) /\ b = m.dir[i].key)
    <3>1. \A j \in Used(m.dir) : m.dir[j].key # b
      BY <1>4, <1>6, <1>8, <1>11, <2>3, UsedIsSubset
    <3>2. BookIn(f, m, b) = NewBook
      BY <3>1, NoEntryNoBook
    <3> QED BY <1>11, <2>1, <2>3, <3>2
  <2> QED BY <2>2, <2>3
<1> QED BY <1>9, <1>10, <1>11

\* As many books are known as entries are used: a full directory is a full history.
LEMMA KnownBooks ==
  ASSUME NEW f \in File, NEW m \in Meta, IntactBut(Slots, f, m), KeysAreBooks(m)
  PROVE  LET known == {b \in Books : BookIn(f, m, b).known}
         IN /\ known = {m.dir[i].key : i \in Used(m.dir)}
            /\ FreeEntry(m.dir) = NoEntry => Cardinality(known) = Cap
            /\ FreeEntry(m.dir) # NoEntry => Cardinality(known) < Cap
<1> DEFINE known == {b \in Books : BookIn(f, m, b).known}
<1> DEFINE used == Used(m.dir)
<1>1. m.dir \in Directory /\ used \subseteq Entries
  BY UsedIsSubset DEF Meta
<1>2. ASSUME NEW i \in used PROVE m.dir[i].key \in known /\ Find(m.dir, m.dir[i].key) = i
  <2>1. m.dir[i].key \in Books
    BY DEF KeysAreBooks
  <2>2. BookIn(f, m, m.dir[i].key) = ReadBook(f, m.dir[i])
        /\ ReadBook(f, m.dir[i]).known /\ Find(m.dir, m.dir[i].key) = i
    BY BookOfEntry
  <2> QED BY <2>1, <2>2
<1>3. ASSUME NEW b \in known PROVE Find(m.dir, b) \in used /\ m.dir[Find(m.dir, b)].key = b
  <2>1. ASSUME \A i \in used : m.dir[i].key # b PROVE FALSE
    BY <1>3, <2>1, NoEntryNoBook
  <2> QED BY <1>1, <2>1, FindEntry
<1>4. known = {m.dir[i].key : i \in used}
  BY <1>2, <1>3
<1>5. IsFiniteSet(Entries) /\ Cardinality(Entries) = Cap
  BY FS_Interval, CapAssumption DEF Entries
<1>6. /\ IsFiniteSet(used) /\ Cardinality(used) <= Cap
      /\ Cardinality(used) = Cap => used = Entries
  BY <1>1, <1>5, FS_Subset
<1>7. IsFiniteSet(known) /\ Cardinality(known) <= Cardinality(used)
  <2> DEFINE key == [i \in used |-> m.dir[i].key]
  <2>1. key \in Surjection(used, known)
    BY <1>2, <1>3 DEF Surjection
  <2> HIDE DEF key
  <2> QED BY <1>6, <2>1, FS_Surjection
<1>8. Cardinality(used) <= Cardinality(known)
  <2> DEFINE at == [b \in known |-> Find(m.dir, b)]
  <2>1. at \in Surjection(known, used)
    BY <1>2, <1>3 DEF Surjection
  <2> HIDE DEF at
  <2> QED BY <1>7, <2>1, FS_Surjection
<1>9. Cardinality(known) \in Nat /\ Cardinality(used) \in Nat
  BY <1>6, <1>7, FS_CardinalityType
<1>10. Cardinality(known) = Cardinality(used)
  BY <1>7, <1>8, <1>9
<1>11. FreeEntry(m.dir) = NoEntry => used = Entries
  <2>1. NoEntry \notin Entries
    BY CapAssumption DEF Entries, NoEntry
  <2> QED BY <1>1, <2>1, FreeEntryIsFree
<1>12. FreeEntry(m.dir) # NoEntry => used # Entries
  BY <1>1, FreeEntryIsFree
<1>13. FreeEntry(m.dir) = NoEntry => Cardinality(known) = Cap
  BY <1>5, <1>10, <1>11
<1>14. FreeEntry(m.dir) # NoEntry => Cardinality(known) < Cap
  <2>1. FreeEntry(m.dir) # NoEntry => Cardinality(used) # Cap
    BY <1>6, <1>12
  <2> QED BY <1>6, <1>9, <1>10, <2>1, CapAssumption
<1> QED
  BY <1>4, <1>13, <1>14

-----------------------------------------------------------------------------
(* What a request does to the history that is told.                        *)

\* Both modules take the arithmetic from ReadingHistory.
LEMMA SameArithmetic ==
  /\ \A book, r : Abstract!Merged(book, r) = Merged(book, r)
  /\ \A totals, r : Abstract!Added(totals, r) = Added(totals, r)
  /\ \A totals, book : Abstract!TakenOut(totals, book) = TakenOut(totals, book)
  /\ Abstract!NewBook = NewBook /\ Abstract!NoReq = NoReq /\ Abstract!Requests = Requests
  /\ Abstract!EmptyHistory = EmptyHistory /\ Abstract!History = History
  /\ \A S : Abstract!Cardinality(S) = Cardinality(S)
<1>1. \A book, r : Abstract!Merged(book, r) = Merged(book, r)
  BY DEF Abstract!Merged, Merged, Abstract!Larger, Larger
<1>2. \A totals, r : Abstract!Added(totals, r) = Added(totals, r)
  BY DEF Abstract!Added, Added
<1>3. \A totals, book : Abstract!TakenOut(totals, book) = TakenOut(totals, book)
  BY DEF Abstract!TakenOut, TakenOut, Abstract!Smaller, Smaller
<1>4. Abstract!NewBook = NewBook /\ Abstract!NoReq = NoReq
  BY DEF Abstract!NewBook, NewBook, Abstract!NoReq, NoReq
<1>5. Abstract!Requests = Requests
  BY DEF Abstract!Requests, Requests
<1>6. Abstract!EmptyHistory = EmptyHistory
  BY <1>4 DEF Abstract!EmptyHistory, EmptyHistory, Abstract!NoTotals, NoTotals
<1>7. Abstract!History = History
  BY DEF Abstract!History, History, Abstract!BookVal, BookVal, Abstract!Totals, Totals
<1>8. \A S : Abstract!Cardinality(S) = Cardinality(S)
  BY DEF Abstract!Cardinality, Cardinality
<1> QED BY <1>1, <1>2, <1>3, <1>4, <1>5, <1>6, <1>7, <1>8

\* A book without an entry is under no used one.
LEMMA NoEntryIsNowhere ==
  ASSUME NEW dir \in Directory, NEW k, Find(dir, k) = NoEntry
  PROVE  \A j \in Used(dir) : dir[j].key # k
<1>1. NoEntry \notin Used(dir)
  BY UsedIsSubset DEF Entries, NoEntry
<1> QED BY <1>1, FindEntry

\* Where WriteSlot enters the book.
PlaceFor(dir, k) ==
  IF Find(dir, k) # NoEntry THEN Find(dir, k)
  ELSE IF FreeEntry(dir) # NoEntry THEN FreeEntry(dir)
  ELSE Victim(dir)

\* That is the book's own entry, a free one, or the victim of a full directory.
LEMMA PlaceIsRight ==
  ASSUME NEW dir \in Directory, NEW k
  PROVE  /\ PlaceFor(dir, k) \in Entries
         /\ \A j \in Used(dir) \ {PlaceFor(dir, k)} : Find(dir, k) = NoEntry => dir[j].key # k
         /\ PlaceFor(dir, k) \in Used(dir) =>
              \/ Find(dir, k) = PlaceFor(dir, k)
              \/ Find(dir, k) = NoEntry /\ FreeEntry(dir) = NoEntry /\ PlaceFor(dir, k) = Victim(dir)
         /\ Find(dir, k) = NoEntry /\ FreeEntry(dir) = NoEntry =>
              /\ PlaceFor(dir, k) \in Used(dir)
              /\ \A j \in Used(dir) : ~EvictsBefore(dir[j], dir[Victim(dir)])
<1> DEFINE at == Find(dir, k)
<1> DEFINE free == FreeEntry(dir)
<1>0. 1 \in Entries
  BY CapAssumption DEF Entries
<1>1. Used(dir) \subseteq Entries
  BY UsedIsSubset
<1>2. at # NoEntry => at \in Used(dir)
  BY FindEntry
<1>3. at = NoEntry => \A j \in Used(dir) : dir[j].key # k
  BY NoEntryIsNowhere
<1>4. free # NoEntry => free \in Entries \ Used(dir)
  BY FreeEntryIsFree
<1>5. free = NoEntry => Used(dir) = Entries
  <2>1. NoEntry \notin Entries
    BY DEF Entries, NoEntry
  <2> QED BY <2>1, FreeEntryIsFree
<1>6. free = NoEntry => /\ Victim(dir) \in Used(dir)
                       /\ \A j \in Used(dir) : ~EvictsBefore(dir[j], dir[Victim(dir)])
  BY <1>0, <1>5, VictimIsUsed
<1> HIDE DEF at, free
<1>7. PlaceFor(dir, k) = IF at # NoEntry THEN at ELSE IF free # NoEntry THEN free ELSE Victim(dir)
  BY DEF PlaceFor, at, free
<1>8. CASE at # NoEntry
  BY <1>1, <1>2, <1>7, <1>8 DEF at, free
<1>9. CASE at = NoEntry /\ free # NoEntry
  BY <1>3, <1>4, <1>7, <1>9 DEF at, free
<1>10. CASE at = NoEntry /\ free = NoEntry
  BY <1>1, <1>3, <1>6, <1>7, <1>10 DEF at, free
<1> QED BY <1>8, <1>9, <1>10

\* The histories a session or a finish may leave.
LEMMA EffectsOfPut ==
  ASSUME NEW h, NEW r, r.op \in {"session", "finish"}
  PROVE  Abstract!Effects(h, r) =
           IF h.books[r.key].known THEN {Abstract!Put(h, r)}
           ELSE IF r.op = "session" /\ r.secs = 0 THEN {h}
           ELSE IF Cardinality(Abstract!Known(h)) < Cap THEN {Abstract!Put(h, r)}
           ELSE {Abstract!Put(Abstract!Without(h, v), r) : v \in Abstract!Victims(h)}
<1>1. r.op # "remove"
  OBVIOUS
<1> QED BY <1>1, SameArithmetic DEF Abstract!Effects

\* The session or finish, when its book has been written and entered.
LEMMA PutHasItsEffect ==
  ASSUME NEW f \in File, NEW m \in Meta, IntactBut(Slots, f, m), KeysAreBooks(m),
         NEW r \in Requests, r.op \in {"session", "finish"},
         ~(r.op = "session" /\ r.secs = 0 /\ Find(m.dir, r.key) = NoEntry),
         NEW n \in Meta, n.totals = Added(m.totals, r),
         n.dir = [m.dir EXCEPT ![PlaceFor(m.dir, r.key)] =
                    EntryFor(r.key, Merged(BookIn(f, m, r.key), r), FreeSlot(m.dir))]
  PROVE  LET g == SlotPut(f, r.key, Merged(BookIn(f, m, r.key), r), FreeSlot(m.dir))
         IN Told(g, n) \in Abstract!Effects(Told(f, m), r) /\ KeysAreBooks(n)
<1> DEFINE k == r.key
<1> DEFINE i == PlaceFor(m.dir, k)
<1> DEFINE s == FreeSlot(m.dir)
<1> DEFINE book == Merged(BookIn(f, m, k), r)
<1> DEFINE g == SlotPut(f, k, book, s)
<1> DEFINE h == Told(f, m)
<1> DEFINE p == EntryPut(m, k, book, i, s)
<1>1. k \in Books /\ m.dir \in Directory
  BY RequestFields DEF Meta
<1>2. book \in BookVal /\ book.known
  <2>1. BookIn(f, m, k) \in BookVal
    BY <1>1, BookTypes
  <2> QED BY <2>1, ConstantTypes, ArithmeticTypes
<1>3. s \in Slots /\ \A j \in Used(m.dir) : m.dir[j].slot # s
  BY <1>1, SpareSlotExists
<1>4. i \in Entries /\ \A j \in Used(m.dir) \ {i} : m.dir[j].key # k
  <2>1. CASE Find(m.dir, k) = NoEntry
    BY <1>1, <2>1, PlaceIsRight
  <2>2. CASE Find(m.dir, k) # NoEntry
    <3>1. i = Find(m.dir, k) /\ i \in Used(m.dir) /\ m.dir[i].key = k
      BY <1>1, <2>2, FindEntry DEF PlaceFor
    <3> QED BY <1>1, <3>1, UsedIsSubset DEF IntactBut
  <2> QED BY <2>1, <2>2
<1>5. \A b \in Books : BookIn(g, p, b) = IF b = k THEN book
                                       ELSE IF i \in Used(m.dir) /\ b = m.dir[i].key THEN NewBook
                                       ELSE BookIn(f, m, b)
  <2>1. CanPut(f, m, k, book, i, s)
    BY <1>1, <1>2, <1>3, <1>4 DEF CanPut
  <2> QED BY <2>1, PutTells
<1>6. EntryFor(k, book, s) \in Entry
  <2>1. s \in 0 .. NoSlot
    BY <1>3, CapAssumption DEF Slots, NoSlot
  <2> QED BY <1>1, <1>2, <2>1, EntryForType
<1>7. p \in Meta /\ p.dir = n.dir
  BY <1>1, <1>6 DEF Meta, Directory, EntryPut
<1>8. g \in File
  <2> DEFINE image == [key |-> k, val |-> book, sound |-> TRUE]
  <2>1. image \in SlotImage
    BY <1>1, <1>2 DEF SlotImage
  <2> HIDE DEF image
  <2>2. [f EXCEPT !.slot[s] = image] \in File
    BY <2>1, FileUpdates, ConstantTypes
  <2> QED BY <2>2 DEF image, SlotPut
<1> HIDE DEF g, p
<1>9. \A b : BookIn(g, n, b) = BookIn(g, p, b)
  BY <1>7, <1>8, SameBooks
<1>10. KeysAreBooks(n)
  <2>1. n.dir[i] = EntryFor(k, book, s) /\ \A j \in Entries \ {i} : n.dir[j] = m.dir[j]
    BY <1>1, <1>4 DEF Directory
  <2>2. n.dir[i].key = k
    BY <2>1 DEF EntryFor
  <2>3. \A j \in Used(n.dir) \ {i} : j \in Used(m.dir) /\ n.dir[j] = m.dir[j]
    BY <2>1 DEF Used
  <2> QED BY <1>1, <2>2, <2>3 DEF KeysAreBooks
<1> HIDE DEF i, s, book
<1>11. h.books = [b \in Books |-> BookIn(f, m, b)] /\ h.totals = m.totals
  BY DEF Told
<1>12. Told(g, n) = [books |-> [b \in Books |-> BookIn(g, p, b)], totals |-> Added(h.totals, r)]
  BY <1>9, <1>11 DEF Told
<1> DEFINE told == Told(g, n)
<1> HIDE DEF h, told
<1>13. CASE h.books[k].known
  <2>1. i = Find(m.dir, k) /\ i \in Used(m.dir) /\ m.dir[i].key = k
    <3>1. Find(m.dir, k) # NoEntry
      <4>1. Find(m.dir, k) = NoEntry => BookIn(f, m, k) = NewBook
        BY DEF BookIn
      <4>2. h.books[k] = BookIn(f, m, k) /\ ~NewBook.known
        BY <1>1, <1>11 DEF NewBook
      <4> QED BY <1>13, <4>1, <4>2
    <3> QED BY <1>1, <3>1, FindEntry DEF PlaceFor, i
  <2>2. \A b \in Books : BookIn(g, p, b) = IF b = k THEN book ELSE h.books[b]
    BY <1>5, <1>11, <2>1 DEF i, s, book
  <2>3. [b \in Books |-> BookIn(g, p, b)] = [h.books EXCEPT ![k] = book]
    BY <1>1, <1>11, <2>2
  <2>4. book = Merged(h.books[k], r)
    BY <1>1, <1>11 DEF book
  <2>5. told = [books |-> [h.books EXCEPT ![k] = Merged(h.books[k], r)],
                totals |-> Added(h.totals, r)]
    BY <1>12, <2>3, <2>4 DEF told
  <2>6. told = Abstract!Put(h, r)
    BY <2>5, SameArithmetic, Zenon DEF Abstract!Put
  <2>7. told \in Abstract!Effects(h, r)
    BY <1>13, <2>6, EffectsOfPut
  <2> QED BY <1>10, <2>7 DEF told, h, g, s, book
<1>14. CASE ~h.books[k].known
  <2>1. Find(m.dir, k) = NoEntry
    <3>1. Find(m.dir, k) # NoEntry => Find(m.dir, k) \in Used(m.dir) /\ m.dir[Find(m.dir, k)].key = k
      BY <1>1, FindEntry
    <3>2. Find(m.dir, k) # NoEntry => BookIn(f, m, k).known
      BY <3>1, BookOfEntry
    <3> QED BY <1>1, <1>11, <1>14, <3>2
  <2> DEFINE known == {b \in Books : BookIn(f, m, b).known}
  <2>2. Abstract!Known(h) = known
    BY <1>11 DEF Abstract!Known
  <2>3. /\ known = {m.dir[j].key : j \in Used(m.dir)}
        /\ FreeEntry(m.dir) = NoEntry => Cardinality(known) = Cap
        /\ FreeEntry(m.dir) # NoEntry => Cardinality(known) < Cap
    BY KnownBooks
  <2> HIDE DEF known
  <2>4. ~(r.op = "session" /\ r.secs = 0)
    BY <2>1
  <2>5. CASE FreeEntry(m.dir) # NoEntry
    <3>1. i \notin Used(m.dir)
      BY <1>1, <2>1, <2>5, FreeEntryIsFree DEF PlaceFor, i
    <3>2. \A b \in Books : BookIn(g, p, b) = IF b = k THEN book ELSE h.books[b]
      BY <1>5, <1>11, <3>1 DEF i, s, book
    <3>3. [b \in Books |-> BookIn(g, p, b)] = [h.books EXCEPT ![k] = book]
      BY <1>1, <1>11, <3>2
    <3>4. book = Merged(h.books[k], r)
      BY <1>1, <1>11 DEF book
    <3>5. told = [books |-> [h.books EXCEPT ![k] = Merged(h.books[k], r)],
                  totals |-> Added(h.totals, r)]
      BY <1>12, <3>3, <3>4 DEF told
    <3>6. told = Abstract!Put(h, r)
      BY <3>5, SameArithmetic, Zenon DEF Abstract!Put
    <3>7. Cardinality(Abstract!Known(h)) < Cap
      BY <2>2, <2>3, <2>5
    <3>8. Abstract!Effects(h, r) = {Abstract!Put(h, r)}
      BY <1>14, <2>4, <3>7, EffectsOfPut
    <3>9. told \in Abstract!Effects(h, r)
      BY <3>6, <3>8
    <3> QED BY <1>10, <3>9 DEF told, h, g, s, book
  <2>6. CASE FreeEntry(m.dir) = NoEntry
    <3> DEFINE v == m.dir[i].key
    <3>1. /\ i = Victim(m.dir) /\ i \in Used(m.dir)
          /\ \A j \in Used(m.dir) : ~EvictsBefore(m.dir[j], m.dir[i])
      BY <1>1, <2>1, <2>6, PlaceIsRight DEF PlaceFor, i
    <3>2. v \in known /\ v # k /\ v \in Books
      <4>1. v # k
        BY <1>1, <2>1, <3>1, NoEntryIsNowhere
      <4> QED BY <2>3, <3>1, <4>1 DEF KeysAreBooks
    <3>3. v \in Abstract!Victims(h)
      <4>1. \A j \in Used(m.dir) : LET b == h.books[m.dir[j].key]
                                   IN m.dir[j].secs = b.secs /\ m.dir[j].last = b.last
        BY <1>11, BookOfEntry DEF KeysAreBooks
      <4>2. ASSUME NEW c \in known PROVE ~Abstract!EvictsBefore(h.books[c], h.books[v])
        <5>1. PICK j \in Used(m.dir) : m.dir[j].key = c
          BY <2>3
        <5>2. ~EvictsBefore(m.dir[j], m.dir[i])
          BY <3>1
        <5> QED BY <3>1, <4>1, <5>1, <5>2 DEF EvictsBefore, Abstract!EvictsBefore
      <4> QED BY <2>2, <3>2, <4>2 DEF Abstract!Victims
    <3> DEFINE w == [h EXCEPT !.books[v] = NewBook]
    <3>4. w = [books |-> [h.books EXCEPT ![v] = NewBook], totals |-> h.totals]
      <4> HIDE DEF v
      <4>1. h = [books |-> h.books, totals |-> h.totals]
        BY DEF h, Told
      <4> QED BY <4>1
    <3>5. \A b \in Books : BookIn(g, p, b) = IF b = k THEN book ELSE w.books[b]
      BY <1>5, <1>11, <3>1, <3>2, <3>4 DEF i, s, book
    <3>6. w.books = [b \in Books |-> IF b = v THEN NewBook ELSE h.books[b]] /\ w.totals = h.totals
      BY <1>11, <3>4
    <3> HIDE DEF v, w
    <3>7. [b \in Books |-> BookIn(g, p, b)] = [w.books EXCEPT ![k] = book]
      BY <1>1, <3>5, <3>6
    <3>8. book = Merged(w.books[k], r)
      BY <1>1, <1>11, <3>2, <3>6 DEF book
    <3>9. told = [books |-> [w.books EXCEPT ![k] = Merged(w.books[k], r)],
                  totals |-> Added(w.totals, r)]
      BY <1>12, <3>6, <3>7, <3>8 DEF told
    <3>10. told = Abstract!Put(w, r)
      BY <3>9, SameArithmetic, Zenon DEF Abstract!Put
    <3>11. w = Abstract!Without(h, v)
      BY SameArithmetic DEF Abstract!Without, w
    <3>12. told \in {Abstract!Put(Abstract!Without(h, u), r) : u \in Abstract!Victims(h)}
      BY <3>3, <3>10, <3>11
    <3>13. ~(Cardinality(Abstract!Known(h)) < Cap)
      BY <2>2, <2>3, <2>6, CapAssumption
    <3>14. Abstract!Effects(h, r) =
             {Abstract!Put(Abstract!Without(h, u), r) : u \in Abstract!Victims(h)}
      BY <1>14, <2>4, <3>13, EffectsOfPut
    <3>15. told \in Abstract!Effects(h, r)
      BY <3>12, <3>14
    <3> QED BY <1>10, <3>15 DEF told, h, g, s, book
  <2> QED BY <2>5, <2>6
<1> QED BY <1>13, <1>14

\* The removal, when the book's entry has been cleared.
LEMMA RemoveHasItsEffect ==
  ASSUME NEW f \in File, NEW m \in Meta, IntactBut(Slots, f, m), KeysAreBooks(m),
         NEW r \in Requests, r.op = "remove", Find(m.dir, r.key) # NoEntry,
         NEW n \in Meta, n.totals = TakenOut(m.totals, BookIn(f, m, r.key)),
         n.dir = [m.dir EXCEPT ![Find(m.dir, r.key)] = NoBookEntry]
  PROVE  Told(f, n) \in Abstract!Effects(Told(f, m), r) /\ KeysAreBooks(n)
<1> DEFINE k == r.key
<1> DEFINE i == Find(m.dir, k)
<1> DEFINE h == Told(f, m)
<1> DEFINE told == Told(f, n)
<1>0. \A j \in Used(m.dir) : BookIn(f, m, m.dir[j].key) = ReadBook(f, m.dir[j])
  BY BookOfEntry
<1>1. k \in Books /\ m.dir \in Directory /\ n.dir \in Directory
  BY RequestFields DEF Meta
<1>2. i \in Used(m.dir) /\ m.dir[i].key = k /\ i \in Entries
  BY <1>1, FindEntry, UsedIsSubset
<1>3. n.dir[i] = NoBookEntry /\ \A j \in Entries \ {i} : n.dir[j] = m.dir[j]
  BY <1>1, <1>2 DEF Directory
<1>4. Used(n.dir) = Used(m.dir) \ {i}
  BY <1>3 DEF Used, NoBookEntry
<1>5. \A j \in Used(n.dir) : j \in Used(m.dir) /\ n.dir[j] = m.dir[j] /\ m.dir[j].key # k
  BY <1>1, <1>2, <1>3, <1>4, UsedIsSubset, SMTT(30) DEF IntactBut
<1>6. KeysAreBooks(n)
  BY <1>5 DEF KeysAreBooks
<1>7. \A j \in Used(n.dir) : BookIn(f, n, n.dir[j].key) = ReadBook(f, n.dir[j])
  <2>1. IntactBut(Slots, f, n)
    BY RemoveIsIntact
  <2> QED BY <2>1, BookOfEntry, ZenonT(60)
<1>8. ASSUME NEW b \in Books
      PROVE  BookIn(f, n, b) = IF b = k THEN NewBook ELSE BookIn(f, m, b)
  <2>1. CASE \E j \in Used(n.dir) : n.dir[j].key = b
    <3>1. PICK j \in Used(n.dir) : n.dir[j].key = b
      BY <2>1
    <3>2. j \in Used(m.dir)
      BY <1>5, <3>1
    <3>5. m.dir[j] = n.dir[j] /\ b # k
      BY <1>5, <3>1
    <3>3. BookIn(f, n, n.dir[j].key) = ReadBook(f, n.dir[j])
      BY <1>7
    <3>4. BookIn(f, m, m.dir[j].key) = ReadBook(f, m.dir[j])
      BY <3>2, <1>0
    <3> QED BY <3>1, <3>3, <3>4, <3>5
  <2>2. CASE \A j \in Used(n.dir) : n.dir[j].key # b
    <3>1. BookIn(f, n, b) = NewBook
      BY <2>2, NoEntryNoBook
    <3>2. CASE b = k
      BY <3>1, <3>2
    <3>3. CASE b # k
      <4>1. \A j \in Used(m.dir) : m.dir[j].key # b
        BY <1>2, <1>3, <1>4, <2>2, <3>3, <1>1, UsedIsSubset
      <4>2. BookIn(f, m, b) = NewBook
        BY <4>1, NoEntryNoBook
      <4> QED BY <3>1, <3>3, <4>2
    <3> QED BY <3>2, <3>3
  <2> QED BY <2>1, <2>2
<1>9. h.books = [b \in Books |-> BookIn(f, m, b)] /\ h.totals = m.totals
      /\ h = [books |-> h.books, totals |-> h.totals]
  BY DEF Told
<1>10. told = [books |-> [b \in Books |-> BookIn(f, n, b)], totals |-> n.totals]
  BY DEF Told
<1>11. h.books[k].known
  <2>1. BookIn(f, m, m.dir[i].key).known
    BY <1>2, BookOfEntry
  <2> QED BY <1>1, <1>2, <1>9, <2>1
<1> HIDE DEF i, h, told
<1>12. [b \in Books |-> BookIn(f, n, b)] = [h.books EXCEPT ![k] = NewBook]
  BY <1>1, <1>8, <1>9
<1>13. n.totals = TakenOut(h.totals, h.books[k])
  BY <1>1, <1>9
<1> DEFINE w == [h EXCEPT !.books[k] = NewBook]
<1> DEFINE t == TakenOut(h.totals, h.books[k])
<1>14. w = [books |-> [h.books EXCEPT ![k] = NewBook], totals |-> h.totals]
  BY <1>9
<1> HIDE DEF w, t
<1>15. told = [w EXCEPT !.totals = t]
  <2>1. told = [books |-> w.books, totals |-> t]
    BY <1>10, <1>12, <1>13, <1>14 DEF t
  <2>2. [w EXCEPT !.totals = t] = [books |-> w.books, totals |-> t]
    BY <1>14
  <2> QED BY <2>1, <2>2
<1>16. Abstract!Effects(h, r) = {[w EXCEPT !.totals = t]}
  <2>1. w = Abstract!Without(h, k) /\ w.totals = h.totals
    BY <1>14, SameArithmetic DEF Abstract!Without, w
  <2>2. Abstract!Effects(h, r) =
          {[Abstract!Without(h, k) EXCEPT !.totals = Abstract!TakenOut(@, h.books[k])]}
    BY <1>11 DEF Abstract!Effects
  <2>3. Abstract!TakenOut(w.totals, h.books[k]) = t
    BY <2>1, SameArithmetic DEF t
  <2> QED BY <2>1, <2>2, <2>3
<1>17. told \in Abstract!Effects(h, r)
  BY <1>15, <1>16
<1> QED
  BY <1>6, <1>17 DEF told, h

\* A book opened and closed without reading, and a question, change nothing.
LEMMA NothingHasItsEffect ==
  ASSUME NEW f \in File, NEW m \in Meta, NEW r \in Requests,
         \/ r.op = "summary"
         \/ r.op = "session" /\ r.secs = 0 /\ Find(m.dir, r.key) = NoEntry
  PROVE  Told(f, m) \in Abstract!Effects(Told(f, m), r)
<1> DEFINE h == Told(f, m)
<1>1. CASE r.op = "summary"
  <2>1. Abstract!Effects(h, r) = {h}
    BY <1>1 DEF Abstract!Effects
  <2> QED BY <2>1
<1>2. CASE r.op = "session" /\ r.secs = 0 /\ Find(m.dir, r.key) = NoEntry
  <2>1. r.key \in Books
    BY <1>2, RequestFields
  <2>2. h.books[r.key] = BookIn(f, m, r.key)
    BY <2>1 DEF Told
  <2>3. BookIn(f, m, r.key) = NewBook
    BY <1>2 DEF BookIn
  <2>4. ~h.books[r.key].known
    BY <2>2, <2>3 DEF NewBook
  <2> HIDE DEF h
  <2>5. Abstract!Effects(h, r) = {h}
    BY <1>2, <2>4, EffectsOfPut
  <2>6. h \in Abstract!Effects(h, r)
    BY <2>5
  <2> QED BY <2>6 DEF h
<1> QED BY <1>1, <1>2

-----------------------------------------------------------------------------
(* The running call carries the history it will leave.                     *)

\* What write() has merged is what the card held, and the meta it is about to
\* write tells a history the request may leave.
CallTellsHistory ==
  /\ KeysAreBooks(LiveMeta(file))
  /\ pc = "import" => KeysAreBooks(work.meta)
  /\ pc = "importRename" => KeysAreBooks(LiveMeta(tmp)) /\ LiveMeta(tmp).seq = 1
  /\ pc \in {"import", "importRename", "aside", "create", "createRename"} => ~Readable(file)
  /\ pc \in {"aside", "create", "createRename", "slot"} =>
       LET m == LiveMeta(file)
       IN /\ work.meta.totals = Added(m.totals, req)
          /\ work.book = Merged(BookIn(file, m, req.key), req)
          /\ ~(req.op = "session" /\ req.secs = 0 /\ Find(m.dir, req.key) = NoEntry)
  /\ pc = "meta" =>
       /\ KeysAreBooks(work.meta)
       /\ Told(file, work.meta) \in Abstract!Effects(Told(file, LiveMeta(file)), req)

\* A directory with no book tells of none.
LEMMA BlankTellsNothing ==
  ASSUME NEW f, NEW m, m.dir = EmptyDir
  PROVE  KeysAreBooks(m) /\ \A k : Find(m.dir, k) = NoEntry /\ BookIn(f, m, k) = NewBook
<1>1. Used(m.dir) = {}
  BY EmptyIsIntact
<1>2. \A k : Find(m.dir, k) = NoEntry
  BY <1>1 DEF Find
<1> QED BY <1>1, <1>2 DEF KeysAreBooks, BookIn

\* It tells the empty history.
LEMMA BlankHistory ==
  ASSUME NEW f, NEW m, m.dir = EmptyDir, m.totals = NoTotals
  PROVE  Told(f, m) = EmptyHistory
<1>1. \A k : BookIn(f, m, k) = NewBook
  BY BlankTellsNothing
<1> QED BY <1>1, SameArithmetic DEF Told, EmptyHistory

\* A meta told over the same slots tells the same.
LEMMA SameTold ==
  ASSUME NEW f \in File, NEW g \in File, NEW m \in Meta, NEW n \in Meta,
         m.dir = n.dir, m.totals = n.totals,
         \A i \in Used(m.dir) : f.slot[m.dir[i].slot] = g.slot[m.dir[i].slot]
  PROVE  Told(f, m) = Told(g, n) /\ (KeysAreBooks(m) <=> KeysAreBooks(n))
<1>1. \A k : BookIn(f, m, k) = BookIn(g, n, k)
  BY SameBooks
<1> QED BY <1>1 DEF Told, KeysAreBooks

\* A step that leaves what is told alone is a stutter of the abstract history.
LEMMA Stutters ==
  ASSUME TypeOK, TypeOK', Told(file', LiveMeta(file')) = Told(file, LiveMeta(file)),
         req' = req, reply' = reply
  PROVE  UNCHANGED Abstract!vars
<1>1. HistoryOf(file') = HistoryOf(file)
  BY HistoryIsTold DEF TypeOK
<1> QED BY <1>1 DEF Abstract!vars

\* An answer, or a loss of power, that leaves the history before the request or
\* after it is a step of the abstract history.
LEMMA Answers ==
  ASSUME TypeOK, TypeOK', pc # "idle", req' = NoReq,
         LET h == Told(file, LiveMeta(file))
             g == Told(file', LiveMeta(file'))
         IN \/ reply' = "Done" /\ g \in Abstract!Effects(h, req)
            \/ reply' \in {"Failed", "none"} /\ (g = h \/ g \in Abstract!Effects(h, req))
  PROVE  Abstract!Next
<1>1. HistoryOf(file') = Told(file', LiveMeta(file')) /\ HistoryOf(file) = Told(file, LiveMeta(file))
  BY HistoryIsTold DEF TypeOK
<1>2. req # NoReq
  BY DEF TypeOK
<1>3. req # Abstract!NoReq /\ req' = Abstract!NoReq
  BY <1>2, SameArithmetic
<1>4. CASE reply' = "Done"
  BY <1>1, <1>3, <1>4 DEF Abstract!Next, Abstract!AnswerDone
<1>5. CASE reply' = "Failed"
  BY <1>1, <1>3, <1>5 DEF Abstract!Next, Abstract!AnswerFailed
<1>6. CASE reply' = "none"
  BY <1>1, <1>3, <1>6 DEF Abstract!Next, Abstract!PowerCut
<1> QED BY <1>4, <1>5, <1>6

\* A call that answers leaves nothing but what is told.
LEMMA AnsweredTells ==
  ASSUME NEW r, Answer(r), KeysAreBooks(LiveMeta(file'))
  PROVE  CallTellsHistory'
BY DEF Answer, CallTellsHistory

\* Loading answers what changes nothing, and merges the rest into the meta told next.
LEMMA LoadTells ==
  ASSUME IInv(Slots), TypeOK', CallTellsHistory, Load
  PROVE  CallTellsHistory' /\ [Abstract!Next]_(Abstract!vars)
<1> DEFINE m == LiveMeta(file)
<1> DEFINE index == Find(m.dir, req.key)
<1> DEFINE book == BookIn(file, m, req.key)
<1>1. /\ TypeOK /\ LiveIntact(Slots) /\ CallAgrees(Slots) /\ pc = "load"
      /\ file \in File /\ req \in Requests
  BY DEF IInv, TypeOK, Load, LoadFails, LoadUnreadable, LoadNotFound, LoadNothingToRecord,
         QuerySummary, LoadAndMerge
<1>2. m \in Meta /\ m.dir \in Directory /\ KeysAreBooks(m) /\ file' = file
  BY <1>1, LiveMetaType DEF Meta, CallTellsHistory, Load, LoadFails, LoadUnreadable,
         LoadNotFound, LoadNothingToRecord, QuerySummary, LoadAndMerge
<1>3. CASE LoadFails \/ LoadUnreadable
  <2>1. Answer("Failed")
    BY <1>3 DEF LoadFails, LoadUnreadable, Fail
  <2>2. CallTellsHistory'
    BY <1>2, <2>1, AnsweredTells
  <2>3. Abstract!Next
    BY <1>1, <1>2, <2>1, Answers DEF Answer
  <2> QED BY <2>2, <2>3
<1>4. CASE LoadNotFound
  <2>1. Answer("NotFound") /\ req.op = "remove" /\ index = NoEntry
    BY <1>4 DEF LoadNotFound
  <2>2. CallTellsHistory'
    BY <1>2, <2>1, AnsweredTells
  <2>3. ~HistoryOf(file).books[req.key].known
    <3>1. req.key \in Books /\ book = NewBook
      BY <1>1, <2>1, RequestFields DEF BookIn
    <3>2. HistoryOf(file).books[req.key] = book
      BY <1>1, <3>1, HistoryIsTold DEF Told
    <3> QED BY <3>1, <3>2 DEF NewBook
  <2>4. req' = Abstract!NoReq /\ reply' = "NotFound" /\ HistoryOf(file') = HistoryOf(file)
    BY <1>2, <2>1, SameArithmetic DEF Answer
  <2>5. Abstract!AnswerNotFound
    BY <2>1, <2>3, <2>4 DEF Abstract!AnswerNotFound
  <2> QED BY <2>2, <2>5 DEF Abstract!Next
<1>5. CASE LoadNothingToRecord \/ QuerySummary
  <2>1. /\ Answer("Done")
        /\ \/ req.op = "summary"
           \/ req.op = "session" /\ req.secs = 0 /\ index = NoEntry
    BY <1>5 DEF LoadNothingToRecord, QuerySummary
  <2>2. CallTellsHistory'
    BY <1>2, <2>1, AnsweredTells
  <2>3. Told(file, m) \in Abstract!Effects(Told(file, m), req)
    BY <1>1, <1>2, <2>1, NothingHasItsEffect
  <2>4. Abstract!Next
    BY <1>1, <1>2, <2>1, <2>3, Answers DEF Answer
  <2> QED BY <2>2, <2>4
<1>6. CASE LoadAndMerge
  <2>1. req' = req /\ reply' = reply /\ tmp' = tmp
    BY <1>6 DEF LoadAndMerge, Step
  <2>2. UNCHANGED Abstract!vars
    BY <1>1, <1>2, <2>1, Stutters
  <2>3. req.key \in Books
    BY <1>1, <1>6, RequestFields DEF LoadAndMerge
  <2>4. CASE req.op = "remove"
    <3> DEFINE n == [m EXCEPT !.dir[index] = NoBookEntry, !.totals = TakenOut(@, book)]
    <3>1. /\ Readable(file) /\ index # NoEntry /\ pc' = "meta"
          /\ work' = [meta |-> n, live |-> LiveCopy(file), index |-> index,
                      book |-> NewBook, next |-> 1]
      BY <1>6, <2>4 DEF LoadAndMerge, Step
    <3>2. /\ n.dir = [m.dir EXCEPT ![index] = NoBookEntry] /\ n \in Meta
          /\ n.totals = TakenOut(m.totals, book)
      <4>1. [m.dir EXCEPT ![index] = NoBookEntry] \in Directory
        BY <1>2, ConstantTypes DEF Directory
      <4>2. TakenOut(m.totals, book) \in Totals
        BY <1>1, <1>2, <2>3, BookTypes, ArithmeticTypes DEF Meta
      <4> QED BY <1>2, <4>1, <4>2 DEF Meta
    <3>3. IntactBut(Slots, file, m)
      BY <1>1, <3>1 DEF LiveIntact
    <3>4. Told(file, n) \in Abstract!Effects(Told(file, m), req) /\ KeysAreBooks(n)
      <4> HIDE DEF n, m
      <4> QED BY <1>1, <1>2, <2>4, <3>1, <3>2, <3>3, RemoveHasItsEffect DEF index, book
    <3>5. work'.meta = n
      BY <3>1
    <3>6. CallTellsHistory'
      <4> HIDE DEF n
      <4> QED BY <1>2, <2>1, <3>1, <3>4, <3>5 DEF CallTellsHistory
    <3> QED BY <2>2, <3>6
  <2>5. CASE req.op # "remove"
    <3> DEFINE n == [m EXCEPT !.totals = Added(@, req)]
    <3>1. /\ ~(req.op = "session" /\ req.secs = 0 /\ index = NoEntry)
          /\ work'.meta = n /\ work'.book = Merged(book, req)
          /\ pc' \in {"slot", "aside", "create"}
          /\ pc' \in {"aside", "create"} => ~Readable(file)
      BY <1>6, <2>5 DEF LoadAndMerge, Step
    <3>2. n.totals = Added(m.totals, req)
      BY <1>2 DEF Meta
    <3>3. CallTellsHistory'
      <4> HIDE DEF n
      <4> QED BY <1>2, <2>1, <3>1, <3>2 DEF CallTellsHistory
    <3> QED BY <2>2, <3>3
  <2> QED BY <2>4, <2>5
<1> QED BY <1>3, <1>4, <1>5, <1>6 DEF Load

\* A fresh file tells the same empty history as the file that could not be read.
LEMMA CreateTells ==
  ASSUME IInv(Slots), TypeOK', CallTellsHistory, Create
  PROVE  CallTellsHistory' /\ [Abstract!Next]_(Abstract!vars)
<1>1. /\ TypeOK /\ CallAgrees(Slots) /\ pc \in {"aside", "create", "createRename"}
      /\ file \in File
  BY DEF IInv, TypeOK, Create, SetAside, CreateFresh, CreateRename
<1>2. /\ ~Readable(file) /\ LiveMeta(file) = ClearMeta /\ KeysAreBooks(ClearMeta)
      /\ ClearMeta.dir = EmptyDir /\ ClearMeta.totals = NoTotals
  BY <1>1, LiveMetaType, BlankTellsNothing DEF CallTellsHistory, ClearMeta
<1>3. Told(file, LiveMeta(file)) = EmptyHistory
  BY <1>2, BlankHistory
<1>4. CASE Fail
  <2>1. UNCHANGED file
    BY <1>4 DEF Create, SetAside, CreateFresh, CreateRename, Fail, Answer, Step
  <2>2. CallTellsHistory'
    BY <1>2, <1>4, <2>1, AnsweredTells DEF Fail
  <2>3. Abstract!Next
    BY <1>1, <1>4, <2>1, Answers DEF Fail, Answer
  <2> QED BY <2>2, <2>3
<1>5. CASE SetAside /\ Step("create") /\ file' = NoFile /\ UNCHANGED work
  <2>1. ~Readable(file') /\ LiveMeta(file') = ClearMeta
    BY <1>5, LiveMetaType, ConstantTypes DEF Readable, NoFile
  <2>2. \A k : BookIn(file', ClearMeta, k) = BookIn(file, ClearMeta, k)
    BY <1>2, BlankTellsNothing
  <2>3. CallTellsHistory'
    BY <1>1, <1>2, <1>5, <2>1, <2>2 DEF CallTellsHistory, Step
  <2>4. Told(file', LiveMeta(file')) = EmptyHistory
    BY <1>2, <2>1, BlankHistory
  <2>5. UNCHANGED Abstract!vars
    BY <1>1, <1>3, <1>5, <2>4, Stutters DEF Step
  <2> QED BY <2>3, <2>5
<1>6. CASE CreateFresh /\ Step("createRename") /\ work' = [work EXCEPT !.meta.seq = 1]
  <2>1. file' = file /\ work'.book = work.book /\ work'.meta.totals = work.meta.totals
    BY <1>1, <1>6 DEF CreateFresh, TypeOK, Work, Meta
  <2>2. CallTellsHistory'
    BY <1>1, <1>2, <1>6, <2>1 DEF CallTellsHistory, Step
  <2>3. UNCHANGED Abstract!vars
    BY <1>1, <1>6, <2>1, Stutters DEF Step
  <2> QED BY <2>2, <2>3
<1>7. CASE CreateRename /\ Step("slot") /\ file' = tmp /\ UNCHANGED work
  <2> DEFINE n == Sealed(1, EmptyDir, NoTotals)
  <2>1. LiveMeta(file') = n /\ n.dir = EmptyDir /\ n.totals = NoTotals
    BY <1>1, <1>7, FreshFile DEF CreateRename, CallAgrees, Sealed
  <2> HIDE DEF n
  <2>2. /\ KeysAreBooks(n)
        /\ \A k : BookIn(file', n, k) = BookIn(file, ClearMeta, k)
                  /\ Find(n.dir, k) = Find(ClearMeta.dir, k)
    BY <1>2, <2>1, BlankTellsNothing
  <2>3. CallTellsHistory'
    BY <1>1, <1>2, <1>7, <2>1, <2>2 DEF CallTellsHistory, Step
  <2>4. Told(file', LiveMeta(file')) = EmptyHistory
    BY <2>1, BlankHistory
  <2>5. UNCHANGED Abstract!vars
    BY <1>1, <1>3, <1>7, <2>4, Stutters DEF Step
  <2> QED BY <2>3, <2>5
<1> QED BY <1>4, <1>5, <1>6, <1>7 DEF Create, SetAside, CreateFresh, CreateRename

\* Whatever is left of a write into the free slot, the same history is told.
LEMMA FreeSlotWriteTellsTheSame ==
  ASSUME NEW f \in File, Readable(f), IntactBut(Slots, f, LiveMeta(f)), NEW now \in SlotImage
  PROVE  LET g == [f EXCEPT !.slot[FreeSlot(LiveMeta(f).dir)] = now]
         IN g \in File /\ LiveMeta(g) = LiveMeta(f) /\ Told(g, LiveMeta(f)) = Told(f, LiveMeta(f))
<1> DEFINE m == LiveMeta(f)
<1> DEFINE s == FreeSlot(m.dir)
<1> DEFINE g == [f EXCEPT !.slot[s] = now]
<1>1. m \in Meta /\ m.dir \in Directory
  BY LiveMetaType DEF Meta
<1>2. s \in Slots /\ \A i \in Used(m.dir) : m.dir[i].slot # s /\ m.dir[i].slot \in Slots
  BY <1>1, SpareSlotExists, UsedIsSubset
<1>3. LiveMeta(g) = m
  BY FreeSlotWriteIsHarmless
<1>4. g \in File /\ g.slot = [f.slot EXCEPT ![s] = now]
  <2> HIDE DEF s
  <2>1. g \in File
    BY FileUpdates, ConstantTypes
  <2>2. g.slot = [f.slot EXCEPT ![s] = now]
    BY FileUpdates, ConstantTypes
  <2> QED BY <2>1, <2>2
<1>5. \A i \in Used(m.dir) : f.slot[m.dir[i].slot] = g.slot[m.dir[i].slot]
  <2> HIDE DEF m, s, g
  <2> QED BY <1>2, <1>4 DEF File
<1>6. Told(f, m) = Told(g, m)
  <2> HIDE DEF m, s, g
  <2> QED BY <1>1, <1>4, <1>5, SameTold, ZenonT(60)
<1> QED BY <1>3, <1>4, <1>6

\* A book in its free slot is not told until the meta that refers to it is.
LEMMA WriteSlotTells ==
  ASSUME IInv(Slots), TypeOK', CallTellsHistory, WriteSlot
  PROVE  CallTellsHistory' /\ [Abstract!Next]_(Abstract!vars)
<1> DEFINE m == LiveMeta(file)
<1> DEFINE slot == FreeSlot(m.dir)
<1> DEFINE index == PlaceFor(m.dir, req.key)
<1> DEFINE book == Merged(BookIn(file, m, req.key), req)
<1> DEFINE image == [key |-> req.key, val |-> book, sound |-> TRUE]
<1>1. /\ TypeOK /\ LiveIntact(Slots) /\ CallAgrees(Slots) /\ pc = "slot" /\ file \in File
      /\ work \in Work /\ req \in Requests /\ req.op \in {"session", "finish"}
  BY DEF IInv, TypeOK, WriteSlot, CallAgrees, NoReq
<1>2. /\ Readable(file) /\ IntactBut(Slots, file, m) /\ work.meta.dir = m.dir
      /\ work.index = Find(m.dir, req.key)
      /\ work.meta.totals = Added(m.totals, req) /\ work.book = book
      /\ ~(req.op = "session" /\ req.secs = 0 /\ Find(m.dir, req.key) = NoEntry)
      /\ KeysAreBooks(m)
  BY <1>1 DEF LiveIntact, CallAgrees, CallTellsHistory
<1>3. m \in Meta /\ m.dir \in Directory /\ work.meta \in Meta /\ req.key \in Books
  BY <1>1, LiveMetaType, RequestFields DEF Meta, Work
<1>4. book \in BookVal
  BY <1>1, <1>2 DEF Work
<1>5. slot \in Slots /\ slot # NoSlot
  BY <1>3, SpareSlotExists
<1>6. image \in SlotImage /\ BadSlot \in SlotImage /\ file.slot[slot] \in SlotImage
  BY <1>1, <1>3, <1>4, <1>5, ConstantTypes DEF SlotImage, File
<1>7. ASSUME NEW now \in SlotImage, file' = [file EXCEPT !.slot[slot] = now]
      PROVE  LiveMeta(file') = m /\ Told(file', m) = Told(file, m)
  BY <1>1, <1>2, <1>7, FreeSlotWriteTellsTheSame
<1>8. CASE Fail
  <2>1. \E now \in {file.slot[slot], image, BadSlot} : file' = [file EXCEPT !.slot[slot] = now]
    BY <1>2, <1>5, <1>8 DEF WriteSlot, Fail, Answer, Step
  <2>2. LiveMeta(file') = m /\ Told(file', m) = Told(file, m)
    BY <1>6, <1>7, <2>1
  <2>3. CallTellsHistory'
    BY <1>2, <1>8, <2>2, AnsweredTells DEF Fail
  <2>4. Abstract!Next
    BY <1>1, <1>8, <2>2, Answers DEF Fail, Answer
  <2> QED BY <2>3, <2>4
<1>9. CASE /\ file' = [file EXCEPT !.slot[slot] = image]
           /\ work' = [work EXCEPT !.meta.dir[index] = EntryFor(req.key, book, slot)]
           /\ Step("meta")
  <2> DEFINE n == work'.meta
  <2>1. LiveMeta(file') = m /\ Told(file', m) = Told(file, m)
    BY <1>6, <1>7, <1>9
  <2>2. EntryFor(req.key, book, slot) \in Entry
    <3>1. slot \in 0 .. NoSlot
      BY <1>5, CapAssumption DEF Slots, NoSlot
    <3> QED BY <1>3, <1>4, <3>1, EntryForType
  <2>3. n = [work.meta EXCEPT !.dir[index] = EntryFor(req.key, book, slot)] /\ n \in Meta
    <3>1. [work EXCEPT !.meta.dir[index] = EntryFor(req.key, book, slot)] \in Work
          /\ [work EXCEPT !.meta.dir[index] = EntryFor(req.key, book, slot)].meta =
               [work.meta EXCEPT !.dir[index] = EntryFor(req.key, book, slot)]
      <4> HIDE DEF index, book, slot
      <4> QED BY <1>1, <2>2, WorkUpdate
    <3> QED BY <1>9, <3>1 DEF Work
  <2>4. n.dir = [m.dir EXCEPT ![index] = EntryFor(req.key, book, slot)]
        /\ n.totals = Added(m.totals, req)
    BY <1>2, <1>3, <2>3 DEF Meta
  <2>5. Told(SlotPut(file, req.key, book, slot), n) \in Abstract!Effects(Told(file, m), req)
        /\ KeysAreBooks(n)
    <3> HIDE DEF m, n
    <3> QED BY <1>1, <1>2, <1>3, <2>3, <2>4, PutHasItsEffect DEF index, book, slot
  <2>6. file' = SlotPut(file, req.key, book, slot)
    BY <1>9 DEF SlotPut
  <2>7. Told(file', n) \in Abstract!Effects(Told(file', LiveMeta(file')), req') /\ KeysAreBooks(n)
    BY <1>9, <2>1, <2>5, <2>6 DEF Step
  <2>8. pc' = "meta" /\ KeysAreBooks(LiveMeta(file'))
    BY <1>2, <1>9, <2>1 DEF Step
  <2>9. CallTellsHistory'
    BY <2>7, <2>8 DEF CallTellsHistory
  <2>10. UNCHANGED Abstract!vars
    BY <1>1, <1>9, <2>1, Stutters DEF Step
  <2> QED BY <2>9, <2>10
<1> QED
  <2>1. index = IF work.index # NoEntry THEN work.index
                ELSE IF FreeEntry(m.dir) # NoEntry THEN FreeEntry(m.dir)
                ELSE Victim(m.dir)
    BY <1>2 DEF PlaceFor
  <2> QED BY <1>2, <1>8, <1>9, <2>1 DEF WriteSlot

\* Whatever is left of the write of the next meta, the history told is the one
\* before the request or the one the call was about to write.
LEMMA MetaWriteTells ==
  ASSUME IInv(Slots), CallTellsHistory, pc = "meta", TypeOK',
         NEW left \in Torn(file.copy[OtherCopy(work.live)], NextMeta),
         file' = [file EXCEPT !.copy[OtherCopy(work.live)] = left]
  PROVE  LET h == Told(file, LiveMeta(file))
             g == Told(file', LiveMeta(file'))
         IN /\ KeysAreBooks(LiveMeta(file'))
            /\ \/ g = h /\ LiveMeta(file') = LiveMeta(file)
               \/ g \in Abstract!Effects(h, req)
                  /\ LiveMeta(file').seq = LiveMeta(file).seq + 1
            /\ left = NextMeta => g \in Abstract!Effects(h, req)
<1> DEFINE c == OtherCopy(work.live)
<1> DEFINE h == Told(file, LiveMeta(file))
<1>1. /\ file \in File /\ Readable(file) /\ work.live = LiveCopy(file)
      /\ work.meta.seq = LiveMeta(file).seq /\ IntactBut(Slots, file, work.meta)
      /\ work.meta \in Meta /\ file' \in File
  BY DEF IInv, TypeOK, CallAgrees, Work
<1>2. /\ KeysAreBooks(LiveMeta(file)) /\ KeysAreBooks(work.meta)
      /\ Told(file, work.meta) \in Abstract!Effects(h, req)
  BY DEF CallTellsHistory
<1>3. c \in {0, 1} /\ file.copy[c] \in Meta /\ NextMeta \in Meta
  <2>1. c \in {0, 1} /\ file.copy[c] \in Meta
    BY <1>1 DEF OtherCopy, File
  <2>2. work.meta.seq + 1 \in Nat /\ work.meta.dir \in Directory /\ work.meta.totals \in Totals
    BY <1>1 DEF Meta
  <2> QED BY <2>1, <2>2, SealedType DEF NextMeta
<1>4. left \in Meta
  BY <1>3, TornType
<1>5. file'.slot = file.slot
  BY <1>1, <1>4, FileUpdates, ConstantTypes
<1>6. CASE left = NextMeta
  <2>1. /\ NextMeta.dir = work.meta.dir /\ NextMeta.totals = work.meta.totals
        /\ NextMeta.marked /\ NextMeta.sound /\ NextMeta.seq = LiveMeta(file).seq + 1
    BY <1>1 DEF NextMeta, Sealed
  <2>2. Valid(NextMeta)
    <3>1. IntactBut(Slots, file, NextMeta)
      BY <1>1, <2>1, IntactSame
    <3> QED BY <2>1, <3>1, IntactIsValid
  <2>3. LiveMeta(file') = NextMeta
    BY <1>1, <1>3, <1>6, <2>1, <2>2, NewCopyIsLive
  <2>4. Told(file', NextMeta) = Told(file, work.meta) /\ KeysAreBooks(NextMeta)
    <3>1. Told(file, work.meta) = Told(file', NextMeta)
          /\ (KeysAreBooks(work.meta) <=> KeysAreBooks(NextMeta))
      <4>1. \A i \in Used(work.meta.dir) :
              file.slot[work.meta.dir[i].slot] = file'.slot[work.meta.dir[i].slot]
        BY <1>5
      <4>2. work.meta.dir = NextMeta.dir /\ work.meta.totals = NextMeta.totals
        BY <2>1
      <4>3. file \in File /\ file' \in File /\ work.meta \in Meta /\ NextMeta \in Meta
        BY <1>1, <1>3
      <4> QED BY <4>1, <4>2, <4>3, SameTold, ZenonT(60)
    <3> QED BY <1>2, <3>1
  <2>5. KeysAreBooks(LiveMeta(file'))
        /\ Told(file', LiveMeta(file')) \in Abstract!Effects(h, req)
    BY <1>2, <2>3, <2>4, Zenon
  <2> QED BY <2>1, <2>3, <2>5
<1>7. CASE left # NextMeta
  <2>1. LiveMeta(file') = LiveMeta(file)
    <3>1. CASE left = file.copy[c]
      <4>1. file' = file
        BY <1>1, <1>3, <3>1 DEF File
      <4> QED BY <4>1
    <3>2. CASE left # file.copy[c]
      <4>1. ~left.sound
        BY <1>7, <3>2 DEF Torn
      <4> QED BY <1>1, <1>4, <4>1, TornCopyIsNotLive
    <3> QED BY <3>1, <3>2
  <2>2. LiveMeta(file) \in Meta
    BY <1>1, LiveMetaType
  <2>3. Told(file', LiveMeta(file)) = h
    BY <1>1, <1>5, <2>2, SameTold
  <2> QED BY <1>2, <1>7, <2>1, <2>3
<1> QED BY <1>6, <1>7

\* The meta is written: the history after the request is told.
LEMMA WriteMetaTells ==
  ASSUME IInv(Slots), TypeOK', CallTellsHistory, WriteMeta
  PROVE  CallTellsHistory' /\ [Abstract!Next]_(Abstract!vars)
<1> DEFINE copy == OtherCopy(work.live)
<1>1. TypeOK /\ pc = "meta"
  BY DEF IInv, WriteMeta
<1>2. CASE file' = [file EXCEPT !.copy[copy] = NextMeta] /\ Answer("Done")
  <2>1. NextMeta \in Torn(file.copy[copy], NextMeta)
    BY DEF Torn
  <2>2. /\ KeysAreBooks(LiveMeta(file'))
        /\ Told(file', LiveMeta(file')) \in Abstract!Effects(Told(file, LiveMeta(file)), req)
    BY <1>1, <1>2, <2>1, MetaWriteTells
  <2>3. CallTellsHistory'
    BY <1>2, <2>2, AnsweredTells
  <2>4. Abstract!Next
    BY <1>1, <1>2, <2>2, Answers DEF Answer
  <2> QED BY <2>3, <2>4
<1>3. CASE /\ \E left \in Torn(file.copy[copy], NextMeta) : file' = [file EXCEPT !.copy[copy] = left]
           /\ Fail
  <2>1. LET h == Told(file, LiveMeta(file))
            g == Told(file', LiveMeta(file'))
        IN KeysAreBooks(LiveMeta(file')) /\ (g = h \/ g \in Abstract!Effects(h, req))
    BY <1>1, <1>3, MetaWriteTells
  <2>2. CallTellsHistory'
    BY <1>3, <2>1, AnsweredTells DEF Fail
  <2>3. Abstract!Next
    BY <1>1, <1>3, <2>1, Answers DEF Fail, Answer
  <2> QED BY <2>2, <2>3
<1> QED BY <1>2, <1>3 DEF WriteMeta

\* Power lost leaves the history told before the request or after it.
LEMMA PowerCutTells ==
  ASSUME IInv(Slots), TypeOK', CallTellsHistory, PowerCut
  PROVE  CallTellsHistory' /\ [Abstract!Next]_(Abstract!vars)
<1> DEFINE h == Told(file, LiveMeta(file))
<1> DEFINE g == Told(file', LiveMeta(file'))
<1>1. TypeOK /\ LiveIntact(Slots) /\ CallAgrees(Slots) /\ file \in File /\ file' \in File
      /\ Answer("none")
  BY DEF IInv, TypeOK, PowerCut
<1>2. KeysAreBooks(LiveMeta(file'))
      /\ (g = h \/ (pc # "idle" /\ g \in Abstract!Effects(h, req)))
  <2>1. CASE pc = "slot" /\ FreeSlot(work.meta.dir) # NoSlot
    <3>1. /\ Readable(file) /\ IntactBut(Slots, file, LiveMeta(file))
          /\ work.meta.dir = LiveMeta(file).dir /\ KeysAreBooks(LiveMeta(file))
      BY <1>1, <2>1 DEF LiveIntact, CallAgrees, CallTellsHistory
    <3> DEFINE slot == FreeSlot(LiveMeta(file).dir)
    <3>2. LiveMeta(file).dir \in Directory
      BY <1>1, LiveMetaType DEF Meta
    <3>3. file.slot[slot] \in SlotImage /\ BadSlot \in SlotImage
      BY <1>1, <3>2, SpareSlotExists, ConstantTypes DEF File
    <3>4. PICK left \in {file.slot[slot], BadSlot} : file' = [file EXCEPT !.slot[slot] = left]
      BY <2>1, <3>1 DEF PowerCut
    <3>5. LiveMeta(file') = LiveMeta(file) /\ Told(file', LiveMeta(file)) = h
      BY <1>1, <3>1, <3>3, <3>4, FreeSlotWriteTellsTheSame
    <3> QED BY <3>1, <3>5
  <2>2. CASE pc = "meta"
    <3>1. PICK left \in Torn(file.copy[OtherCopy(work.live)], NextMeta) :
            file' = [file EXCEPT !.copy[OtherCopy(work.live)] = left]
      BY <2>2 DEF PowerCut
    <3> QED BY <2>2, <3>1, MetaWriteTells
  <2>3. CASE ~(pc = "slot" /\ FreeSlot(work.meta.dir) # NoSlot) /\ pc # "meta"
    <3>1. file' = file
      BY <2>3 DEF PowerCut
    <3> QED BY <3>1 DEF CallTellsHistory
  <2> QED BY <2>1, <2>2, <2>3
<1>3. CallTellsHistory'
  BY <1>1, <1>2, AnsweredTells
<1>4. Abstract!Next
  <2>1. CASE pc # "idle"
    BY <1>1, <1>2, <2>1, Answers DEF Answer
  <2>2. CASE pc = "idle"
    <3>1. HistoryOf(file') = HistoryOf(file)
      BY <1>1, <1>2, <2>2, HistoryIsTold
    <3>2. req' = Abstract!NoReq /\ reply' = "none"
      BY <1>1, SameArithmetic DEF Answer
    <3> QED BY <3>1, <3>2 DEF Abstract!Next, Abstract!PowerCut
  <2> QED BY <2>1, <2>2
<1> QED BY <1>3, <1>4

\* The file an import writes, before this step of it.
ImportFile == IF work.next = 1 THEN ZeroedFile ELSE tmp

LEMMA ImportFileIsIntact ==
  ASSUME IInv(Slots), pc = "import"
  PROVE  /\ ImportFile \in File /\ ImportFile.here /\ ImportFile.copy = NoFile.copy
         /\ work.meta \in Meta /\ work.meta.dir \in Directory
         /\ IntactBut(Slots, ImportFile, work.meta)
<1>1. TypeOK /\ CallAgrees(Slots)
  BY DEF IInv
<1>2. work.meta \in Meta /\ work.meta.dir \in Directory
  BY <1>1 DEF TypeOK, Work, Meta
<1>3. CASE work.next = 1
  <2>1. ImportFile = ZeroedFile /\ work.meta.dir = EmptyDir
    BY <1>1, <1>3 DEF CallAgrees, ImportFile
  <2>2. ImportFile \in File /\ ImportFile.here /\ ImportFile.copy = NoFile.copy
    BY <2>1, ConstantTypes DEF ZeroedFile, NoFile
  <2> QED BY <1>2, <2>1, <2>2, EmptyIsIntact
<1>4. CASE work.next # 1
  BY <1>1, <1>2, <1>4 DEF CallAgrees, ImportFile, TypeOK
<1> QED BY <1>3, <1>4

\* The meta copy that ends it refers to what was written.
LEMMA ImportedMeta ==
  ASSUME IInv(Slots), IInv(Slots)', ImportMeta
  PROVE  /\ tmp' \in File /\ LiveMeta(tmp') \in Meta /\ tmp'.slot = ImportFile.slot
         /\ LiveMeta(tmp').dir = work.meta.dir /\ LiveMeta(tmp').seq = 1
        /\ LiveMeta(tmp').totals = ImportedTotals
<1> DEFINE f == ImportFile
<1> DEFINE m == Sealed(1, work.meta.dir, ImportedTotals)
<1>1. pc = "import" /\ pc' = "importRename" /\ tmp' = [f EXCEPT !.copy[0] = m]
  BY DEF ImportMeta, Step, ImportFile
<1>2. f \in File /\ f.copy = NoFile.copy /\ work.meta \in Meta
  BY <1>1, ImportFileIsIntact
<1>3. m \in Meta
  BY <1>2, SealedType, ImportedTotalsType DEF Meta
<1> HIDE DEF m, f
<1>4. tmp'.copy[0] = m /\ tmp'.copy[1] = ClearMeta /\ tmp'.slot = f.slot
  BY <1>1, <1>2, <1>3, FileUpdates, ConstantTypes DEF NoFile
<1>5. ~Valid(ClearMeta)
  BY DEF Valid, ClearMeta
<1>6. tmp' \in File /\ Readable(tmp')
  BY <1>1 DEF IInv, CallAgrees, TypeOK
<1>7. LiveMeta(tmp') = m
  <2>1. ~(tmp'.copy[1].seq > tmp'.copy[0].seq)
    BY <1>4 DEF m, Sealed, ClearMeta
  <2>2. LiveCopy(tmp') \in {0, NoCopy}
    BY <1>4, <1>5, <2>1 DEF LiveCopy
  <2>3. LiveCopy(tmp') = 0
    BY <1>6, <2>2 DEF Readable
  <2> QED BY <1>4, <1>6, <2>3 DEF LiveMeta
<1> QED BY <1>3, <1>4, <1>6, <1>7 DEF f, m, Sealed

\* The import is told at its rename, over a history that was empty.
LEMMA ImportTells ==
  ASSUME IInv(Slots), IInv(Slots)', CallTellsHistory, Import
  PROVE  CallTellsHistory' /\ [Abstract!Next]_(Abstract!vars)
<1>1. /\ TypeOK /\ TypeOK' /\ CallAgrees(Slots) /\ CallAgrees(Slots)' /\ file \in File
      /\ pc # "idle" /\ KeysAreBooks(LiveMeta(file))
  BY DEF IInv, TypeOK, Import, ImportFails, ImportMalformed, ImportBook, ImportMeta,
         ImportRename, ImportDone, CallTellsHistory
<1>2. ASSUME file' = file, req' = req, reply' = reply PROVE UNCHANGED Abstract!vars
  BY <1>1, <1>2, Stutters
<1>3. CASE Fail /\ UNCHANGED file
  <2>1. CallTellsHistory'
    BY <1>1, <1>3, AnsweredTells DEF Fail
  <2>2. Abstract!Next
    BY <1>1, <1>3, Answers DEF Fail, Answer
  <2> QED BY <2>1, <2>2
<1>4. CASE ImportMalformed \/ ImportDone
  <2>1. file' = file /\ req' = req /\ reply' = reply /\ pc' = "load"
    BY <1>4 DEF ImportMalformed, ImportDone, Step
  <2>2. CallTellsHistory'
    BY <1>1, <2>1 DEF CallTellsHistory
  <2> QED BY <1>2, <2>1, <2>2
<1>5. CASE ImportBook
  <2> DEFINE book == LegacyBooks[work.next]
  <2> DEFINE dir == work.meta.dir
  <2> DEFINE full == FreeEntry(dir) = NoEntry
  <2> DEFINE index == IF full THEN Victim(dir) ELSE FreeEntry(dir)
  <2> DEFINE slot == IF full THEN dir[index].slot ELSE FreeSlot(dir)
  <2> DEFINE merged == [work EXCEPT !.meta.dir[index] = EntryFor(book.key, book.val, slot),
                                    !.next = @ + 1]
  <2>1. file' = file /\ req' = req /\ reply' = reply /\ pc = "import" /\ pc' = "import"
    BY <1>5 DEF ImportBook, Step
  <2>2. KeysAreBooks(work.meta) /\ ~Readable(file) /\ work.meta \in Meta /\ dir \in Directory
    BY <1>1, <2>1 DEF CallTellsHistory, TypeOK, Work, Meta
  <2>3. book.key \in Books
    <3>1. LegacyBooks \in Seq(LegacyBook) /\ work.next \in 1 .. Len(LegacyBooks)
      BY <1>5, LegacyAssumption DEF ImportBook
    <3>2. book \in LegacyBook
      BY <3>1
    <3> QED BY <3>2 DEF LegacyBook
  <2>4. KeysAreBooks(work'.meta)
    <3>1. CASE work' = [work EXCEPT !.next = @ + 1]
      <4>1. work'.meta = work.meta
        BY <1>1, <3>1 DEF TypeOK, Work
      <4> QED BY <2>2, <4>1
    <3>2. CASE work' = merged
      <4>1. work'.meta.dir = [dir EXCEPT ![index] = EntryFor(book.key, book.val, slot)]
        <5> HIDE DEF index, slot, book
        <5> QED BY <1>1, <3>2 DEF TypeOK, Work, Meta
      <4> HIDE DEF index, slot, book
      <4>2. EntryFor(book.key, book.val, slot).key = book.key
        BY DEF EntryFor
      <4>3. ASSUME NEW j \in Used(work'.meta.dir) PROVE work'.meta.dir[j].key \in Books
        <5>1. CASE j = index
          BY <2>2, <2>3, <4>1, <4>2, <4>3, <5>1 DEF Used, Directory
        <5>2. CASE j # index
          <6>1. j \in Entries /\ work'.meta.dir[j] = dir[j]
            BY <2>2, <4>1, <4>3, <5>2 DEF Used, Directory
          <6>2. j \in Used(dir)
            BY <4>3, <6>1 DEF Used
          <6> QED BY <2>2, <6>1, <6>2 DEF KeysAreBooks
        <5> QED BY <5>1, <5>2
      <4> QED BY <4>3 DEF KeysAreBooks
    <3> QED BY <1>5, <3>1, <3>2, Zenon DEF ImportBook
  <2>5. CallTellsHistory'
    BY <1>1, <2>1, <2>2, <2>4 DEF CallTellsHistory
  <2> QED BY <1>2, <2>1, <2>5
<1>6. CASE ImportMeta
  <2>1. /\ file' = file /\ req' = req /\ reply' = reply /\ pc = "import"
        /\ pc' = "importRename"
    BY <1>6 DEF ImportMeta, Step
  <2>2. KeysAreBooks(work.meta) /\ ~Readable(file) /\ work.meta \in Meta
    BY <1>1, <2>1 DEF CallTellsHistory, TypeOK, Work
  <2>3. LiveMeta(tmp').dir = work.meta.dir /\ LiveMeta(tmp').seq = 1
    BY <1>6, ImportedMeta
  <2>4. KeysAreBooks(LiveMeta(tmp'))
    BY <2>2, <2>3 DEF KeysAreBooks
  <2>5. CallTellsHistory'
    BY <1>1, <2>1, <2>2, <2>3, <2>4 DEF CallTellsHistory
  <2> QED BY <1>2, <2>1, <2>5
<1>7. CASE ImportRename /\ file' = tmp /\ Step("importDone")
  <2>1. /\ ~Readable(file) /\ KeysAreBooks(LiveMeta(file')) /\ pc' = "importDone"
        /\ req' = req /\ reply' = reply /\ file' \in File
    BY <1>1, <1>7 DEF ImportRename, CallTellsHistory, Step, TypeOK
  <2>2. CallTellsHistory'
    BY <2>1 DEF CallTellsHistory
  <2>3. HistoryOf(file) = EmptyHistory
    <3>1. LiveMeta(file) = ClearMeta
      BY <1>1, <2>1, LiveMetaType
    <3>2. Told(file, ClearMeta) = EmptyHistory
      BY BlankHistory DEF ClearMeta
    <3> QED BY <1>1, <3>1, <3>2, HistoryIsTold
  <2>4. HistoryOf(file') \in History
    <3>1. HistoryOf(file') = Told(file', LiveMeta(file')) /\ LiveMeta(file') \in Meta
      BY <2>1, HistoryIsTold, LiveMetaType
    <3>2. \A b \in Books : BookIn(file', LiveMeta(file'), b) \in BookVal
      BY <2>1, <3>1, BookTypes
    <3> QED BY <3>1, <3>2 DEF Told, History, Meta
  <2>5. Abstract!Import
    BY <2>1, <2>3, <2>4, SameArithmetic DEF Abstract!Import
  <2> QED BY <2>2, <2>5 DEF Abstract!Next
<1> QED
  BY <1>3, <1>4, <1>5, <1>6, <1>7 DEF Import, ImportFails, ImportRename

\* The card the firmware may find tells the empty history.
LEMMA InitTells == Init => CallTellsHistory /\ Abstract!Init
<1> SUFFICES ASSUME Init PROVE CallTellsHistory /\ Abstract!Init
  OBVIOUS
<1>1. file \in File /\ ~Readable(file) /\ pc = "idle"
  <2>1. ~Valid(ClearMeta)
    BY DEF Valid, ClearMeta
  <2>2. file.copy[0] = ClearMeta /\ file.copy[1] = ClearMeta
    BY DEF Init, InitialFiles, NoFile, ZeroedFile
  <2>3. LiveCopy(file) = NoCopy
    BY <2>1, <2>2 DEF LiveCopy
  <2> QED BY <2>3, InitTypes DEF Init, TypeOK, Readable
<1>2. LiveMeta(file) = ClearMeta /\ ClearMeta.dir = EmptyDir /\ ClearMeta.totals = NoTotals
  BY <1>1, LiveMetaType DEF ClearMeta
<1>3. CallTellsHistory
  BY <1>1, <1>2, BlankTellsNothing DEF CallTellsHistory
<1>4. HistoryOf(file) = EmptyHistory
  BY <1>1, <1>2, BlankHistory, HistoryIsTold
<1>5. Abstract!Init
  BY <1>4, SameArithmetic DEF Init, Abstract!Init
<1> QED BY <1>3, <1>5

\* Every step keeps the invariant and is a step of the abstract history, or none.
LEMMA NextTells ==
  ASSUME IInv(Slots), CallTellsHistory, [Next]_vars
  PROVE  CallTellsHistory' /\ [Abstract!Next]_(Abstract!vars)
<1>1. IInv(Slots)' /\ TypeOK /\ TypeOK' /\ CallAgrees(Slots)
  BY NextAgrees DEF IInv
<1>2. ASSUME NEW r \in Requests, Ask(r)
      PROVE  CallTellsHistory' /\ [Abstract!Next]_(Abstract!vars)
  <2>1. file' = file /\ req = NoReq /\ req' = r /\ reply' = "none" /\ pc' = "prepare"
    BY <1>1, <1>2 DEF Ask, TypeOK
  <2>2. CallTellsHistory'
    BY <2>1 DEF CallTellsHistory
  <2>3. Abstract!Ask(r) /\ r \in Abstract!Requests
    BY <2>1, SameArithmetic DEF Abstract!Ask
  <2> QED BY <2>2, <2>3 DEF Abstract!Next
<1>3. CASE Prepare
  <2>1. /\ file' = file /\ work' = work /\ work = NoWork /\ pc' \in {"load", "import"}
        /\ pc' = "import" => ~file.here
        /\ req' = req /\ reply' = reply
    BY <1>1, <1>3 DEF Prepare, Step, CallAgrees
  <2>2. KeysAreBooks(work.meta)
    BY <2>1, BlankTellsNothing DEF NoWork, ClearMeta
  <2>3. CallTellsHistory'
    BY <2>1, <2>2 DEF CallTellsHistory, Readable
  <2>4. UNCHANGED Abstract!vars
    BY <1>1, <2>1, Stutters
  <2> QED BY <2>3, <2>4
<1>4. CASE UNCHANGED vars
  <2>1. CallTellsHistory'
    BY <1>4 DEF vars, CallTellsHistory
  <2>2. UNCHANGED Abstract!vars
    BY <1>1, <1>4, Stutters DEF vars
  <2> QED BY <2>1, <2>2
<1> QED
  BY <1>1, <1>2, <1>3, <1>4, ImportTells, LoadTells, CreateTells, WriteSlotTells,
     WriteMetaTells, PowerCutTells DEF Next

\* Each call, each failure and each loss of power leaves the history the caller
\* asked for or the one before it, for every set of books, every cap, every
\* session and every older JSON: the two meta copies and the spare slot make a
\* write of several steps one atomic change.
THEOREM StoreIsAtomic == Spec => Atomic
<1>1. Init => IInv(Slots) /\ CallTellsHistory /\ Abstract!Init
  BY InitAgrees, InitTells
<1>2. IInv(Slots) /\ CallTellsHistory /\ [Next]_vars =>
        (IInv(Slots) /\ CallTellsHistory)' /\ [Abstract!Next]_(Abstract!vars)
  BY NextAgrees, NextTells
<1> QED
  BY <1>1, <1>2, PTL DEF Spec, Atomic, Abstract!Spec

\* A book without its sessions.
LEMMA SessionsGone ==
  ASSUME NEW b \in BookVal, b.known = TRUE
  PROVE  [b EXCEPT !.sess = 0] =
           [known |-> TRUE, secs |-> b.secs, sess |-> 0, fin |-> b.fin, last |-> b.last]
<1> DEFINE c == [b EXCEPT !.sess = 0]
<1>1. c \in BookVal
  BY DEF BookVal
<1>2. c.known = TRUE /\ c.secs = b.secs /\ c.sess = 0 /\ c.fin = b.fin /\ c.last = b.last
  BY DEF BookVal
<1> HIDE DEF c
<1>3. c = [known |-> c.known, secs |-> c.secs, sess |-> c.sess, fin |-> c.fin, last |-> c.last]
  BY <1>1 DEF BookVal
<1>4. c = [known |-> TRUE, secs |-> b.secs, sess |-> 0, fin |-> b.fin, last |-> b.last]
  BY <1>2, <1>3
<1> QED BY <1>4 DEF c

\* A slot that goes bad loses of one book what its entry does not repeat, or nothing
\* when no entry refers to it.
LEMMA RotLoses ==
  ASSUME IInv(Slots), CallTellsHistory, RotSlot
  PROVE  /\ CallTellsHistory'
         /\ UNCHANGED Abstract!vars \/ \E b \in Books : Abstract!Lose(b)
<1> DEFINE m == LiveMeta(file)
<1>1. /\ TypeOK /\ TypeOK' /\ file \in File /\ file' \in File
      /\ file'.copy = file.copy /\ file'.here = file.here
  BY RotKeepsTypes DEF IInv
<1>2. PICK s \in Slots : file'.slot = [file.slot EXCEPT ![s] = BadSlot]
  BY RotKeepsTypes DEF IInv
<1>3. \A t \in Slots : file'.slot[t] = IF t = s THEN BadSlot ELSE file.slot[t]
  <2>1. file.slot \in [Slots -> SlotImage]
    BY <1>1 DEF File
  <2> QED BY <1>2, <2>1
<1>4. LiveMeta(file') = m /\ m \in Meta /\ m.dir \in Directory
  BY <1>1, LiveFollowsCopies, LiveMetaType DEF Meta
<1>5. /\ pc = "idle" /\ pc' = "idle" /\ req = NoReq /\ req' = req /\ reply' = reply
  BY <1>1 DEF RotSlot, TypeOK
<1>6. KeysAreBooks(m)
  BY DEF CallTellsHistory
<1>7. CallTellsHistory'
  BY <1>4, <1>5, <1>6 DEF CallTellsHistory
<1>8. IntactBut(Slots, file, m)
  <2>1. CASE Readable(file)
    BY <2>1 DEF IInv, LiveIntact
  <2>2. CASE ~Readable(file)
    BY <1>1, <2>2, LiveMetaType, EmptyIsIntact DEF ClearMeta
  <2> QED BY <2>1, <2>2
<1> HIDE DEF m
<1>9. CASE \A i \in Used(m.dir) : m.dir[i].slot # s
  <2>1. \A i \in Used(m.dir) : file'.slot[m.dir[i].slot] = file.slot[m.dir[i].slot]
    BY <1>3, <1>8, <1>9 DEF IntactBut
  <2>2. Told(file', m) = Told(file, m)
    BY <1>1, <1>4, <2>1, SameTold
  <2>3. UNCHANGED Abstract!vars
    BY <1>1, <1>4, <1>5, <2>2, Stutters DEF m
  <2> QED BY <1>7, <2>3
<1>10. CASE \E i \in Used(m.dir) : m.dir[i].slot = s
  <2>1. PICK i \in Used(m.dir) : m.dir[i].slot = s
    BY <1>10
  <2> DEFINE e == m.dir[i]
  <2> DEFINE k == e.key
  <2> DEFINE old == ReadBook(file, e)
  <2>2. k \in Books /\ Find(m.dir, k) = i /\ BookIn(file, m, k) = old /\ old.known
    BY <1>1, <1>4, <1>6, <1>8, BookOfEntry DEF KeysAreBooks
  <2>3. ReadBook(file', e) = BookFromEntry(e)
    BY <1>3, <2>1 DEF ReadBook, BadSlot
  <2>4. BookFromEntry(e) = [old EXCEPT !.sess = 0]
    <3>1. CASE ~file.slot[s].sound
      <4>1. old = BookFromEntry(e)
        BY <2>1, <3>1 DEF ReadBook
      <4>2. BookFromEntry(e) \in [known : {TRUE}, secs : {e.secs}, sess : {0},
                                   fin : {e.fin}, last : {e.last}]
        BY DEF BookFromEntry
      <4> HIDE DEF e, old
      <4> QED BY <4>1, <4>2
    <3>2. CASE file.slot[s].sound
      <4> DEFINE image == file.slot[s]
      <4>1. image.key = k /\ image.val.known /\ e = EntryFor(k, image.val, s)
        BY <1>8, <2>1, <3>2 DEF IntactBut
      <4>2. old = image.val
        BY <2>1, <3>2, <4>1 DEF ReadBook
      <4>3. image.val \in BookVal
        BY <1>1 DEF File, SlotImage
      <4>4. e.secs = image.val.secs /\ e.fin = image.val.fin /\ e.last = image.val.last
        BY <4>1 DEF EntryFor
      <4>5. image.val.known = TRUE
        BY <4>1, <4>3 DEF BookVal
      <4> HIDE DEF image, e, k, old
      <4>6. BookFromEntry(e) = [image.val EXCEPT !.sess = 0]
        BY <4>3, <4>4, <4>5, SessionsGone DEF BookFromEntry
      <4> QED BY <4>2, <4>6
    <3> QED BY <3>1, <3>2
  <2>5. BookIn(file', m, k) = BookFromEntry(e)
    <3>1. i # NoEntry
      BY <1>4, UsedIsSubset DEF Entries, NoEntry
    <3> QED BY <2>2, <2>3, <3>1 DEF BookIn
  <2>6. ASSUME NEW b \in Books, b # k PROVE BookIn(file', m, b) = BookIn(file, m, b)
    <3>1. CASE Find(m.dir, b) = NoEntry
      BY <3>1 DEF BookIn
    <3>2. CASE Find(m.dir, b) # NoEntry
      <4> DEFINE j == Find(m.dir, b)
      <4>1. j \in Used(m.dir) /\ m.dir[j].key = b
        BY <1>4, <3>2, FindEntry
      <4>2. j # i
        BY <2>6, <4>1
      <4>3. m.dir[j].slot \in Slots /\ m.dir[j].slot # s
        BY <1>8, <2>1, <4>1, <4>2 DEF IntactBut
      <4>4. ReadBook(file', m.dir[j]) = ReadBook(file, m.dir[j])
        BY <1>3, <4>3 DEF ReadBook
      <4> QED BY <4>4 DEF BookIn
    <3> QED BY <3>1, <3>2
  <2> DEFINE h == Told(file, m)
  <2> HIDE DEF e, k, old
  <2>7. Told(file', m) = [h EXCEPT !.books[k].sess = 0]
    <3>1. h.books = [b \in Books |-> BookIn(file, m, b)]
          /\ h = [books |-> h.books, totals |-> m.totals]
      BY DEF Told
    <3>2. h.books[k] = old
      BY <2>2, <3>1
    <3>3. [b \in Books |-> BookIn(file', m, b)] = [h.books EXCEPT ![k] = [old EXCEPT !.sess = 0]]
      BY <2>2, <2>4, <2>5, <2>6, <3>1
    <3> HIDE DEF h
    <3>4. [h EXCEPT !.books[k].sess = 0]
            = [books |-> [h.books EXCEPT ![k] = [old EXCEPT !.sess = 0]], totals |-> m.totals]
      BY <3>1, <3>2
    <3> QED BY <3>3, <3>4 DEF Told
  <2>8. HistoryOf(file) = h /\ HistoryOf(file') = Told(file', m)
    BY <1>1, <1>4, HistoryIsTold DEF m
  <2>9. h.books[k].known
    BY <2>2 DEF Told
  <2> HIDE DEF h
  <2>10. Abstract!Lose(k)
    BY <1>5, <2>7, <2>8, <2>9, SameArithmetic DEF Abstract!Lose
  <2> QED BY <1>7, <2>2, <2>10
<1> QED BY <1>9, <1>10

\* Nor is more lost than the slot held alone when slots go bad between calls: the
\* other books, the totals and every later call are of the atomic history still.
THEOREM StoreIsAtomicButForLosses == RotSpec => AtomicButLosses
<1>1. Init => IInv(Slots) /\ CallTellsHistory /\ Abstract!Init
  BY InitAgrees, InitTells
<1>2. IInv(Slots) /\ CallTellsHistory /\ [Next \/ RotSlot]_vars =>
        (IInv(Slots) /\ CallTellsHistory)' /\ [Abstract!LossyNext]_(Abstract!vars)
  <2>1. [Next \/ RotSlot]_vars => [Next]_vars \/ RotSlot
    OBVIOUS
  <2>2. IInv(Slots) /\ CallTellsHistory /\ [Next]_vars =>
          (IInv(Slots) /\ CallTellsHistory)' /\ [Abstract!LossyNext]_(Abstract!vars)
    BY NextAgrees, NextTells DEF Abstract!LossyNext
  <2>3. IInv(Slots) /\ CallTellsHistory /\ RotSlot =>
          (IInv(Slots) /\ CallTellsHistory)' /\ [Abstract!LossyNext]_(Abstract!vars)
    BY RotAgrees, RotLoses DEF Abstract!LossyNext
  <2> QED BY <2>1, <2>2, <2>3
<1> QED
  BY <1>1, <1>2, PTL DEF RotSpec, AtomicButLosses, Abstract!LossySpec

-----------------------------------------------------------------------------
(* The index a screen holds.                                               *)

\* A step leaves the history that is told, or moves the generation on.
MovesOn ==
  \/ /\ LiveMeta(file').seq = LiveMeta(file).seq
     /\ Told(file', LiveMeta(file')) = Told(file, LiveMeta(file))
  \/ LiveMeta(file').seq > LiveMeta(file).seq

\* The history told next is the same, one the request may leave, the imported one or
\* the empty one.
TellsNext ==
  LET h == Told(file, LiveMeta(file))
      g == Told(file', LiveMeta(file'))
  IN \/ g = h \/ g = EmptyHistory
     \/ pc = "meta" /\ g \in Abstract!Effects(h, req)
     \/ pc = "importRename" /\ file' = tmp

\* Every step of every call does both, the import and the fresh file included.
LEMMA FileStepsMoveOn ==
  ASSUME IInv(Slots), TypeOK', CallTellsHistory, [Next]_vars
  PROVE  MovesOn /\ TellsNext
<1>1. TypeOK /\ LiveIntact(Slots) /\ CallAgrees(Slots) /\ file \in File /\ file' \in File
  BY DEF IInv, TypeOK
<1>2. LiveMeta(file) \in Meta /\ LiveMeta(file).seq \in Nat
  BY <1>1, LiveMetaType DEF Meta
<1>3. CASE file' = file
  BY <1>3 DEF MovesOn, TellsNext
<1>4. CASE pc = "importRename" /\ file' = tmp
  <2>1. LiveMeta(file) = ClearMeta /\ LiveMeta(file').seq = 1
    BY <1>1, <1>4, LiveMetaType DEF CallTellsHistory
  <2> QED BY <1>4, <2>1 DEF MovesOn, TellsNext, ClearMeta
<1>5. CASE pc = "aside" /\ file' = NoFile
  <2>1. LiveMeta(file) = ClearMeta /\ LiveMeta(file') = ClearMeta
    BY <1>1, <1>5, LiveMetaType DEF CallTellsHistory, Readable, NoFile
  <2>2. Told(file, ClearMeta) = EmptyHistory /\ Told(file', ClearMeta) = EmptyHistory
    BY BlankHistory DEF ClearMeta
  <2> QED BY <2>1, <2>2 DEF MovesOn, TellsNext
<1>6. CASE pc = "createRename" /\ file' = tmp
  <2>1. LiveMeta(file) = ClearMeta /\ LiveMeta(file') = Sealed(1, EmptyDir, NoTotals)
    BY <1>1, <1>6, LiveMetaType, FreshFile DEF CallTellsHistory, CallAgrees
  <2>2. Told(file', LiveMeta(file')) = EmptyHistory
    BY <2>1, BlankHistory DEF Sealed
  <2> QED BY <2>1, <2>2 DEF MovesOn, TellsNext, ClearMeta, Sealed
<1>7. CASE pc = "slot" /\ file' # file
  <2> DEFINE slot == FreeSlot(LiveMeta(file).dir)
  <2>1. /\ Readable(file) /\ IntactBut(Slots, file, LiveMeta(file)) /\ LiveMeta(file).dir \in Directory
        /\ work.meta.dir = LiveMeta(file).dir /\ req \in Requests /\ req.op \in {"session", "finish"}
        /\ work.book \in BookVal
    BY <1>1, <1>2, <1>7 DEF LiveIntact, CallAgrees, TypeOK, Meta, Work, NoReq
  <2> DEFINE image == [key |-> req.key, val |-> work.book, sound |-> TRUE]
  <2>2. slot \in Slots /\ slot # NoSlot
    BY <2>1, SpareSlotExists
  <2>3. file.slot[slot] \in SlotImage /\ BadSlot \in SlotImage /\ image \in SlotImage
    BY <1>1, <2>1, <2>2, RequestFields, ConstantTypes DEF File, SlotImage
  <2>4. \E now \in {file.slot[slot], image, BadSlot} : file' = [file EXCEPT !.slot[slot] = now]
    <3>1. WriteSlot \/ PowerCut
      BY <1>7 DEF Next, vars, Ask, Prepare, Import, ImportFails, ImportMalformed, ImportBook,
         ImportMeta, ImportRename, ImportDone, Load, LoadFails, LoadUnreadable, LoadNotFound,
         LoadNothingToRecord, QuerySummary, LoadAndMerge, Create, SetAside, CreateFresh,
         CreateRename, WriteMeta
    <3>2. CASE WriteSlot
      BY <2>1, <2>2, <3>2 DEF WriteSlot
    <3>3. CASE PowerCut
      BY <1>7, <2>1, <2>2, <3>3 DEF PowerCut
    <3> QED BY <3>1, <3>2, <3>3
  <2>5. /\ LiveMeta(file') = LiveMeta(file)
        /\ Told(file', LiveMeta(file)) = Told(file, LiveMeta(file))
    BY <1>1, <2>1, <2>3, <2>4, FreeSlotWriteTellsTheSame
  <2> QED BY <2>5 DEF MovesOn, TellsNext
<1>8. CASE pc = "meta" /\ file' # file
  <2>1. \E left \in Torn(file.copy[OtherCopy(work.live)], NextMeta) :
          file' = [file EXCEPT !.copy[OtherCopy(work.live)] = left]
    <3>1. WriteMeta \/ PowerCut
      BY <1>8 DEF Next, vars, Ask, Prepare, Import, ImportFails, ImportMalformed, ImportBook,
         ImportMeta, ImportRename, ImportDone, Load, LoadFails, LoadUnreadable, LoadNotFound,
         LoadNothingToRecord, QuerySummary, LoadAndMerge, Create, SetAside, CreateFresh,
         CreateRename, WriteSlot
    <3>2. NextMeta \in Torn(file.copy[OtherCopy(work.live)], NextMeta)
      BY DEF Torn
    <3>3. CASE WriteMeta
      BY <3>2, <3>3 DEF WriteMeta
    <3>4. CASE PowerCut
      BY <1>8, <3>4 DEF PowerCut
    <3> QED BY <3>1, <3>3, <3>4
  <2>2. \/ /\ Told(file', LiveMeta(file')) = Told(file, LiveMeta(file))
           /\ LiveMeta(file') = LiveMeta(file)
        \/ /\ Told(file', LiveMeta(file')) \in Abstract!Effects(Told(file, LiveMeta(file)), req)
           /\ LiveMeta(file').seq = LiveMeta(file).seq + 1
    BY <1>8, <2>1, MetaWriteTells
  <2> QED BY <1>2, <1>8, <2>2 DEF MovesOn, TellsNext
<1>9. CASE /\ pc \notin {"slot", "meta"} /\ file' # file
  <2>1. ImportRename \/ SetAside \/ CreateRename
    BY <1>9 DEF Next, vars, Ask, Prepare, Import, ImportFails, ImportMalformed, ImportBook,
       ImportMeta, ImportDone, Load, LoadFails, LoadUnreadable, LoadNotFound,
       LoadNothingToRecord, QuerySummary, LoadAndMerge, Create, CreateFresh,
       WriteSlot, WriteMeta, PowerCut
  <2> QED BY <1>4, <1>5, <1>6, <1>9, <2>1 DEF ImportRename, SetAside, CreateRename
<1> QED BY <1>3, <1>7, <1>8, <1>9

\* An index is of the generation told now, or of an earlier one.
IndexIsOfItsGeneration ==
  view.here =>
    /\ view.seq <= LiveMeta(file).seq
    /\ view.seq = LiveMeta(file).seq =>
         \A b \in Books : Told(file, LiveMeta(file)).books[b].secs = view.secs[b]

\* The index is read in the order of the directory, and tells the times of the
\* books it refers to.
LEMMA IndexTellsTheTimes ==
  ASSUME NEW f \in File, NEW m \in Meta, IntactBut(Slots, f, m), NEW b \in Books
  PROVE  ViewOf(m).secs[b] = Told(f, m).books[b].secs
<1>1. ViewOf(m).secs[b] = IF Find(m.dir, b) = NoEntry THEN 0 ELSE m.dir[Find(m.dir, b)].secs
  BY DEF ViewOf
<1>2. Told(f, m).books[b] = BookIn(f, m, b)
  BY DEF Told
<1>3. CASE Find(m.dir, b) = NoEntry
  BY <1>1, <1>2, <1>3 DEF BookIn, NewBook
<1>4. CASE Find(m.dir, b) # NoEntry
  <2>1. Find(m.dir, b) \in Used(m.dir) /\ m.dir[Find(m.dir, b)].key = b
    BY <1>4, FindEntry DEF Meta
  <2>2. BookIn(f, m, b).secs = m.dir[Find(m.dir, b)].secs
    BY <2>1, BookOfEntry
  <2> QED BY <1>1, <1>2, <1>4, <2>2
<1> QED BY <1>3, <1>4

\* Every step keeps the index one of its generation.
LEMMA NextKeepsIndex ==
  ASSUME IInv(Slots), CallTellsHistory, IndexIsOfItsGeneration, [Next]_vars
  PROVE  IndexIsOfItsGeneration'
<1>1. TypeOK /\ TypeOK' /\ IInv(Slots)' /\ file \in File /\ file' \in File
  BY NextAgrees DEF IInv, TypeOK
<1>2. CASE QuerySummary
  <2> DEFINE m == LiveMeta(file)
  <2>1. file' = file /\ view' = ViewOf(m)
    BY <1>2 DEF QuerySummary
  <2>2. m \in Meta /\ IntactBut(Slots, file, m)
    <3>1. CASE Readable(file)
      BY <1>1, <3>1, LiveMetaType DEF IInv, LiveIntact
    <3>2. CASE ~Readable(file)
      BY <1>1, <3>2, LiveMetaType, EmptyIsIntact DEF ClearMeta
    <3> QED BY <3>1, <3>2
  <2>3. ViewOf(m).seq = m.seq /\ m.seq \in Nat
    BY <2>2 DEF ViewOf, Meta
  <2>4. \A b \in Books : ViewOf(m).secs[b] = Told(file, m).books[b].secs
    <3> HIDE DEF m
    <3> QED BY <1>1, <2>2, IndexTellsTheTimes
  <2> QED BY <2>1, <2>3, <2>4 DEF IndexIsOfItsGeneration
<1>3. CASE PowerCut
  BY <1>3 DEF PowerCut, NoView, IndexIsOfItsGeneration
<1>4. CASE ~QuerySummary /\ ~PowerCut
  <2>1. view' = view
    BY <1>4 DEF Next, vars, Ask, Prepare, Import, ImportFails, ImportMalformed, ImportBook,
       ImportMeta, ImportRename, ImportDone, Load, LoadFails, LoadUnreadable, LoadNotFound,
       LoadNothingToRecord, LoadAndMerge, Create, SetAside, CreateFresh, CreateRename,
       WriteSlot, WriteMeta
  <2>2. MovesOn
    BY <1>1, FileStepsMoveOn
  <2>3. view.seq \in Nat /\ LiveMeta(file).seq \in Nat /\ LiveMeta(file').seq \in Nat
    BY <1>1, LiveMetaType DEF TypeOK, Views, Meta
  <2> QED BY <2>1, <2>2, <2>3 DEF MovesOn, IndexIsOfItsGeneration
<1> QED BY <1>2, <1>3, <1>4

\* The rows queryBooksAt returns are of the index the caller holds, or it says
\* Stale: no write, import or failure changes a book under the same generation.
THEOREM RowsAreOfTheIndex == Spec => []RowsMatchIndex
<1>1. Init => IInv(Slots) /\ CallTellsHistory /\ IndexIsOfItsGeneration
  <2>1. Init => IInv(Slots)
    BY InitAgrees
  <2>2. Init => IndexIsOfItsGeneration
    BY DEF Init, NoView, IndexIsOfItsGeneration
  <2> QED BY <2>1, <2>2, InitTells
<1>2. IInv(Slots) /\ CallTellsHistory /\ IndexIsOfItsGeneration /\ [Next]_vars =>
        (IInv(Slots) /\ CallTellsHistory /\ IndexIsOfItsGeneration)'
  BY NextAgrees, NextTells, NextKeepsIndex
<1>3. IndexIsOfItsGeneration => RowsMatchIndex
  BY DEF IndexIsOfItsGeneration, RowsMatchIndex, QueryBooksAt, Told
<1> QED
  BY <1>1, <1>2, <1>3, PTL DEF Spec

\* What a lost slot costs is not in the index.
LEMMA RotKeepsIndex ==
  ASSUME IInv(Slots), CallTellsHistory, IndexIsOfItsGeneration, RotSlot
  PROVE  IndexIsOfItsGeneration'
<1> DEFINE m == LiveMeta(file)
<1>1. TypeOK /\ TypeOK' /\ file \in File /\ file' \in File /\ file'.copy = file.copy /\ file'.here = file.here
  BY RotKeepsTypes DEF IInv
<1>2. LiveMeta(file') = m /\ view' = view
  BY <1>1, LiveFollowsCopies DEF RotSlot
<1>3. HistoryOf(file) = Told(file, m) /\ HistoryOf(file') = Told(file', m)
  BY <1>1, <1>2, HistoryIsTold
<1>4. ASSUME NEW b \in Books PROVE Told(file', m).books[b].secs = Told(file, m).books[b].secs
  <2>1. CASE UNCHANGED Abstract!vars
    BY <1>3, <2>1 DEF Abstract!vars
  <2>2. CASE \E k \in Books : Abstract!Lose(k)
    <3> DEFINE h == Told(file, m)
    <3>1. PICK k \in Books : Told(file', m) = [h EXCEPT !.books[k].sess = 0]
      BY <1>3, <2>2 DEF Abstract!Lose
    <3>2. /\ h.books = [c \in Books |-> BookIn(file, m, c)]
          /\ h = [books |-> h.books, totals |-> m.totals]
      BY DEF Told
    <3>3. h.books[k] \in BookVal
      BY <1>1, <3>2, LiveMetaType, BookTypes
    <3> HIDE DEF h
    <3>4. Told(file', m).books = [h.books EXCEPT ![k].sess = 0]
      BY <3>1, <3>2
    <3>5. [h.books[k] EXCEPT !.sess = 0].secs = h.books[k].secs
      BY <3>3 DEF BookVal
    <3>6. Told(file', m).books[b].secs = h.books[b].secs
      BY <3>2, <3>4, <3>5
    <3> QED BY <3>6 DEF h
  <2> QED BY <2>1, <2>2, RotLoses
<1> HIDE DEF m
<1> QED BY <1>2, <1>4 DEF IndexIsOfItsGeneration, m

\* So it is whatever slots are lost: the rows of an index that is not stale read with
\* the times the index was ordered by.
THEOREM RowsSurviveLosses == RotSpec => []RowsMatchIndex
<1>1. Init => IInv(Slots) /\ CallTellsHistory /\ IndexIsOfItsGeneration
  <2>1. Init => IInv(Slots)
    BY InitAgrees
  <2>2. Init => IndexIsOfItsGeneration
    BY DEF Init, NoView, IndexIsOfItsGeneration
  <2> QED BY <2>1, <2>2, InitTells
<1>2. IInv(Slots) /\ CallTellsHistory /\ IndexIsOfItsGeneration /\ [Next \/ RotSlot]_vars =>
        (IInv(Slots) /\ CallTellsHistory /\ IndexIsOfItsGeneration)'
  <2>1. [Next \/ RotSlot]_vars => [Next]_vars \/ RotSlot
    OBVIOUS
  <2>2. IInv(Slots) /\ CallTellsHistory /\ IndexIsOfItsGeneration /\ [Next]_vars =>
          (IInv(Slots) /\ CallTellsHistory /\ IndexIsOfItsGeneration)'
    BY NextAgrees, NextTells, NextKeepsIndex
  <2>3. IInv(Slots) /\ CallTellsHistory /\ IndexIsOfItsGeneration /\ RotSlot =>
          (IInv(Slots) /\ CallTellsHistory /\ IndexIsOfItsGeneration)'
    BY RotAgrees, RotLoses, RotKeepsIndex
  <2> QED BY <2>1, <2>2, <2>3
<1>3. IndexIsOfItsGeneration => RowsMatchIndex
  BY DEF IndexIsOfItsGeneration, RowsMatchIndex, QueryBooksAt, Told
<1> QED
  BY <1>1, <1>2, <1>3, PTL DEF RotSpec

-----------------------------------------------------------------------------
(* What an import keeps.                                                   *)

\* The books a meta tells over a file.
BooksOf(f, m) == Told(f, m).books

\* The book of entry n is among `books` as that entry has it, or has lost its place
\* (so the directory is full) to books the cap would keep rather than it.
Keeps(books, full, n) ==
  LET book == LegacyBooks[n]
      kept == books[book.key]
  IN \/ kept = book.val
     \/ /\ full
        /\ \/ ~kept.known
           \/ \E m \in DOMAIN LegacyBooks :
                LegacyBooks[m].key = book.key /\ LegacyBooks[m].val = kept
        /\ \A b \in Books : books[b].known => ~EvictsBefore(books[b], book.val)

\* The entries before `next` have been read.
ReadSoFar(books, full, next) ==
  /\ \A n \in FirstEntries : n < next => Keeps(books, full, n)
  /\ \A b \in Books :
       books[b].known => \E n \in DOMAIN LegacyBooks : n < next /\ LegacyBooks[n].key = b

IsFull(m) == FreeEntry(m.dir) = NoEntry

ImportKeeps ==
  /\ pc = "import" => ReadSoFar(BooksOf(ImportFile, work.meta), IsFull(work.meta), work.next)
  /\ pc = "importRename" => \A n \in FirstEntries : Keeps(BooksOf(tmp, LiveMeta(tmp)), TRUE, n)
  /\ pc = "importDone" => \A n \in FirstEntries : Keeps(BooksOf(file, LiveMeta(file)), TRUE, n)

\* The JSON's entries are of books, and known.
LEMMA LegacyTypes ==
  /\ DOMAIN LegacyBooks = 1 .. Len(LegacyBooks) /\ Len(LegacyBooks) \in Nat
  /\ \A n \in DOMAIN LegacyBooks :
       /\ LegacyBooks[n].key \in Books /\ LegacyBooks[n].val \in BookVal
       /\ LegacyBooks[n].val.known /\ LegacyBooks[n].val # NewBook
  /\ \A n \in FirstEntries : n \in DOMAIN LegacyBooks
  /\ \A n, m \in DOMAIN LegacyBooks :
       n \in FirstEntries /\ m < n => LegacyBooks[m].key # LegacyBooks[n].key
<1>1. DOMAIN LegacyBooks = 1 .. Len(LegacyBooks) /\ Len(LegacyBooks) \in Nat
  BY LegacyAssumption
<1>2. ASSUME NEW n \in DOMAIN LegacyBooks
      PROVE  /\ LegacyBooks[n].key \in Books /\ LegacyBooks[n].val \in BookVal
             /\ LegacyBooks[n].val.known /\ LegacyBooks[n].val # NewBook
  <2>1. LegacyBooks[n] \in LegacyBook
    BY <1>1, LegacyAssumption
  <2> QED BY <2>1 DEF LegacyBook, NewBook
<1>3. \A n, m \in DOMAIN LegacyBooks :
        n \in FirstEntries /\ m < n => LegacyBooks[m].key # LegacyBooks[n].key
  BY <1>1 DEF FirstEntries
<1> QED BY <1>1, <1>2, <1>3 DEF FirstEntries

\* The order of eviction is one: what is not evicted before a book that is not
\* evicted before another is not evicted before that one.
LEMMA OrderOfEviction ==
  ASSUME NEW a \in BookVal, NEW b \in BookVal, NEW c \in BookVal, ~EvictsBefore(b, c)
  PROVE  /\ ~EvictsBefore(a, b) => ~EvictsBefore(a, c)
         /\ ~EvictsBefore(c, c)
         /\ EvictsBefore(c, a) => ~EvictsBefore(a, c)
BY DEF EvictsBefore, BookVal

\* An entry read into a place, over the book the cap evicts when the directory is
\* full, leaves every entry before it kept or rightly gone.
LEMMA PlacedKeeps ==
  ASSUME NEW h \in [Books -> BookVal], NEW g \in [Books -> BookVal],
         NEW N \in DOMAIN LegacyBooks, NEW full \in BOOLEAN, NEW v,
         LET x == LegacyBooks[N]
         IN /\ ~h[x.key].known /\ g[x.key] = x.val
            /\ \A b \in Books \ {x.key} : g[b] = IF full /\ b = v THEN NewBook ELSE h[b]
            /\ full => /\ v \in Books /\ h[v].known /\ ~EvictsBefore(x.val, h[v])
                       /\ \A b \in Books : h[b].known => ~EvictsBefore(h[b], h[v]),
         NEW n \in FirstEntries, Keeps(h, full, n)
  PROVE  Keeps(g, full, n)
<1> DEFINE x == LegacyBooks[N]
<1> DEFINE y == LegacyBooks[n]
<1>1. /\ x.key \in Books /\ x.val \in BookVal /\ x.val.known
      /\ y.key \in Books /\ y.val \in BookVal /\ y.val.known
  BY LegacyTypes
<1>2. ASSUME full, \A b \in Books : h[b].known => ~EvictsBefore(h[b], y.val)
      PROVE  \A b \in Books : g[b].known => ~EvictsBefore(g[b], y.val)
  <2>1. h[v] \in BookVal /\ ~EvictsBefore(h[v], y.val) /\ ~EvictsBefore(x.val, h[v])
    BY <1>2
  <2>2. ~EvictsBefore(x.val, y.val)
    BY <1>1, <2>1, OrderOfEviction
  <2>3. ~NewBook.known
    BY DEF NewBook
  <2> QED BY <1>2, <2>2, <2>3
<1>3. CASE h[y.key] # y.val
  <2>1. /\ full
        /\ \/ ~h[y.key].known
           \/ \E m \in DOMAIN LegacyBooks : LegacyBooks[m].key = y.key /\ LegacyBooks[m].val = h[y.key]
        /\ \A b \in Books : h[b].known => ~EvictsBefore(h[b], y.val)
    BY <1>3 DEF Keeps
  <2>2. \/ ~g[y.key].known
        \/ \E m \in DOMAIN LegacyBooks : LegacyBooks[m].key = y.key /\ LegacyBooks[m].val = g[y.key]
    <3>1. CASE y.key = x.key
      BY <3>1
    <3>2. CASE y.key # x.key /\ y.key = v
      BY <1>1, <2>1, <3>2 DEF NewBook
    <3>3. CASE y.key # x.key /\ y.key # v
      <4>1. g[y.key] = h[y.key]
        BY <1>1, <3>3
      <4> QED BY <2>1, <4>1
    <3> QED BY <3>1, <3>2, <3>3
  <2> QED BY <1>2, <2>1, <2>2 DEF Keeps
<1>4. CASE h[y.key] = y.val
  <2>1. y.key # x.key
    BY <1>1, <1>4
  <2>2. CASE ~(full /\ y.key = v)
    <3>1. g[y.key] = y.val
      BY <1>1, <1>4, <2>1, <2>2
    <3> QED BY <3>1 DEF Keeps
  <2>3. CASE full /\ y.key = v
    <3>1. ~g[y.key].known
      BY <1>1, <2>1, <2>3 DEF NewBook
    <3>2. \A b \in Books : h[b].known => ~EvictsBefore(h[b], y.val)
      BY <1>4, <2>3
    <3> QED BY <1>2, <2>3, <3>1, <3>2 DEF Keeps
  <2> QED BY <2>2, <2>3
<1> QED BY <1>3, <1>4

\* An entry left out belongs with the books the cap evicts.
LEMMA LeftOutKeeps ==
  ASSUME NEW h \in [Books -> BookVal], NEW N \in DOMAIN LegacyBooks, NEW v \in Books,
         LET x == LegacyBooks[N]
         IN /\ ~h[x.key].known /\ h[v].known /\ EvictsBefore(x.val, h[v])
            /\ \A b \in Books : h[b].known => ~EvictsBefore(h[b], h[v])
  PROVE  Keeps(h, TRUE, N)
<1> DEFINE x == LegacyBooks[N]
<1>1. x.val \in BookVal /\ h[v] \in BookVal
  BY LegacyTypes
<1>2. ASSUME NEW b \in Books, h[b].known PROVE ~EvictsBefore(h[b], x.val)
  <2>1. h[b] \in BookVal /\ ~EvictsBefore(h[b], h[v]) /\ EvictsBefore(x.val, h[v])
    BY <1>2
  <2> QED BY <1>1, <2>1 DEF EvictsBefore, BookVal
<1> QED BY <1>2 DEF Keeps

\* The victim of a full directory is a known book that no other is evicted before.
LEMMA VictimIsTold ==
  ASSUME NEW f \in File, NEW m \in Meta, IntactBut(Slots, f, m), KeysAreBooks(m), IsFull(m)
  PROVE  LET v == m.dir[Victim(m.dir)]
         IN /\ Victim(m.dir) \in Used(m.dir) /\ v.key \in Books
            /\ BookIn(f, m, v.key).known
            /\ v.last = BookIn(f, m, v.key).last /\ v.secs = BookIn(f, m, v.key).secs
            /\ \A b \in Books : BookIn(f, m, b).known =>
                 ~EvictsBefore(BookIn(f, m, b), BookIn(f, m, v.key))
<1> DEFINE i == Victim(m.dir)
<1> DEFINE v == m.dir[i]
<1>1. m.dir \in Directory /\ Used(m.dir) = Entries /\ Entries # {}
  <2>1. m.dir \in Directory
    BY DEF Meta
  <2>2. NoEntry \notin Entries /\ 1 \in Entries
    BY CapAssumption DEF Entries, NoEntry
  <2> QED BY <2>1, <2>2, FreeEntryIsFree DEF IsFull
<1>2. i \in Used(m.dir) /\ \A j \in Used(m.dir) : ~EvictsBefore(m.dir[j], v)
  BY <1>1, VictimIsUsed
<1> HIDE DEF i
<1>3. \A j \in Used(m.dir) :
        /\ BookIn(f, m, m.dir[j].key) = ReadBook(f, m.dir[j])
        /\ ReadBook(f, m.dir[j]).known
        /\ m.dir[j].secs = ReadBook(f, m.dir[j]).secs /\ m.dir[j].last = ReadBook(f, m.dir[j]).last
  BY BookOfEntry
<1>4. ASSUME NEW b \in Books, BookIn(f, m, b).known
      PROVE  ~EvictsBefore(BookIn(f, m, b), BookIn(f, m, v.key))
  <2>1. PICK j \in Used(m.dir) : m.dir[j].key = b
    <3>1. CASE \A j \in Used(m.dir) : m.dir[j].key # b
      BY <1>4, <3>1, NoEntryNoBook
    <3> QED BY <3>1
  <2>2. ~EvictsBefore(m.dir[j], v)
    BY <1>2
  <2>3. m.dir[j].secs = BookIn(f, m, b).secs /\ m.dir[j].last = BookIn(f, m, b).last
    BY <1>3, <2>1
  <2>4. v.secs = BookIn(f, m, v.key).secs /\ v.last = BookIn(f, m, v.key).last
    BY <1>2, <1>3
  <2> QED BY <2>2, <2>3, <2>4 DEF EvictsBefore
<1>5. v.key \in Books
  BY <1>2 DEF KeysAreBooks
<1> QED BY <1>2, <1>3, <1>4, <1>5 DEF i

\* One entry of the JSON is read.
LEMMA ImportBookKeeps ==
  ASSUME IInv(Slots), IInv(Slots)', CallTellsHistory, ImportKeeps, ImportBook
  PROVE  ImportKeeps'
<1> DEFINE N == work.next
<1> DEFINE x == LegacyBooks[N]
<1> DEFINE f == ImportFile
<1> DEFINE m == work.meta
<1> DEFINE dir == m.dir
<1> DEFINE full == FreeEntry(dir) = NoEntry
<1> DEFINE index == IF full THEN Victim(dir) ELSE FreeEntry(dir)
<1> DEFINE slot == IF full THEN dir[index].slot ELSE FreeSlot(dir)
<1> DEFINE h == BooksOf(f, m)
<1>1. /\ pc = "import" /\ pc' = "import" /\ KeysAreBooks(m)
      /\ f \in File /\ m \in Meta /\ dir \in Directory /\ IntactBut(Slots, f, m)
  BY ImportFileIsIntact DEF ImportBook, Step, CallTellsHistory
<1>2. N \in DOMAIN LegacyBooks /\ N \in Nat /\ N >= 1
  BY LegacyTypes DEF ImportBook
<1>3. x.key \in Books /\ x.val \in BookVal /\ x.val.known /\ x.val # NewBook
  BY <1>2, LegacyTypes
<1>4. h = [b \in Books |-> BookIn(f, m, b)] /\ h \in [Books -> BookVal]
  BY <1>1, BookTypes DEF BooksOf, Told
<1>5. ReadSoFar(h, full, N)
  BY <1>1 DEF ImportKeeps, IsFull
<1>6. N \in FirstEntries => ~h[x.key].known
  BY <1>2, <1>3, <1>5, LegacyTypes DEF ReadSoFar
<1>7. ASSUME NEW g, NEW n, NEW filled, ImportFile' = n, work'.next = N + 1,
             BooksOf(n, work'.meta) = g, IsFull(work'.meta) = filled,
             ReadSoFar(g, filled, N + 1)
      PROVE  ImportKeeps'
  BY <1>1, <1>7 DEF ImportKeeps
<1>8. CASE /\ tmp' = f /\ work' = [work EXCEPT !.next = @ + 1]
           /\ Find(dir, x.key) # NoEntry \/ (full /\ EvictsBefore(x.val, dir[index]))
  <2>1. work'.next = N + 1 /\ work'.meta = m
    BY <1>8 DEF IInv, TypeOK, Work
  <2>2. ImportFile' = f
    BY <1>2, <1>8, <2>1 DEF ImportFile
  <2>3. ASSUME N \in FirstEntries PROVE Keeps(h, full, N)
    <3>1. Find(dir, x.key) = NoEntry
      <4>1. CASE Find(dir, x.key) # NoEntry
        <5>1. Find(dir, x.key) \in Used(dir) /\ dir[Find(dir, x.key)].key = x.key
          BY <1>1, <4>1, FindEntry
        <5>2. BookIn(f, m, x.key).known
          BY <1>1, <5>1, BookOfEntry
        <5> QED BY <1>3, <1>4, <1>6, <2>3, <5>2
      <4> QED BY <4>1
    <3>2. full /\ EvictsBefore(x.val, dir[Victim(dir)])
      BY <1>8, <3>1
    <3> DEFINE v == dir[Victim(dir)]
    <3>3. /\ v.key \in Books /\ h[v.key].known
          /\ v.last = h[v.key].last /\ v.secs = h[v.key].secs
          /\ \A b \in Books : h[b].known => ~EvictsBefore(h[b], h[v.key])
      BY <1>1, <1>4, <3>2, VictimIsTold DEF IsFull
    <3>4. EvictsBefore(x.val, h[v.key])
      BY <3>2, <3>3 DEF EvictsBefore
    <3> HIDE DEF h, v, x, full
    <3> QED BY <1>2, <1>4, <1>6, <2>3, <3>2, <3>3, <3>4, LeftOutKeeps DEF x
  <2>4. ReadSoFar(h, full, N + 1)
    <3> HIDE DEF h, full
    <3> QED BY <1>2, <1>5, <2>3, LegacyTypes DEF ReadSoFar
  <2> QED BY <1>7, <2>1, <2>2, <2>4 DEF IsFull
<1>9. CASE /\ tmp' = [f EXCEPT !.slot[slot] = [key |-> x.key, val |-> x.val, sound |-> TRUE]]
           /\ work' = [work EXCEPT !.meta.dir[index] = EntryFor(x.key, x.val, slot), !.next = @ + 1]
           /\ Find(dir, x.key) = NoEntry /\ ~(full /\ EvictsBefore(x.val, dir[index]))
  <2> DEFINE v == dir[index].key
  <2>1. /\ index \in Entries /\ slot \in Slots /\ (full => index \in Used(dir))
        /\ \A j \in Used(dir) \ {index} : dir[j].slot # slot
    <3>1. CASE full
      <4>1. index \in Used(dir) /\ slot = dir[index].slot
        BY <1>1, <3>1, VictimIsTold DEF IsFull
      <4>2. \A i, j \in Used(dir) : i # j => dir[i].slot # dir[j].slot
        BY <1>1, Zenon DEF IntactBut
      <4> QED BY <1>1, <4>1, <4>2, UsedIsSubset
    <3>2. CASE ~full
      <4>1. index \in Entries
        BY <1>1, <3>2, FreeEntryIsFree
      <4> QED BY <1>1, <3>2, <4>1, SpareSlotExists
    <3> QED BY <3>1, <3>2
  <2>2. \A j \in Used(dir) : dir[j].key # x.key
    BY <1>1, <1>9, NoEntryIsNowhere
  <2>3. ~full => index \notin Used(dir)
    BY <1>1, FreeEntryIsFree
  <2>4. ~h[x.key].known
    BY <1>1, <1>3, <1>4, <2>2, NoEntryNoBook
  <2>5. full => /\ v \in Books /\ h[v].known /\ ~EvictsBefore(x.val, h[v])
                /\ \A b \in Books : h[b].known => ~EvictsBefore(h[b], h[v])
    <3> SUFFICES ASSUME full
                 PROVE  /\ v \in Books /\ h[v].known /\ ~EvictsBefore(x.val, h[v])
                        /\ \A b \in Books : h[b].known => ~EvictsBefore(h[b], h[v])
      OBVIOUS
    <3>1. /\ v \in Books /\ h[v].known
          /\ dir[index].last = h[v].last /\ dir[index].secs = h[v].secs
          /\ \A b \in Books : h[b].known => ~EvictsBefore(h[b], h[v])
      BY <1>1, <1>4, VictimIsTold DEF IsFull
    <3>2. ~EvictsBefore(x.val, h[v])
      BY <1>9, <3>1 DEF EvictsBefore
    <3> QED BY <3>1, <3>2
  <2> HIDE DEF x, index, slot, v, full, f, h
  <2>6. CanPut(f, m, x.key, x.val, index, slot)
    BY <1>1, <1>3, <2>1, <2>2 DEF CanPut
  <2> DEFINE p == SlotPut(f, x.key, x.val, slot)
  <2> DEFINE n == EntryPut(m, x.key, x.val, index, slot)
  <2> DEFINE g == BooksOf(p, n)
  <2>7. work'.next = N + 1 /\ work'.meta = n
    BY <1>9 DEF IInv, TypeOK, Work, Meta, EntryPut
  <2>8. ImportFile' = p
    BY <1>2, <1>9, <2>7 DEF ImportFile, SlotPut
  <2>9. \A b \in Books : g[b] = IF b = x.key THEN x.val
                                ELSE IF index \in Used(dir) /\ b = dir[index].key THEN NewBook
                                ELSE h[b]
    <3>1. g = [b \in Books |-> BookIn(p, n, b)]
      BY DEF BooksOf, Told
    <3> HIDE DEF p, n, g
    <3>2. \A b \in Books : BookIn(p, n, b) = IF b = x.key THEN x.val
                                ELSE IF index \in Used(dir) /\ b = dir[index].key THEN NewBook
                                ELSE BookIn(f, m, b)
      BY <2>6, PutTells DEF p, n
    <3> QED BY <1>4, <3>1, <3>2
  <2>10. g \in [Books -> BookVal]
    <3>1. g = [b \in Books |-> g[b]]
      BY DEF BooksOf, Told
    <3> HIDE DEF g
    <3>2. \A b \in Books : g[b] \in BookVal
      BY <1>3, <1>4, <2>9, ConstantTypes
    <3> QED BY <3>1, <3>2
  <2>11. full => IsFull(n)
    <3> SUFFICES ASSUME full PROVE IsFull(n)
      OBVIOUS
    <3>1. Used(dir) = Entries
      <4>1. NoEntry \notin Entries
        BY CapAssumption DEF Entries, NoEntry
      <4> QED BY <1>1, <4>1, FreeEntryIsFree DEF full
    <3>2. n.dir = [dir EXCEPT ![index] = EntryFor(x.key, x.val, slot)]
      BY <1>1 DEF EntryPut, Meta
    <3>3. slot # NoSlot /\ EntryFor(x.key, x.val, slot).slot = slot
      BY <2>1, CapAssumption DEF EntryFor, Slots, NoSlot
    <3>4. Used(n.dir) = Entries
      BY <1>1, <3>1, <3>2, <3>3 DEF Used, Directory
    <3> QED BY <3>4 DEF IsFull, FreeEntry
  <2> HIDE DEF g, p, n
  <2>12. ReadSoFar(g, IsFull(n), N + 1)
    <3>1. ASSUME NEW e \in FirstEntries, e < N + 1 PROVE Keeps(g, IsFull(n), e)
      <4>1. CASE e = N
        BY <1>3, <2>9, <4>1 DEF Keeps, x
      <4>2. CASE e # N
        <5>1. e < N
          BY <1>2, <3>1, <4>2, LegacyTypes
        <5>2. Keeps(h, full, e)
          BY <1>5, <5>1 DEF ReadSoFar
        <5>3. g[x.key] = x.val
              /\ \A b \in Books \ {x.key} : g[b] = IF full /\ b = v THEN NewBook ELSE h[b]
          BY <1>3, <2>1, <2>3, <2>9 DEF v
        <5>4. full \in BOOLEAN
          BY DEF full
        <5>5. Keeps(g, full, e)
          BY <1>2, <1>4, <2>4, <2>5, <2>10, <5>2, <5>3, <5>4, PlacedKeeps DEF x
        <5> QED BY <2>11, <5>5 DEF Keeps
      <4> QED BY <4>1, <4>2
    <3>2. ASSUME NEW b \in Books, g[b].known
          PROVE  \E e \in DOMAIN LegacyBooks : e < N + 1 /\ LegacyBooks[e].key = b
      <4>1. CASE b = x.key
        BY <1>2, <4>1 DEF x
      <4>2. CASE b # x.key
        <5>1. h[b].known
          BY <2>9, <3>2, <4>2 DEF NewBook
        <5>2. PICK e \in DOMAIN LegacyBooks : e < N /\ LegacyBooks[e].key = b
          BY <1>5, <5>1 DEF ReadSoFar
        <5> QED BY <1>2, <5>2, LegacyTypes
      <4> QED BY <4>1, <4>2
    <3> QED BY <3>1, <3>2 DEF ReadSoFar
  <2> QED BY <1>7, <2>7, <2>8, <2>12 DEF g
<1>10. LET skip == Find(dir, x.key) # NoEntry \/ (full /\ EvictsBefore(x.val, dir[index]))
       IN IF skip THEN /\ tmp' = f /\ work' = [work EXCEPT !.next = @ + 1]
          ELSE /\ tmp' = [f EXCEPT !.slot[slot] = [key |-> x.key, val |-> x.val, sound |-> TRUE]]
               /\ work' = [work EXCEPT !.meta.dir[index] = EntryFor(x.key, x.val, slot),
                                       !.next = @ + 1]
  BY Zenon DEF ImportBook, ImportFile
<1> HIDE DEF x, f, full, index, slot, dir
<1> QED BY <1>8, <1>9, <1>10

\* The scan is over, and the new history takes its place.
LEMMA ImportEndsKept ==
  ASSUME IInv(Slots), IInv(Slots)', ImportKeeps, ImportMeta \/ ImportRename
  PROVE  ImportKeeps'
<1>1. CASE ImportMeta
  <2>1. pc = "import" /\ pc' = "importRename" /\ work.next > Len(LegacyBooks)
    BY <1>1 DEF ImportMeta, Step
  <2>2. /\ tmp' \in File /\ LiveMeta(tmp') \in Meta /\ tmp'.slot = ImportFile.slot
        /\ LiveMeta(tmp').dir = work.meta.dir
    BY <1>1, ImportedMeta
  <2>3. ImportFile \in File /\ work.meta \in Meta
    BY <2>1, ImportFileIsIntact
  <2>4. BooksOf(tmp', LiveMeta(tmp')) = BooksOf(ImportFile, work.meta)
    <3>1. \A b : BookIn(tmp', LiveMeta(tmp'), b) = BookIn(ImportFile, work.meta, b)
      BY <2>2, <2>3, SameBooks
    <3> QED BY <3>1 DEF BooksOf, Told
  <2>5. ASSUME NEW n \in FirstEntries PROVE Keeps(BooksOf(tmp', LiveMeta(tmp')), TRUE, n)
    <3>1. n < work.next
      <4>1. n \in 1 .. Len(LegacyBooks) /\ work.next \in Nat
        BY LegacyTypes DEF IInv, TypeOK, Work
      <4> QED BY <2>1, <4>1, LegacyTypes
    <3>2. Keeps(BooksOf(ImportFile, work.meta), IsFull(work.meta), n)
      BY <2>1, <3>1 DEF ImportKeeps, ReadSoFar
    <3> QED BY <2>4, <3>2 DEF Keeps
  <2> QED BY <2>1, <2>5 DEF ImportKeeps
<1>2. CASE ImportRename
  BY <1>2 DEF ImportRename, Fail, Answer, Step, ImportKeeps
<1> QED BY <1>1, <1>2

LEMMA NextKeepsImport ==
  ASSUME IInv(Slots), CallTellsHistory, ImportKeeps, [Next \/ RotSlot]_vars
  PROVE  ImportKeeps'
<1>1. ASSUME pc' \notin {"import", "importRename", "importDone"} PROVE ImportKeeps'
  BY <1>1 DEF ImportKeeps
<1>2. CASE ImportBook \/ ImportMeta \/ ImportRename
  <2>1. [Next]_vars
    BY <1>2 DEF Next, Import
  <2>2. IInv(Slots)'
    BY <2>1, NextAgrees
  <2> QED BY <1>2, <2>2, ImportBookKeeps, ImportEndsKept
<1>3. CASE Prepare
  <2>1. CASE pc' = "import"
    <3>1. work' = NoWork /\ work'.next = 1 /\ work'.meta.dir = EmptyDir
      BY <1>3 DEF Prepare, IInv, CallAgrees, NoWork, ClearMeta
    <3>2. \A k : BookIn(ImportFile', work'.meta, k) = NewBook
      BY <3>1, BlankTellsNothing
    <3>3. ReadSoFar(BooksOf(ImportFile', work'.meta), IsFull(work'.meta), 1)
      <4>1. \A n \in FirstEntries : ~(n < 1)
        BY LegacyTypes
      <4> QED BY <3>2, <4>1 DEF ReadSoFar, BooksOf, Told, NewBook
    <3> QED BY <2>1, <3>1, <3>3 DEF ImportKeeps
  <2>2. CASE pc' # "import"
    BY <1>1, <1>3, <2>2 DEF Prepare, Step
  <2> QED BY <2>1, <2>2
<1>4. CASE ImportFails \/ ImportMalformed \/ ImportDone
  BY <1>1, <1>4 DEF ImportFails, ImportMalformed, ImportDone, Fail, Answer, Step
<1>5. CASE Load
  BY <1>1, <1>5 DEF Load, LoadFails, LoadUnreadable, LoadNotFound, LoadNothingToRecord,
     QuerySummary, LoadAndMerge, Fail, Answer, Step
<1>6. CASE Create
  BY <1>1, <1>6 DEF Create, SetAside, CreateFresh, CreateRename, Fail, Answer, Step
<1>7. CASE WriteSlot \/ WriteMeta
  BY <1>1, <1>7 DEF WriteSlot, WriteMeta, Fail, Answer, Step
<1>8. CASE PowerCut \/ \E r \in Requests : Ask(r)
  <2>1. CASE PowerCut
    BY <1>1, <2>1 DEF PowerCut, Answer
  <2>2. CASE \E r \in Requests : Ask(r)
    BY <1>1, <2>2 DEF Ask
  <2> QED BY <1>8, <2>1, <2>2
<1>9. CASE RotSlot
  BY <1>1, <1>9 DEF RotSlot
<1>10. CASE UNCHANGED vars
  BY <1>10 DEF vars, ImportKeeps, ImportFile
<1> QED
  BY <1>2, <1>3, <1>4, <1>5, <1>6, <1>7, <1>8, <1>9, <1>10 DEF Next, Import

\* The import keeps what the cap would keep of the older JSON, however many books it
\* has, in whatever order and however often each.
THEOREM ImportAlwaysKeepsTheLatest == RotSpec => []ImportKeepsTheLatest
<1>1. Init => IInv(Slots) /\ CallTellsHistory /\ ImportKeeps
  BY InitAgrees, InitTells DEF Init, ImportKeeps
<1>2. IInv(Slots) /\ CallTellsHistory /\ ImportKeeps /\ [Next \/ RotSlot]_vars =>
        (IInv(Slots) /\ CallTellsHistory /\ ImportKeeps)'
  <2>1. [Next \/ RotSlot]_vars => [Next]_vars \/ RotSlot
    OBVIOUS
  <2>2. IInv(Slots) /\ CallTellsHistory /\ [Next]_vars => (IInv(Slots) /\ CallTellsHistory)'
    BY NextAgrees, NextTells
  <2>3. IInv(Slots) /\ CallTellsHistory /\ RotSlot => (IInv(Slots) /\ CallTellsHistory)'
    BY RotAgrees, RotLoses
  <2> QED BY <2>1, <2>2, <2>3, NextKeepsImport
<1>3. IInv(Slots) /\ ImportKeeps => ImportKeepsTheLatest
  <2> SUFFICES ASSUME IInv(Slots), ImportKeeps, pc = "importDone"
               PROVE  ImportKeepsTheLatest
    BY DEF ImportKeepsTheLatest
  <2>1. HistoryOf(file).books = BooksOf(file, LiveMeta(file))
    BY HistoryIsTold DEF BooksOf, IInv, TypeOK
  <2>2. \A n \in FirstEntries : Keeps(HistoryOf(file).books, TRUE, n)
    BY <2>1 DEF ImportKeeps
  <2> QED BY <2>2 DEF ImportKeepsTheLatest, Keeps
<1> QED
  BY <1>1, <1>2, <1>3, PTL DEF RotSpec

-----------------------------------------------------------------------------
(* The totals and the books.                                               *)

BookSecs(books) == SumFunctionOnSet([b \in Books |-> books[b].secs], Books)
BookSess(books) == SumFunctionOnSet([b \in Books |-> books[b].sess], Books)

\* No book has more in `g` than in `h`.
NoMoreIn(g, h, S) == \A b \in S : g[b].secs <= h[b].secs /\ g[b].sess <= h[b].sess

LEMMA CoversAsSums ==
  ASSUME NEW h
  PROVE  CoversBooks(h) <=> h.totals.secs >= BookSecs(h.books) /\ h.totals.sess >= BookSess(h.books)
BY DEF CoversBooks, BookSecs, BookSess, SumFunction

\* The sums are numbers, and grow as the books do.
LEMMA BookSums ==
  ASSUME IsFiniteSet(Books), NEW h \in [Books -> BookVal]
  PROVE  /\ BookSecs(h) \in Nat /\ BookSess(h) \in Nat
         /\ \A b \in Books : h[b].secs \in Nat /\ h[b].sess \in Nat
<1>1. \A b \in Books : h[b].secs \in Nat /\ h[b].sess \in Nat
  BY DEF BookVal
<1> DEFINE secs == [b \in Books |-> h[b].secs]
<1> DEFINE sess == [b \in Books |-> h[b].sess]
<1>2. \A b \in Books : secs[b] \in Nat /\ sess[b] \in Nat
  BY <1>1
<1> HIDE DEF secs, sess
<1>3. SumFunctionOnSet(secs, Books) \in Nat /\ SumFunctionOnSet(sess, Books) \in Nat
  BY <1>2, SumOfNaturals
<1> QED BY <1>1, <1>3 DEF BookSecs, BookSess, secs, sess

LEMMA OneBookGrows ==
  ASSUME IsFiniteSet(Books), NEW h \in [Books -> BookVal], NEW g \in [Books -> BookVal],
         NEW y \in Books, NEW d \in Nat, NEW e \in Nat, NoMoreIn(g, h, Books \ {y}),
         g[y].secs <= h[y].secs + d, g[y].sess <= h[y].sess + e
  PROVE  BookSecs(g) <= BookSecs(h) + d /\ BookSess(g) <= BookSess(h) + e
<1> DEFINE hs == [b \in Books |-> h[b].secs]
<1> DEFINE gs == [b \in Books |-> g[b].secs]
<1> DEFINE hn == [b \in Books |-> h[b].sess]
<1> DEFINE gn == [b \in Books |-> g[b].sess]
<1>1. \A b \in Books : hs[b] \in Nat /\ gs[b] \in Nat /\ hn[b] \in Nat /\ gn[b] \in Nat
  BY BookSums
<1>2. /\ gs[y] <= hs[y] + d /\ gn[y] <= hn[y] + e
      /\ \A b \in Books \ {y} : gs[b] <= hs[b] /\ gn[b] <= hn[b]
  BY DEF NoMoreIn
<1> HIDE DEF hs, gs, hn, gn
<1>3. SumFunctionOnSet(gs, Books) <= SumFunctionOnSet(hs, Books) + d
  BY <1>1, <1>2, SumWithOneMore
<1>4. SumFunctionOnSet(gn, Books) <= SumFunctionOnSet(hn, Books) + e
  BY <1>1, <1>2, SumWithOneMore
<1> QED BY <1>3, <1>4 DEF BookSecs, BookSess, hs, gs, hn, gn

LEMMA OneBookGoes ==
  ASSUME IsFiniteSet(Books), NEW h \in [Books -> BookVal], NEW g \in [Books -> BookVal],
         NEW y \in Books, NoMoreIn(g, h, Books \ {y}), g[y] = NewBook
  PROVE  BookSecs(g) + h[y].secs <= BookSecs(h) /\ BookSess(g) + h[y].sess <= BookSess(h)
<1> DEFINE hs == [b \in Books |-> h[b].secs]
<1> DEFINE gs == [b \in Books |-> g[b].secs]
<1> DEFINE hn == [b \in Books |-> h[b].sess]
<1> DEFINE gn == [b \in Books |-> g[b].sess]
<1>1. \A b \in Books : hs[b] \in Nat /\ gs[b] \in Nat /\ hn[b] \in Nat /\ gn[b] \in Nat
  BY BookSums
<1>2. /\ gs[y] = 0 /\ gn[y] = 0 /\ hs[y] = h[y].secs /\ hn[y] = h[y].sess
      /\ \A b \in Books \ {y} : gs[b] <= hs[b] /\ gn[b] <= hn[b]
  BY DEF NoMoreIn, NewBook
<1> HIDE DEF hs, gs, hn, gn
<1>3. SumFunctionOnSet(gs, Books) + hs[y] <= SumFunctionOnSet(hs, Books)
  BY <1>1, <1>2, SumWithoutOne
<1>4. SumFunctionOnSet(gn, Books) + hn[y] <= SumFunctionOnSet(hn, Books)
  BY <1>1, <1>2, SumWithoutOne
<1> QED BY <1>2, <1>3, <1>4 DEF BookSecs, BookSess, hs, gs, hn, gn

\* A history that tells of no book is covered.
LEMMA NothingToCover ==
  ASSUME IsFiniteSet(Books), NEW books, \A b \in Books : books[b] = NewBook
  PROVE  BookSecs(books) = 0 /\ BookSess(books) = 0
<1> DEFINE z == [b \in Books |-> 0]
<1>1. BookSecs(books) = SumFunctionOnSet(z, Books) /\ BookSess(books) = SumFunctionOnSet(z, Books)
  <2>1. [b \in Books |-> books[b].secs] = z /\ [b \in Books |-> books[b].sess] = z
    BY DEF NewBook
  <2> QED BY <2>1 DEF BookSecs, BookSess
<1>2. \A b \in Books : z[b] = 0
  OBVIOUS
<1> HIDE DEF z
<1>3. SumFunctionOnSet(z, Books) = 0
  BY <1>2, SumOfZeros
<1> QED BY <1>1, <1>3

\* A session or a finish adds to the totals what it adds to its book, whatever is
\* evicted for it.
LEMMA PutCovers ==
  ASSUME IsFiniteSet(Books), NEW h \in History, CoversBooks(h),
         NEW r \in Requests, r.op \in {"session", "finish"},
         NEW books \in [Books -> BookVal], NoMoreIn(books, h.books, Books)
  PROVE  CoversBooks([books |-> [books EXCEPT ![r.key] = Merged(@, r)],
                      totals |-> Added(h.totals, r)])
<1> DEFINE k == r.key
<1> DEFINE one == IF r.op = "session" /\ r.secs > 0 THEN 1 ELSE 0
<1> DEFINE g == [books EXCEPT ![k] = Merged(@, r)]
<1> DEFINE t == Added(h.totals, r)
<1>1. k \in Books /\ r.secs \in Nat /\ one \in Nat /\ books[k] \in BookVal
  BY RequestFields
<1>2. h.books \in [Books -> BookVal] /\ h.totals.secs \in Nat /\ h.totals.sess \in Nat
      /\ h.totals \in Totals
  BY DEF History, Totals
<1>3. /\ Merged(books[k], r) \in BookVal
      /\ Merged(books[k], r).secs = books[k].secs + r.secs
      /\ Merged(books[k], r).sess = books[k].sess + one
  <2>1. Merged(books[k], r) \in BookVal
    BY <1>1, <1>2, ArithmeticTypes
  <2> DEFINE b == books[k]
  <2>2. b \in BookVal
    BY <1>1
  <2> HIDE DEF b
  <2>3. CASE r.op = "session"
    <3>1. Merged(b, r) = [known |-> TRUE, secs |-> b.secs + r.secs,
                          sess |-> b.sess + (IF r.secs > 0 THEN 1 ELSE 0),
                          fin |-> b.fin, last |-> IF r.at # 0 THEN r.at ELSE b.last]
      BY <2>2, <2>3 DEF Merged, BookVal
    <3> QED BY <2>1, <2>3, <3>1 DEF b
  <2>4. CASE r.op = "finish"
    <3>1. r.secs = 0
      BY <2>4 DEF Requests
    <3>2. Merged(b, r) = [known |-> TRUE, secs |-> b.secs, sess |-> b.sess,
                          fin |-> b.fin + 1, last |-> Larger(b.last, r.at)]
      BY <2>2, <2>4 DEF Merged, BookVal
    <3>3. b.secs \in Nat /\ b.sess \in Nat
      BY <2>2 DEF BookVal
    <3> QED BY <2>1, <2>4, <3>1, <3>2, <3>3 DEF b
  <2> QED BY <2>1, <2>3, <2>4
<1>4. /\ g \in [Books -> BookVal] /\ g[k] = Merged(books[k], r)
      /\ \A b \in Books \ {k} : g[b] = books[b]
  BY <1>1, <1>3
<1>5. t.secs = h.totals.secs + r.secs /\ t.sess = h.totals.sess + one
  BY DEF Added
<1> HIDE DEF k, one, g, t
<1>6. /\ NoMoreIn(g, h.books, Books \ {k})
      /\ g[k].secs <= h.books[k].secs + r.secs /\ g[k].sess <= h.books[k].sess + one
  <2>1. \A b \in Books : books[b].secs \in Nat /\ books[b].sess \in Nat
    BY BookSums
  <2>2. \A b \in Books : h.books[b].secs \in Nat /\ h.books[b].sess \in Nat
    BY <1>2, BookSums
  <2>3. books[k].secs <= h.books[k].secs /\ books[k].sess <= h.books[k].sess
    BY <1>1 DEF NoMoreIn
  <2>4. NoMoreIn(g, h.books, Books \ {k})
    BY <1>4 DEF NoMoreIn
  <2> QED BY <1>1, <1>3, <1>4, <2>1, <2>2, <2>3, <2>4
<1>7. BookSecs(g) <= BookSecs(h.books) + r.secs /\ BookSess(g) <= BookSess(h.books) + one
  BY <1>1, <1>2, <1>4, <1>6, OneBookGrows
<1>8. /\ BookSecs(g) \in Nat /\ BookSess(g) \in Nat
      /\ BookSecs(h.books) \in Nat /\ BookSess(h.books) \in Nat
  BY <1>2, <1>4, BookSums
<1>9. h.totals.secs >= BookSecs(h.books) /\ h.totals.sess >= BookSess(h.books)
  BY CoversAsSums
<1>10. t.secs >= BookSecs(g) /\ t.sess >= BookSess(g)
  BY <1>1, <1>2, <1>5, <1>7, <1>8, <1>9
<1>11. CoversBooks([books |-> g, totals |-> t])
  BY <1>10, CoversAsSums
<1> QED BY <1>11 DEF g, t, k

\* A removal takes its book's whole share out: the totals hold it, so nothing is cut off.
LEMMA RemovalCovers ==
  ASSUME IsFiniteSet(Books), NEW h \in History, CoversBooks(h), NEW k \in Books
  PROVE  CoversBooks([books |-> [h.books EXCEPT ![k] = NewBook],
                      totals |-> TakenOut(h.totals, h.books[k])])
<1> DEFINE g == [h.books EXCEPT ![k] = NewBook]
<1> DEFINE t == TakenOut(h.totals, h.books[k])
<1>1. h.books \in [Books -> BookVal] /\ h.totals.secs \in Nat /\ h.totals.sess \in Nat
  BY DEF History, Totals
<1>2. h.books[k].secs \in Nat /\ h.books[k].sess \in Nat /\ BookSecs(h.books) \in Nat
      /\ BookSess(h.books) \in Nat /\ \A b \in Books : h.books[b].secs \in Nat /\ h.books[b].sess \in Nat
  BY <1>1, BookSums
<1>3. /\ g \in [Books -> BookVal] /\ g[k] = NewBook
      /\ \A b \in Books \ {k} : g[b] = h.books[b]
  BY <1>1, ConstantTypes
<1>4. h.totals.secs >= BookSecs(h.books) /\ h.totals.sess >= BookSess(h.books)
  BY CoversAsSums
<1> HIDE DEF g
<1>5. BookSecs(g) \in Nat /\ BookSess(g) \in Nat
  BY <1>3, BookSums
<1>6. NoMoreIn(g, h.books, Books \ {k})
  BY <1>2, <1>3 DEF NoMoreIn
<1>7. BookSecs(g) + h.books[k].secs <= BookSecs(h.books)
      /\ BookSess(g) + h.books[k].sess <= BookSess(h.books)
  BY <1>1, <1>3, <1>6, OneBookGoes
<1>8. t.secs = h.totals.secs - h.books[k].secs /\ t.sess = h.totals.sess - h.books[k].sess
  <2>1. h.books[k].secs <= h.totals.secs /\ h.books[k].sess <= h.totals.sess
    BY <1>1, <1>2, <1>4, <1>5, <1>7
  <2>2. Smaller(h.totals.secs, h.books[k].secs) = h.books[k].secs
    BY <1>1, <1>2, <2>1 DEF Smaller
  <2>3. Smaller(h.totals.sess, h.books[k].sess) = h.books[k].sess
    BY <1>1, <1>2, <2>1 DEF Smaller
  <2> QED BY <2>2, <2>3 DEF TakenOut
<1> HIDE DEF t
<1>9. t.secs >= BookSecs(g) /\ t.sess >= BookSess(g)
  BY <1>1, <1>2, <1>4, <1>5, <1>7, <1>8
<1>10. CoversBooks([books |-> g, totals |-> t])
  BY <1>9, CoversAsSums
<1> QED BY <1>10 DEF g, t

\* Whatever a request leaves, the totals cover the books as they did before it.
LEMMA EffectsCover ==
  ASSUME IsFiniteSet(Books), NEW h \in History, CoversBooks(h), NEW r \in Requests,
         NEW g \in Abstract!Effects(h, r)
  PROVE  CoversBooks(g)
<1>0. h.books \in [Books -> BookVal]
  BY DEF History
<1>1. CASE r.op = "summary"
  <2>1. Abstract!Effects(h, r) = {h}
    BY <1>1 DEF Abstract!Effects
  <2> QED BY <2>1
<1>2. CASE r.op = "remove"
  <2>1. r.key \in Books
    BY <1>2, RequestFields
  <2>2. CASE ~h.books[r.key].known
    <3>1. Abstract!Effects(h, r) = {h}
      BY <1>2, <2>2 DEF Abstract!Effects
    <3> QED BY <3>1
  <2>3. CASE h.books[r.key].known
    <3> DEFINE w == Abstract!Without(h, r.key)
    <3>1. g = [w EXCEPT !.totals = Abstract!TakenOut(@, h.books[r.key])]
      BY <1>2, <2>3 DEF Abstract!Effects
    <3>2. w = [books |-> [h.books EXCEPT ![r.key] = NewBook], totals |-> h.totals]
      BY SameArithmetic DEF Abstract!Without, History
    <3> HIDE DEF w
    <3>3. g = [books |-> [h.books EXCEPT ![r.key] = NewBook],
               totals |-> TakenOut(h.totals, h.books[r.key])]
      BY <3>1, <3>2, SameArithmetic
    <3> QED BY <2>1, <3>3, RemovalCovers
  <2> QED BY <2>2, <2>3
<1>3. CASE r.op \in {"session", "finish"}
  <2>1. r.key \in Books
    BY <1>3, RequestFields
  <2>2. \/ g = h \/ g = Abstract!Put(h, r)
        \/ \E v \in Abstract!Victims(h) : g = Abstract!Put(Abstract!Without(h, v), r)
    <3>1. Abstract!Effects(h, r) =
            IF h.books[r.key].known THEN {Abstract!Put(h, r)}
            ELSE IF r.op = "session" /\ r.secs = 0 THEN {h}
            ELSE IF Cardinality(Abstract!Known(h)) < Cap THEN {Abstract!Put(h, r)}
            ELSE {Abstract!Put(Abstract!Without(h, v), r) : v \in Abstract!Victims(h)}
      BY <1>3, EffectsOfPut
    <3> QED BY <3>1
  <2>3. ASSUME NEW w, w.totals = h.totals, w.books \in [Books -> BookVal],
               NoMoreIn(w.books, h.books, Books), g = Abstract!Put(w, r)
        PROVE  CoversBooks(g)
    <3>1. g = [books |-> [w.books EXCEPT ![r.key] = Merged(@, r)],
               totals |-> Added(h.totals, r)]
      BY <2>3, SameArithmetic DEF Abstract!Put
    <3> QED BY <1>3, <2>3, <3>1, PutCovers
  <2>4. CASE g = Abstract!Put(h, r)
    <3>1. NoMoreIn(h.books, h.books, Books)
      BY <1>0, BookSums DEF NoMoreIn
    <3> QED BY <1>0, <2>3, <2>4, <3>1
  <2>5. CASE \E v \in Abstract!Victims(h) : g = Abstract!Put(Abstract!Without(h, v), r)
    <3>1. PICK v \in Abstract!Victims(h) : g = Abstract!Put(Abstract!Without(h, v), r)
      BY <2>5
    <3> DEFINE w == Abstract!Without(h, v)
    <3>2. v \in Books
      BY DEF Abstract!Victims, Abstract!Known
    <3>3. w.books = [h.books EXCEPT ![v] = NewBook] /\ w.totals = h.totals
      BY SameArithmetic DEF Abstract!Without, History
    <3> HIDE DEF w
    <3>4. w.books \in [Books -> BookVal] /\ w.books[v] = NewBook
          /\ \A b \in Books \ {v} : w.books[b] = h.books[b]
      BY <1>0, <3>2, <3>3, ConstantTypes
    <3>5. NoMoreIn(w.books, h.books, Books)
      <4>1. \A b \in Books : h.books[b].secs \in Nat /\ h.books[b].sess \in Nat
        BY <1>0, BookSums
      <4> QED BY <3>4, <4>1 DEF NoMoreIn, NewBook
    <3>6. g = Abstract!Put(w, r)
      BY <3>1 DEF w
    <3> QED BY <2>3, <3>3, <3>4, <3>5, <3>6
  <2> QED BY <2>2, <2>4, <2>5
<1> QED BY <1>1, <1>2, <1>3 DEF Requests

\* What is told of a file is a history.
LEMMA ToldType ==
  ASSUME NEW f \in File, NEW m \in Meta
  PROVE  Told(f, m) \in History
<1>1. \A b \in Books : BookIn(f, m, b) \in BookVal
  BY BookTypes
<1> QED BY <1>1 DEF Told, History, Meta

\* A slot that goes bad takes no more than a book's sessions.
LEMMA LossCovers ==
  ASSUME IsFiniteSet(Books), NEW h \in History, CoversBooks(h), NEW y \in Books,
         NEW g, g = [h EXCEPT !.books[y].sess = 0]
  PROVE  CoversBooks(g)
<1>1. h.books \in [Books -> BookVal] /\ h.totals.secs \in Nat /\ h.totals.sess \in Nat
  BY DEF History, Totals
<1>2. g.books = [h.books EXCEPT ![y] = [@ EXCEPT !.sess = 0]] /\ g.totals = h.totals
  BY DEF History
<1>3. [h.books[y] EXCEPT !.sess = 0] \in BookVal
      /\ [h.books[y] EXCEPT !.sess = 0].secs = h.books[y].secs
      /\ [h.books[y] EXCEPT !.sess = 0].sess = 0
  BY <1>1 DEF BookVal
<1>4. /\ g.books \in [Books -> BookVal]
      /\ g.books[y].secs = h.books[y].secs /\ g.books[y].sess = 0
      /\ \A b \in Books \ {y} : g.books[b] = h.books[b]
  BY <1>1, <1>2, <1>3
<1>5. \A b \in Books : h.books[b].secs \in Nat /\ h.books[b].sess \in Nat
  BY <1>1, BookSums
<1>6. /\ NoMoreIn(g.books, h.books, Books \ {y})
      /\ g.books[y].secs <= h.books[y].secs + 0 /\ g.books[y].sess <= h.books[y].sess + 0
  BY <1>4, <1>5 DEF NoMoreIn
<1>7. BookSecs(g.books) <= BookSecs(h.books) + 0 /\ BookSess(g.books) <= BookSess(h.books) + 0
  BY <1>1, <1>4, <1>6, OneBookGrows
<1>8. /\ BookSecs(g.books) \in Nat /\ BookSess(g.books) \in Nat
      /\ BookSecs(h.books) \in Nat /\ BookSess(h.books) \in Nat
  BY <1>1, <1>4, BookSums
<1>9. h.totals.secs >= BookSecs(h.books) /\ h.totals.sess >= BookSess(h.books)
  BY CoversAsSums
<1>10. g.totals.secs >= BookSecs(g.books) /\ g.totals.sess >= BookSess(g.books)
  BY <1>1, <1>2, <1>7, <1>8, <1>9
<1> QED BY <1>10, CoversAsSums

\* The JSON's totals are no less than what its books add up to.
JsonTotalsCover ==
  \/ LegacyTotals.secs = 0 /\ DerivedTotals.secs > 0
  \/ LegacyTotals.secs >= DerivedTotals.secs /\ LegacyTotals.sess >= DerivedTotals.sess

\* What the entries of the JSON before `next` add up to.
EntriesBefore(next) == {n \in DOMAIN LegacyBooks : n < next}
EntrySecs(S) == SumFunctionOnSet([n \in DOMAIN LegacyBooks |-> LegacyBooks[n].val.secs], S)
EntrySess(S) == SumFunctionOnSet([n \in DOMAIN LegacyBooks |-> LegacyBooks[n].val.sess], S)

\* The books entered so far hold no more than the entries read so far.
NoMoreThanRead(books, next) ==
  BookSecs(books) <= EntrySecs(EntriesBefore(next)) /\ BookSess(books) <= EntrySess(EntriesBefore(next))

\* The totals cover the books that are told, and will cover those that an import tells.
CoversSoFar ==
  /\ CoversBooks(Told(file, LiveMeta(file)))
  /\ pc = "import" => NoMoreThanRead(BooksOf(ImportFile, work.meta), work.next)
  /\ pc = "importRename" => CoversBooks(Told(tmp, LiveMeta(tmp)))

\* Each entry adds its own share to what has been read.
LEMMA EntriesAddUp ==
  /\ \A n \in Nat : EntrySecs(EntriesBefore(n)) \in Nat /\ EntrySess(EntriesBefore(n)) \in Nat
  /\ \A n \in DOMAIN LegacyBooks :
       /\ EntrySecs(EntriesBefore(n + 1)) = EntrySecs(EntriesBefore(n)) + LegacyBooks[n].val.secs
       /\ EntrySess(EntriesBefore(n + 1)) = EntrySess(EntriesBefore(n)) + LegacyBooks[n].val.sess
  /\ \A n \in Nat : n > Len(LegacyBooks) =>
       /\ EntrySecs(EntriesBefore(n)) = DerivedTotals.secs
       /\ EntrySess(EntriesBefore(n)) = DerivedTotals.sess
<1> DEFINE secs == [n \in DOMAIN LegacyBooks |-> LegacyBooks[n].val.secs]
<1> DEFINE sess == [n \in DOMAIN LegacyBooks |-> LegacyBooks[n].val.sess]
<1> DEFINE D == DOMAIN LegacyBooks
<1>1. D = 1 .. Len(LegacyBooks) /\ Len(LegacyBooks) \in Nat /\ IsFiniteSet(D)
  BY LegacyTypes, FS_Interval
<1>2. \A n \in D : /\ secs[n] = LegacyBooks[n].val.secs /\ sess[n] = LegacyBooks[n].val.sess
                   /\ secs[n] \in Nat /\ sess[n] \in Nat
  BY LegacyTypes DEF BookVal
<1>3. \A S : EntrySecs(S) = SumFunctionOnSet(secs, S) /\ EntrySess(S) = SumFunctionOnSet(sess, S)
  BY DEF EntrySecs, EntrySess
<1>4. DOMAIN secs = D /\ DOMAIN sess = D
  OBVIOUS
<1>5. DerivedTotals.secs = SumFunctionOnSet(secs, D) /\ DerivedTotals.sess = SumFunctionOnSet(sess, D)
  BY <1>4 DEF DerivedTotals, SumFunction
<1> HIDE DEF secs, sess
<1>6. \A n : IsFiniteSet(EntriesBefore(n)) /\ EntriesBefore(n) \subseteq D
  BY <1>1, FS_Subset DEF EntriesBefore
<1>7. ASSUME NEW n \in Nat
      PROVE  EntrySecs(EntriesBefore(n)) \in Nat /\ EntrySess(EntriesBefore(n)) \in Nat
  <2> DEFINE S == EntriesBefore(n)
  <2>1. IsFiniteSet(S) /\ \A x \in S : secs[x] \in Nat /\ sess[x] \in Nat
    BY <1>2, <1>6
  <2> HIDE DEF S
  <2>2. SumFunctionOnSet(secs, S) \in Nat /\ SumFunctionOnSet(sess, S) \in Nat
    BY <2>1, SumOfNaturals
  <2> QED BY <1>3, <2>2 DEF S
<1>8. ASSUME NEW n \in D
      PROVE  /\ EntrySecs(EntriesBefore(n + 1)) = EntrySecs(EntriesBefore(n)) + LegacyBooks[n].val.secs
             /\ EntrySess(EntriesBefore(n + 1)) = EntrySess(EntriesBefore(n)) + LegacyBooks[n].val.sess
  <2> DEFINE S == EntriesBefore(n + 1)
  <2>0. n \in Nat
    BY <1>1
  <2>1. IsFiniteSet(S) /\ \A x \in S : secs[x] \in Nat /\ sess[x] \in Nat
    BY <1>2, <1>6
  <2>2. n \in S /\ S \ {n} = EntriesBefore(n)
    BY <1>1 DEF EntriesBefore
  <2> HIDE DEF S
  <2>3. /\ SumFunctionOnSet(secs, S) = secs[n] + SumFunctionOnSet(secs, S \ {n})
        /\ SumFunctionOnSet(sess, S) = sess[n] + SumFunctionOnSet(sess, S \ {n})
    BY <2>1, <2>2, SumTakesAny
  <2>4. /\ EntrySecs(S) = secs[n] + EntrySecs(EntriesBefore(n))
        /\ EntrySess(S) = sess[n] + EntrySess(EntriesBefore(n))
    BY <1>3, <2>2, <2>3
  <2>5. /\ EntrySecs(EntriesBefore(n)) \in Nat /\ EntrySess(EntriesBefore(n)) \in Nat
        /\ secs[n] \in Nat /\ sess[n] \in Nat
        /\ secs[n] = LegacyBooks[n].val.secs /\ sess[n] = LegacyBooks[n].val.sess
    BY <1>2, <1>7, <2>0
  <2>6. /\ EntrySecs(S) = EntrySecs(EntriesBefore(n)) + LegacyBooks[n].val.secs
        /\ EntrySess(S) = EntrySess(EntriesBefore(n)) + LegacyBooks[n].val.sess
    BY <2>4, <2>5
  <2> QED BY <2>6 DEF S
<1>9. ASSUME NEW n \in Nat, n > Len(LegacyBooks)
      PROVE  /\ EntrySecs(EntriesBefore(n)) = DerivedTotals.secs
             /\ EntrySess(EntriesBefore(n)) = DerivedTotals.sess
  <2>1. EntriesBefore(n) = D
    BY <1>1, <1>9 DEF EntriesBefore
  <2> QED BY <1>3, <1>5, <2>1
<1> QED BY <1>7, <1>8, <1>9

\* An entry that is read adds its figures to one book at most, and evicts another.
LEMMA ImportBookCovers ==
  ASSUME IsFiniteSet(Books), IInv(Slots), CallTellsHistory, CoversSoFar, ImportBook
  PROVE  NoMoreThanRead(BooksOf(ImportFile', work'.meta), work'.next)
<1> DEFINE N == work.next
<1> DEFINE x == LegacyBooks[N]
<1> DEFINE f == ImportFile
<1> DEFINE m == work.meta
<1> DEFINE dir == m.dir
<1> DEFINE full == FreeEntry(dir) = NoEntry
<1> DEFINE index == IF full THEN Victim(dir) ELSE FreeEntry(dir)
<1> DEFINE slot == IF full THEN dir[index].slot ELSE FreeSlot(dir)
<1> DEFINE h == BooksOf(f, m)
<1>1. /\ pc = "import" /\ KeysAreBooks(m)
      /\ f \in File /\ m \in Meta /\ dir \in Directory /\ IntactBut(Slots, f, m)
  BY ImportFileIsIntact DEF ImportBook, Step, CallTellsHistory
<1>2. N \in DOMAIN LegacyBooks /\ N \in Nat /\ N >= 1
  BY LegacyTypes DEF ImportBook
<1>3. /\ x.key \in Books /\ x.val \in BookVal /\ x.val.known
      /\ x.val.secs \in Nat /\ x.val.sess \in Nat
  BY <1>2, LegacyTypes DEF BookVal
<1>4. h = [b \in Books |-> BookIn(f, m, b)] /\ h \in [Books -> BookVal]
  BY <1>1, BookTypes DEF BooksOf, Told
<1>5. NoMoreThanRead(h, N)
  BY <1>1 DEF CoversSoFar
<1>6. /\ BookSecs(h) \in Nat /\ BookSess(h) \in Nat
      /\ \A b \in Books : h[b].secs \in Nat /\ h[b].sess \in Nat
  BY <1>4, BookSums
<1> HIDE DEF h
<1>7. ASSUME NEW g, BookSecs(g) \in Nat, BookSess(g) \in Nat,
             BookSecs(g) <= BookSecs(h) + x.val.secs, BookSess(g) <= BookSess(h) + x.val.sess
      PROVE  NoMoreThanRead(g, N + 1)
  <2> DEFINE s == EntrySecs(EntriesBefore(N))
  <2> DEFINE n == EntrySess(EntriesBefore(N))
  <2>1. s \in Nat /\ n \in Nat
    BY <1>2, EntriesAddUp
  <2>2. EntrySecs(EntriesBefore(N + 1)) = s + x.val.secs
        /\ EntrySess(EntriesBefore(N + 1)) = n + x.val.sess
    BY <1>2, EntriesAddUp
  <2>3. BookSecs(h) <= s /\ BookSess(h) <= n
    BY <1>5 DEF NoMoreThanRead
  <2> HIDE DEF s, n, x
  <2>4. BookSecs(g) <= s + x.val.secs /\ BookSess(g) <= n + x.val.sess
    BY <1>3, <1>6, <1>7, <2>1, <2>3
  <2> QED BY <2>2, <2>4 DEF NoMoreThanRead
<1>8. CASE tmp' = f /\ work' = [work EXCEPT !.next = @ + 1]
  <2>1. work'.next = N + 1 /\ work'.meta = m
    BY <1>8 DEF IInv, TypeOK, Work
  <2>2. ImportFile' = f
    BY <1>2, <1>8, <2>1 DEF ImportFile
  <2>3. NoMoreThanRead(h, N + 1)
    BY <1>3, <1>6, <1>7
  <2> QED BY <2>1, <2>2, <2>3 DEF h
<1>9. CASE /\ tmp' = [f EXCEPT !.slot[slot] = [key |-> x.key, val |-> x.val, sound |-> TRUE]]
           /\ work' = [work EXCEPT !.meta.dir[index] = EntryFor(x.key, x.val, slot), !.next = @ + 1]
           /\ Find(dir, x.key) = NoEntry
  <2>1. /\ index \in Entries /\ slot \in Slots
        /\ \A j \in Used(dir) \ {index} : dir[j].slot # slot
    <3>1. CASE full
      <4>1. index \in Used(dir) /\ slot = dir[index].slot
        BY <1>1, <3>1, VictimIsTold DEF IsFull
      <4>2. \A i, j \in Used(dir) : i # j => dir[i].slot # dir[j].slot
        BY <1>1, Zenon DEF IntactBut
      <4> QED BY <1>1, <4>1, <4>2, UsedIsSubset
    <3>2. CASE ~full
      <4>1. index \in Entries
        BY <1>1, <3>2, FreeEntryIsFree
      <4> QED BY <1>1, <3>2, <4>1, SpareSlotExists
    <3> QED BY <3>1, <3>2
  <2>2. \A j \in Used(dir) : dir[j].key # x.key
    BY <1>1, <1>9, NoEntryIsNowhere
  <2> HIDE DEF x, index, slot, full, f
  <2>3. CanPut(f, m, x.key, x.val, index, slot)
    BY <1>1, <1>3, <2>1, <2>2 DEF CanPut
  <2> DEFINE p == SlotPut(f, x.key, x.val, slot)
  <2> DEFINE n == EntryPut(m, x.key, x.val, index, slot)
  <2> DEFINE g == BooksOf(p, n)
  <2>4. work'.next = N + 1 /\ work'.meta = n
    BY <1>9 DEF IInv, TypeOK, Work, Meta, EntryPut
  <2>5. ImportFile' = p
    BY <1>2, <1>9, <2>4 DEF ImportFile, SlotPut
  <2>6. \A b \in Books : g[b] = IF b = x.key THEN x.val
                                ELSE IF index \in Used(dir) /\ b = dir[index].key THEN NewBook
                                ELSE h[b]
    <3>1. g = [b \in Books |-> BookIn(p, n, b)]
      BY DEF BooksOf, Told
    <3> HIDE DEF p, n, g
    <3>2. \A b \in Books : BookIn(p, n, b) = IF b = x.key THEN x.val
                                ELSE IF index \in Used(dir) /\ b = dir[index].key THEN NewBook
                                ELSE BookIn(f, m, b)
      BY <2>3, PutTells DEF p, n
    <3> QED BY <1>4, <3>1, <3>2
  <2>7. g \in [Books -> BookVal]
    <3>1. g = [b \in Books |-> g[b]]
      BY DEF BooksOf, Told
    <3> HIDE DEF g
    <3>2. \A b \in Books : g[b] \in BookVal
      BY <1>3, <1>4, <2>6, ConstantTypes
    <3> QED BY <3>1, <3>2
  <2> HIDE DEF g, p, n
  <2>8. NoMoreIn(g, h, Books \ {x.key})
    BY <1>6, <2>6 DEF NoMoreIn, NewBook
  <2>9. g[x.key].secs <= h[x.key].secs + x.val.secs /\ g[x.key].sess <= h[x.key].sess + x.val.sess
    BY <1>3, <1>6, <2>6
  <2>10. BookSecs(g) <= BookSecs(h) + x.val.secs /\ BookSess(g) <= BookSess(h) + x.val.sess
    BY <1>3, <1>4, <2>7, <2>8, <2>9, OneBookGrows
  <2>11. BookSecs(g) \in Nat /\ BookSess(g) \in Nat
    BY <2>7, BookSums
  <2>12. NoMoreThanRead(g, N + 1)
    BY <1>7, <2>10, <2>11 DEF x
  <2> QED BY <2>4, <2>5, <2>12 DEF g
<1>10. LET skip == Find(dir, x.key) # NoEntry \/ (full /\ EvictsBefore(x.val, dir[index]))
       IN IF skip THEN /\ tmp' = f /\ work' = [work EXCEPT !.next = @ + 1]
          ELSE /\ tmp' = [f EXCEPT !.slot[slot] = [key |-> x.key, val |-> x.val, sound |-> TRUE]]
               /\ work' = [work EXCEPT !.meta.dir[index] = EntryFor(x.key, x.val, slot),
                                       !.next = @ + 1]
  BY Zenon DEF ImportBook, ImportFile
<1> HIDE DEF x, f, full, index, slot, dir
<1> QED BY <1>8, <1>9, <1>10

\* The totals the import ends with cover the books it has entered.
LEMMA ImportMetaCovers ==
  ASSUME IsFiniteSet(Books), JsonTotalsCover, IInv(Slots), IInv(Slots)', CoversSoFar, ImportMeta
  PROVE  CoversBooks(Told(tmp', LiveMeta(tmp')))
<1> DEFINE h == BooksOf(ImportFile, work.meta)
<1>1. pc = "import" /\ work.next > Len(LegacyBooks) /\ work.next \in Nat
  BY DEF ImportMeta, IInv, TypeOK, Work
<1>2. /\ tmp' \in File /\ LiveMeta(tmp') \in Meta /\ tmp'.slot = ImportFile.slot
      /\ LiveMeta(tmp').dir = work.meta.dir /\ LiveMeta(tmp').totals = ImportedTotals
  BY ImportedMeta
<1>3. ImportFile \in File /\ work.meta \in Meta
  BY <1>1, ImportFileIsIntact
<1>4. Told(tmp', LiveMeta(tmp')).books = h
  <2>1. \A b : BookIn(tmp', LiveMeta(tmp'), b) = BookIn(ImportFile, work.meta, b)
    BY <1>2, <1>3, SameBooks
  <2> QED BY <2>1 DEF BooksOf, Told
<1>5. Told(tmp', LiveMeta(tmp')).totals = ImportedTotals
  BY <1>2 DEF Told
<1>6. BookSecs(h) <= DerivedTotals.secs /\ BookSess(h) <= DerivedTotals.sess
  <2>1. NoMoreThanRead(h, work.next)
    BY <1>1 DEF CoversSoFar
  <2> HIDE DEF h
  <2> QED BY <1>1, <2>1, EntriesAddUp DEF NoMoreThanRead
<1>7. h \in [Books -> BookVal]
  BY <1>3, BookTypes DEF BooksOf, Told
<1> HIDE DEF h
<1>8. BookSecs(h) \in Nat /\ BookSess(h) \in Nat
  BY <1>7, BookSums
<1>9. /\ DerivedTotals.secs \in Nat /\ DerivedTotals.sess \in Nat
      /\ ImportedTotals.secs \in Nat /\ ImportedTotals.sess \in Nat
  BY ImportedTotalsType DEF Totals
<1>10. ImportedTotals.secs >= DerivedTotals.secs /\ ImportedTotals.sess >= DerivedTotals.sess
  <2>1. ImportedTotals = DerivedTotals \/ ImportedTotals = LegacyTotals
    BY DEF ImportedTotals
  <2>2. CASE ImportedTotals = DerivedTotals
    BY <1>9, <2>2
  <2>3. CASE ImportedTotals # DerivedTotals
    BY <2>1, <2>3 DEF ImportedTotals, JsonTotalsCover
  <2> QED BY <2>2, <2>3
<1>11. ImportedTotals.secs >= BookSecs(h) /\ ImportedTotals.sess >= BookSess(h)
  BY <1>6, <1>8, <1>9, <1>10
<1> QED BY <1>4, <1>5, <1>11, CoversAsSums

\* A file with no book to tell of.
LEMMA EmptyCovers ==
  ASSUME IsFiniteSet(Books)
  PROVE  CoversBooks(EmptyHistory)
<1>1. \A b \in Books : EmptyHistory.books[b] = NewBook
  BY DEF EmptyHistory
<1>2. BookSecs(EmptyHistory.books) = 0 /\ BookSess(EmptyHistory.books) = 0
  BY <1>1, NothingToCover
<1>3. EmptyHistory.totals.secs = 0 /\ EmptyHistory.totals.sess = 0
  BY DEF EmptyHistory, NoTotals
<1> QED BY <1>2, <1>3, CoversAsSums

\* Every step keeps the totals of what is told above its books.
LEMMA NextCovers ==
  ASSUME IsFiniteSet(Books), JsonTotalsCover, IInv(Slots), CallTellsHistory, CoversSoFar,
         [Next]_vars
  PROVE  CoversSoFar'
<1>1. IInv(Slots)' /\ TypeOK /\ TypeOK' /\ file \in File /\ file' \in File
  BY NextAgrees DEF IInv, TypeOK
<1> DEFINE h == Told(file, LiveMeta(file))
<1> DEFINE g == Told(file', LiveMeta(file'))
<1>2. h \in History /\ CoversBooks(h)
  BY <1>1, LiveMetaType, ToldType DEF CoversSoFar
<1>3. CoversBooks(g)
  <2>1. TellsNext
    BY <1>1, FileStepsMoveOn
  <2>2. CASE g = h
    BY <1>2, <2>2
  <2>3. CASE g = EmptyHistory
    BY <2>3, EmptyCovers
  <2>4. CASE pc = "meta" /\ g \in Abstract!Effects(h, req)
    <3>1. req \in Requests
      BY <1>1, <2>4 DEF TypeOK
    <3> HIDE DEF g, h
    <3> QED BY <1>2, <2>4, <3>1, EffectsCover
  <2>5. CASE pc = "importRename" /\ file' = tmp
    BY <2>5 DEF CoversSoFar
  <2> QED BY <2>1, <2>2, <2>3, <2>4, <2>5 DEF TellsNext
<1>4. pc' = "importRename" => CoversBooks(Told(tmp', LiveMeta(tmp')))
  <2> SUFFICES ASSUME pc' = "importRename" PROVE CoversBooks(Told(tmp', LiveMeta(tmp')))
    OBVIOUS
  <2>1. ImportMeta \/ UNCHANGED vars
    BY Zenon DEF Next, Ask, Prepare, Import, ImportFails, ImportMalformed, ImportBook,
       ImportRename, ImportDone, Load, LoadFails, LoadUnreadable, LoadNotFound,
       LoadNothingToRecord, QuerySummary, LoadAndMerge, Create, SetAside, CreateFresh,
       CreateRename, WriteSlot, WriteMeta, PowerCut, Step, Fail, Answer
  <2>2. CASE ImportMeta
    BY <1>1, <2>2, ImportMetaCovers
  <2>3. CASE UNCHANGED vars
    BY <2>3 DEF vars, CoversSoFar
  <2> QED BY <2>1, <2>2, <2>3
<1>5. pc' = "import" => NoMoreThanRead(BooksOf(ImportFile', work'.meta), work'.next)
  <2> SUFFICES ASSUME pc' = "import"
               PROVE  NoMoreThanRead(BooksOf(ImportFile', work'.meta), work'.next)
    OBVIOUS
  <2>1. ImportBook \/ Prepare \/ UNCHANGED vars
    BY Zenon DEF Next, Ask, Import, ImportFails, ImportMalformed, ImportMeta,
       ImportRename, ImportDone, Load, LoadFails, LoadUnreadable, LoadNotFound,
       LoadNothingToRecord, QuerySummary, LoadAndMerge, Create, SetAside, CreateFresh,
       CreateRename, WriteSlot, WriteMeta, PowerCut, Step, Fail, Answer
  <2>2. CASE ImportBook
    BY <2>2, ImportBookCovers
  <2>3. CASE Prepare
    <3>1. work' = NoWork
      BY <2>3 DEF Prepare, IInv, CallAgrees
    <3>2. work'.next = 1 /\ work'.meta.dir = EmptyDir
      BY <3>1 DEF NoWork, ClearMeta
    <3> DEFINE books == BooksOf(ImportFile', work'.meta)
    <3>3. \A b \in Books : books[b] = NewBook
      BY <3>2, BlankTellsNothing DEF BooksOf, Told
    <3> HIDE DEF books
    <3>4. BookSecs(books) = 0 /\ BookSess(books) = 0
      BY <3>3, NothingToCover
    <3>5. EntrySecs(EntriesBefore(1)) \in Nat /\ EntrySess(EntriesBefore(1)) \in Nat
      BY EntriesAddUp
    <3>6. NoMoreThanRead(books, 1)
      BY <3>4, <3>5 DEF NoMoreThanRead
    <3> QED BY <3>2, <3>6 DEF books
  <2>4. CASE UNCHANGED vars
    BY <2>4 DEF vars, CoversSoFar, ImportFile
  <2> QED BY <2>1, <2>2, <2>3, <2>4
<1> QED BY <1>3, <1>4, <1>5 DEF CoversSoFar

\* So does a slot that goes bad.
LEMMA RotCovers ==
  ASSUME IsFiniteSet(Books), IInv(Slots), CallTellsHistory, CoversSoFar, RotSlot
  PROVE  CoversSoFar'
<1>1. IInv(Slots)' /\ file \in File /\ file' \in File /\ pc' = "idle"
  BY RotAgrees DEF IInv, TypeOK, RotSlot
<1> DEFINE h == Told(file, LiveMeta(file))
<1> DEFINE g == Told(file', LiveMeta(file'))
<1>2. h \in History /\ CoversBooks(h)
  BY <1>1, LiveMetaType, ToldType DEF CoversSoFar
<1>3. HistoryOf(file) = h /\ HistoryOf(file') = g
  BY <1>1, HistoryIsTold
<1> HIDE DEF h, g
<1>4. UNCHANGED Abstract!vars \/ \E b \in Books : Abstract!Lose(b)
  BY RotLoses
<1>5. ASSUME UNCHANGED Abstract!vars PROVE CoversBooks(g)
  BY <1>2, <1>3, <1>5 DEF Abstract!vars
<1>6. ASSUME \E b \in Books : Abstract!Lose(b) PROVE CoversBooks(g)
  <2>1. PICK b \in Books : Abstract!Lose(b)
    BY <1>6
  <2>2. g = [h EXCEPT !.books[b].sess = 0]
    BY <1>3, <2>1 DEF Abstract!Lose
  <2>3. CoversBooks(g)
    BY <1>2, <2>2, LossCovers
  <2> QED BY <2>3
<1>7. CoversBooks(g)
  BY <1>4, <1>5, <1>6
<1> QED BY <1>1, <1>7 DEF CoversSoFar, g

\* The totals never fall below what the books kept add up to, whatever is evicted,
\* removed, imported or lost with a slot: a removal never clamps.  That there are
\* finitely many document ids is their width; a JSON whose stated totals are less than
\* its own books is not one the older firmware wrote.
THEOREM TotalsAlwaysCoverBooks ==
  ASSUME IsFiniteSet(Books), JsonTotalsCover
  PROVE  RotSpec => []TotalsCoverBooks
<1>1. Init => IInv(Slots) /\ CallTellsHistory /\ CoversSoFar
  <2> SUFFICES ASSUME Init PROVE IInv(Slots) /\ CallTellsHistory /\ CoversSoFar
    OBVIOUS
  <2>1. IInv(Slots) /\ CallTellsHistory /\ Abstract!Init
    BY InitAgrees, InitTells
  <2>2. file \in File
    BY <2>1 DEF IInv, TypeOK
  <2>3. Told(file, LiveMeta(file)) = EmptyHistory
    BY <2>1, <2>2, HistoryIsTold, SameArithmetic DEF Abstract!Init
  <2>4. CoversSoFar
    BY <2>3, EmptyCovers DEF Init, CoversSoFar
  <2> QED BY <2>1, <2>4
<1>2. IInv(Slots) /\ CallTellsHistory /\ CoversSoFar /\ [Next \/ RotSlot]_vars =>
        (IInv(Slots) /\ CallTellsHistory /\ CoversSoFar)'
  <2>1. [Next \/ RotSlot]_vars => [Next]_vars \/ RotSlot
    OBVIOUS
  <2>2. IInv(Slots) /\ CallTellsHistory /\ CoversSoFar /\ [Next]_vars =>
          (IInv(Slots) /\ CallTellsHistory /\ CoversSoFar)'
    BY NextAgrees, NextTells, NextCovers
  <2>3. IInv(Slots) /\ CallTellsHistory /\ CoversSoFar /\ RotSlot =>
          (IInv(Slots) /\ CallTellsHistory /\ CoversSoFar)'
    BY RotAgrees, RotLoses, RotCovers
  <2> QED BY <2>1, <2>2, <2>3
<1>3. IInv(Slots) /\ CoversSoFar => TotalsCoverBooks
  BY HistoryIsTold DEF IInv, TypeOK, CoversSoFar, TotalsCoverBooks
<1> QED
  BY <1>1, <1>2, <1>3, PTL DEF RotSpec

=============================================================================
