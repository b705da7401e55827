-------------------------- MODULE ReadingStatsStore --------------------------
(***************************************************************************)
(* The reading history in its slot file: src/src/ReadingStats.cpp (write,  *)
(* prepare, createFresh, importLegacy, the queries) over                   *)
(* src/src/ReadingStatsSlotFile.cpp (the two meta copies, the directory,   *)
(* the slots).                                                             *)
(*                                                                         *)
(* One call runs at a time, on the loop task.  Each step of a call that    *)
(* changes the card is an action, so that power can fail between any two   *)
(* of them or in the middle of a write (PowerCut), and every card          *)
(* operation can fail.  RAM is lost with the power: req, pc, work,         *)
(* prepared and view.                                                      *)
(***************************************************************************)
EXTENDS ReadingHistory, Sequences, FiniteSetsExt

CONSTANTS
  LegacyBooks,   \* the older firmware's reading-stats.json, in file order
  LegacyTotals,  \* its totals: zero in a file written before it had any
  MaxSeq         \* bound on the meta generation, for finite model checking

LegacyBook == [key : Books, val : {v \in BookVal : v.known}]

\* What the JSON's books add up to, and the totals importLegacy takes: these
\* where the file, of an older format, states none.
DerivedTotals ==
  [secs |-> SumFunction([n \in DOMAIN LegacyBooks |-> LegacyBooks[n].val.secs]),
   sess |-> SumFunction([n \in DOMAIN LegacyBooks |-> LegacyBooks[n].val.sess])]
RawTotals == LegacyTotals
ImportedTotals ==
  IF LegacyTotals.secs = 0 /\ DerivedTotals.secs > 0 THEN DerivedTotals ELSE LegacyTotals

ASSUME LegacyAssumption ==
  /\ LegacyBooks \in Seq(LegacyBook)
  /\ LegacyTotals \in Totals
  /\ MaxSeq \in Nat

VARIABLES
  file,      \* /.crosspoint/reading-stats.bin
  tmp,       \* the same with .tmp
  legacy,    \* reading-stats.json: "none", "good" or "malformed"
  prepared,  \* prepared_: prepare() has succeeded since boot
  pc,        \* the step the running call is at
  work,      \* the running call's locals
  view,      \* the All-books index a screen holds, and the seq it was read at
  req, reply

vars == <<file, tmp, legacy, prepared, pc, work, view, req, reply>>

-----------------------------------------------------------------------------
(* The file's layout.                                                      *)

Entries == 1 .. Cap       \* directory entries, kEntryCount of them
NoEntry == 0
SlotsWithoutSpare == 0 .. Cap - 1
Slots == 0 .. Cap         \* kSlotCount = kEntryCount + 1
NoSlot == Cap + 1
NoCopy == 2

\* A directory entry repeats the figures every aggregate needs; `sess` stands
\* for what only the slot holds (sessions, pages, days, title).
Entry == [key : Books \cup {NoKey}, slot : 0 .. NoSlot,
          secs : Nat, fin : Nat, last : Nat]
NoBookEntry == [key |-> NoKey, slot |-> NoSlot, secs |-> 0, fin |-> 0, last |-> 0]
EntryFor(k, book, s) ==
  [key |-> k, slot |-> s, secs |-> book.secs, fin |-> book.fin, last |-> book.last]

EmptyDir == [i \in Entries |-> NoBookEntry]
Directory == [Entries -> Entry]

\* A slot's image; `sound` is its CRC.
SlotImage == [key : Books \cup {NoKey}, val : BookVal, sound : BOOLEAN]
BadSlot == [key |-> NoKey, val |-> NewBook, sound |-> FALSE]

\* A meta copy; `marked` is the magic, `sound` the rest of its check.
Meta == [marked : BOOLEAN, sound : BOOLEAN, seq : Nat,
         dir : Directory, totals : Totals]
ClearMeta == [marked |-> FALSE, sound |-> FALSE, seq |-> 0,
              dir |-> EmptyDir, totals |-> NoTotals]
Sealed(n, dir, totals) ==
  [marked |-> TRUE, sound |-> TRUE, seq |-> n, dir |-> dir, totals |-> totals]

File == [here : BOOLEAN, copy : [{0, 1} -> Meta], slot : [Slots -> SlotImage]]
NoFile == [here |-> FALSE, copy |-> [c \in {0, 1} |-> ClearMeta],
           slot |-> [s \in Slots |-> BadSlot]]
\* createZeroed(); also any file both of whose copies fail their checks.
ZeroedFile == [NoFile EXCEPT !.here = TRUE]

-----------------------------------------------------------------------------
(* The directory's operations.                                             *)

Used(dir) == {i \in Entries : dir[i].slot # NoSlot}

LeastOf(S) == CHOOSE m \in S : \A n \in S : m <= n

Find(dir, k) ==
  LET at == {i \in Used(dir) : dir[i].key = k}
  IN IF at = {} THEN NoEntry ELSE LeastOf(at)

FreeEntry(dir) ==
  LET free == Entries \ Used(dir)
  IN IF free = {} THEN NoEntry ELSE LeastOf(free)

FreeSlotOverVictim(dir) ==
  LET oldest == {i \in Used(dir) : \A j \in Used(dir) : dir[i].last <= dir[j].last}
  IN LeastOf(Slots \ {dir[i].slot : i \in Used(dir) \ oldest})
FreeSlot(dir) ==
  LET free == Slots \ {dir[i].slot : i \in Used(dir)}
  IN IF free = {} THEN NoSlot ELSE LeastOf(free)

VictimByTime(dir) ==
  LeastOf({i \in Used(dir) : \A j \in Used(dir) : dir[i].secs <= dir[j].secs})
\* The first entry no other one is evicted before.
Victim(dir) ==
  LET oldest == {i \in Used(dir) : \A j \in Used(dir) : dir[i].last <= dir[j].last}
  IN LeastOf({i \in oldest : \A j \in oldest : dir[i].secs <= dir[j].secs})

\* Meta::valid: besides the CRC, every book is in a slot of its own.
Valid(m) ==
  /\ m.marked /\ m.sound
  /\ \A i, j \in Used(m.dir) : m.dir[i].slot = m.dir[j].slot => i = j

-----------------------------------------------------------------------------
(* Reading the file.                                                       *)

LiveCopyOldestFirst(f) ==
  LET older == IF f.copy[1].seq > f.copy[0].seq THEN 0 ELSE 1
  IN CASE Valid(f.copy[older]) -> older
       [] ~Valid(f.copy[older]) /\ Valid(f.copy[1 - older]) -> 1 - older
       [] OTHER -> NoCopy
\* loadMeta: the newer copy, or the other when the newer fails its checks.
LiveCopy(f) ==
  LET newer == IF f.copy[1].seq > f.copy[0].seq THEN 1 ELSE 0
  IN CASE Valid(f.copy[newer]) -> newer
       [] ~Valid(f.copy[newer]) /\ Valid(f.copy[1 - newer]) -> 1 - newer
       [] OTHER -> NoCopy

Readable(f) == f.here /\ LiveCopy(f) # NoCopy
LiveMeta(f) == IF Readable(f) THEN f.copy[LiveCopy(f)] ELSE ClearMeta

BookFromEntryNoFinishes(e) ==
  [known |-> TRUE, secs |-> e.secs, sess |-> 0, fin |-> 0, last |-> e.last]
\* bookFromEntry: what survives of a book whose slot fails its check.
BookFromEntry(e) ==
  [known |-> TRUE, secs |-> e.secs, sess |-> 0, fin |-> e.fin, last |-> e.last]

ReadBook(f, e) ==
  LET image == f.slot[e.slot]
  IN IF image.sound /\ image.key = e.key THEN image.val ELSE BookFromEntry(e)

\* queryBook: what the file says of one book.
BookIn(f, m, k) ==
  LET i == Find(m.dir, k)
  IN IF i = NoEntry THEN NewBook ELSE ReadBook(f, m.dir[i])

\* The history each meta could tell, and the one the live meta does.
HistoryIn(f) ==
  [m \in Meta |-> [books |-> [b \in Books |-> BookIn(f, m, b)], totals |-> m.totals]]

HistoryOf(f) == HistoryIn(f)[LiveMeta(f)]

\* querySummary(withIndex): the time of each book and the generation.
NoView == [here |-> FALSE, seq |-> 0, secs |-> [b \in Books |-> 0]]
Views == [here : BOOLEAN, seq : Nat, secs : [Books -> Nat]]
ViewOf(m) ==
  [here |-> TRUE, seq |-> m.seq,
   secs |-> [b \in Books |-> LET i == Find(m.dir, b)
                             IN IF i = NoEntry THEN 0 ELSE m.dir[i].secs]]

\* queryBooksAt: the rows of the index, unless the generation moved on.
QueryBooksUnchecked(f, v) ==
  [stale |-> FALSE, rows |-> [b \in Books |-> BookIn(f, LiveMeta(f), b)]]
QueryBooksAt(f, v) ==
  LET m == LiveMeta(f)
  IN [stale |-> m.seq # v.seq, rows |-> [b \in Books |-> BookIn(f, m, b)]]

-----------------------------------------------------------------------------
(* A call.                                                                 *)

Steps == {"idle", "prepare", "import", "importRename", "importDone", "load",
          "aside", "create", "createRename", "slot", "meta"}

Work == [meta : Meta, live : 0 .. NoCopy, index : 0 .. Cap, book : BookVal,
         next : Nat]
NoWork == [meta |-> ClearMeta, live |-> NoCopy, index |-> NoEntry,
           book |-> NewBook, next |-> 1]

AnswerLeavingCall(r) ==
  /\ reply' = r
  /\ pc' = "idle"
  /\ UNCHANGED <<req, work>>
Answer(r) ==
  /\ reply' = r
  /\ req' = NoReq
  /\ pc' = "idle"
  /\ work' = NoWork

Step(next) ==
  /\ pc' = next
  /\ UNCHANGED <<req, reply>>

Fail == Answer("Failed")

InitialFiles == {NoFile, ZeroedFile}

\* A card as the firmware may find it: no history or a file that cannot be read,
\* with an older firmware's JSON or without.
Init ==
  /\ file \in InitialFiles
  /\ tmp \in InitialFiles
  /\ legacy \in {"none", "good", "malformed"}
  /\ prepared = FALSE
  /\ pc = "idle"
  /\ work = NoWork
  /\ view = NoView
  /\ req = NoReq
  /\ reply = "none"

Ask(r) ==
  /\ pc = "idle"
  /\ LiveMeta(file).seq < MaxSeq
  /\ req' = r
  /\ reply' = "none"
  /\ pc' = "prepare"
  /\ UNCHANGED <<file, tmp, legacy, prepared, work, view>>

-----------------------------------------------------------------------------
(* prepare(): once a boot.                                                 *)

Prepare ==
  /\ pc = "prepare"
  /\ IF prepared
     THEN /\ Step("load")
          /\ UNCHANGED <<tmp, prepared>>
     ELSE /\ tmp' = NoFile
          /\ IF ~file.here /\ legacy # "none"
             THEN Step("import") /\ UNCHANGED prepared
             ELSE Step("load") /\ prepared' = TRUE
  /\ UNCHANGED <<file, legacy, work, view>>

\* importLegacy, before any book: the temporary file cannot be created, or the
\* JSON cannot be opened or set aside.
ImportFails ==
  /\ pc = "import"
  /\ \/ work.next = 1 /\ tmp' \in {NoFile, ZeroedFile}
     \/ tmp' = NoFile
  /\ Fail
  /\ UNCHANGED <<file, legacy, prepared, view>>

\* Malformed JSON is set aside and the history starts afresh.
ImportMalformed ==
  /\ pc = "import"
  /\ legacy = "malformed"
  /\ tmp' = NoFile
  /\ legacy' = "none"
  /\ prepared' = TRUE
  /\ Step("load")
  /\ UNCHANGED <<file, work, view>>

\* onBook: one book of the JSON into the next slot of the temporary file.
ImportBook ==
  /\ pc = "import"
  /\ legacy = "good"
  /\ work.next \in 1 .. Len(LegacyBooks)
  /\ LET book == LegacyBooks[work.next]
         f == IF work.next = 1 THEN ZeroedFile ELSE tmp
         dir == work.meta.dir
         full == FreeEntry(dir) = NoEntry
         index == IF full THEN Victim(dir) ELSE FreeEntry(dir)
         slot == IF full THEN dir[index].slot ELSE FreeSlot(dir)
         skip == \/ Find(dir, book.key) # NoEntry
                 \/ full /\ EvictsBefore(book.val, dir[index])
     IN IF skip
        THEN /\ tmp' = f
             /\ work' = [work EXCEPT !.next = @ + 1]
        ELSE /\ tmp' = [f EXCEPT !.slot[slot] =
                          [key |-> book.key, val |-> book.val, sound |-> TRUE]]
             /\ work' = [work EXCEPT
                           !.meta.dir[index] = EntryFor(book.key, book.val, slot),
                           !.next = @ + 1]
  /\ Step("import")
  /\ UNCHANGED <<file, legacy, prepared, view>>

\* The scan is over: meta copy A at generation 1, read back.
ImportMeta ==
  /\ pc = "import"
  /\ legacy = "good"
  /\ work.next > Len(LegacyBooks)
  /\ LET f == IF work.next = 1 THEN ZeroedFile ELSE tmp
     IN tmp' = [f EXCEPT !.copy[0] = Sealed(1, work.meta.dir, ImportedTotals)]
  /\ work' = NoWork
  /\ Step("importRename")
  /\ UNCHANGED <<file, legacy, prepared, view>>

ImportRename ==
  /\ pc = "importRename"
  /\ tmp' = NoFile
  /\ \/ /\ file' = tmp
        /\ Step("importDone")
        /\ UNCHANGED work
     \/ Fail /\ UNCHANGED file
  /\ UNCHANGED <<legacy, prepared, view>>

\* The JSON becomes reading-stats.json.imported; if it cannot, it is left.
ImportDone ==
  /\ pc = "importDone"
  /\ legacy' \in {"none", legacy}
  /\ prepared' = TRUE
  /\ Step("load")
  /\ UNCHANGED <<file, tmp, work, view>>

-----------------------------------------------------------------------------
(* write(), step 1 and 2: load the history and merge the one book.         *)

\* The file cannot be opened, or a read of a meta copy or of the slot fails.
LoadFails ==
  /\ pc = "load"
  /\ file.here
  /\ Fail
  /\ UNCHANGED <<file, tmp, legacy, prepared, view>>

LoadUnreadable ==
  /\ pc = "load"
  /\ req.op \in {"remove", "summary"}
  /\ file.here /\ ~Readable(file)
  /\ Fail
  /\ UNCHANGED <<file, tmp, legacy, prepared, view>>

LoadNotFound ==
  /\ pc = "load"
  /\ req.op = "remove"
  /\ file.here => Readable(file)
  /\ Find(LiveMeta(file).dir, req.key) = NoEntry
  /\ Answer("NotFound")
  /\ UNCHANGED <<file, tmp, legacy, prepared, view>>

\* A book opened and closed without reading is not history.
LoadNothingToRecord ==
  /\ pc = "load"
  /\ req.op = "session" /\ req.secs = 0
  /\ Find(LiveMeta(file).dir, req.key) = NoEntry
  /\ Answer("Done")
  /\ UNCHANGED <<file, tmp, legacy, prepared, view>>

QuerySummary ==
  /\ pc = "load"
  /\ req.op = "summary"
  /\ file.here => Readable(file)
  /\ view' = ViewOf(LiveMeta(file))
  /\ Answer("Done")
  /\ UNCHANGED <<file, tmp, legacy, prepared>>

LoadAndMerge ==
  /\ pc = "load"
  /\ LET m == LiveMeta(file)
         index == Find(m.dir, req.key)
         book == BookIn(file, m, req.key)
     IN \/ /\ req.op = "remove"
           /\ Readable(file) /\ index # NoEntry
           /\ work' = [meta |-> [m EXCEPT !.dir[index] = NoBookEntry,
                                          !.totals = TakenOut(@, book)],
                       live |-> LiveCopy(file), index |-> index,
                       book |-> NewBook, next |-> 1]
           /\ Step("meta")
        \/ /\ req.op \in {"session", "finish"}
           /\ ~(req.op = "session" /\ req.secs = 0 /\ index = NoEntry)
           /\ work' = [meta |-> [m EXCEPT !.totals = Added(@, req)],
                       live |-> IF Readable(file) THEN LiveCopy(file) ELSE 0,
                       index |-> index,
                       book |-> Merged(book, req), next |-> 1]
           /\ IF Readable(file) THEN Step("slot")
              ELSE IF file.here THEN Step("aside")
              ELSE Step("create")
  /\ UNCHANGED <<file, tmp, legacy, prepared, view>>

-----------------------------------------------------------------------------
(* write(), step 3: a history file to write into.                          *)

SetAside ==
  /\ pc = "aside"
  /\ \/ file' = NoFile /\ Step("create") /\ UNCHANGED work
     \/ Fail /\ UNCHANGED file
  /\ UNCHANGED <<tmp, legacy, prepared, view>>

CreateFresh ==
  /\ pc = "create"
  /\ \/ /\ tmp' = [ZeroedFile EXCEPT !.copy[0] = Sealed(1, EmptyDir, NoTotals)]
        /\ work' = [work EXCEPT !.meta.seq = 1]
        /\ Step("createRename")
     \/ tmp' = NoFile /\ Fail
  /\ UNCHANGED <<file, legacy, prepared, view>>

CreateRename ==
  /\ pc = "createRename"
  /\ tmp' = NoFile
  /\ \/ file' = tmp /\ Step("slot") /\ UNCHANGED work
     \/ Fail /\ UNCHANGED file
  /\ UNCHANGED <<legacy, prepared, view>>

-----------------------------------------------------------------------------
(* write(), step 4: the book into a free slot, the meta into the copy that *)
(* is not the live one.                                                    *)

\* A write that fails or is cut short leaves the old bytes, the new ones or a
\* mixture that fails its check.
WriteSlot ==
  /\ pc = "slot"
  /\ LET dir == work.meta.dir
         slot == FreeSlot(dir)
         index == IF work.index # NoEntry THEN work.index
                  ELSE IF FreeEntry(dir) # NoEntry THEN FreeEntry(dir)
                  ELSE Victim(dir)
         image == [key |-> req.key, val |-> work.book, sound |-> TRUE]
         left == IF slot = NoSlot THEN {file}
                 ELSE {[file EXCEPT !.slot[slot] = now] :
                         now \in {file.slot[slot], image, BadSlot}}
     IN \/ /\ slot # NoSlot
           /\ file' = [file EXCEPT !.slot[slot] = image]
           /\ work' = [work EXCEPT
                         !.meta.dir[index] = EntryFor(req.key, work.book, slot)]
           /\ Step("meta")
        \/ file' \in left /\ Fail
  /\ UNCHANGED <<tmp, legacy, prepared, view>>

SameCopy(c) == IF c = 0 THEN 0 ELSE 1
OtherCopy(c) == IF c = 0 THEN 1 ELSE 0

NextMeta == Sealed(work.meta.seq + 1, work.meta.dir, work.meta.totals)

\* What is left where `old` stood when the write of `new` over it is cut short.
Torn(old, new) ==
  {old, new} \cup
  [marked : BOOLEAN, sound : {FALSE}, seq : {old.seq, new.seq},
   dir : {EmptyDir}, totals : {NoTotals}]

WriteMeta ==
  /\ pc = "meta"
  /\ LET copy == OtherCopy(work.live)
     IN \/ /\ file' = [file EXCEPT !.copy[copy] = NextMeta]
           /\ Answer("Done")
        \/ /\ \E left \in Torn(file.copy[copy], NextMeta) :
                file' = [file EXCEPT !.copy[copy] = left]
           /\ Fail
  /\ UNCHANGED <<tmp, legacy, prepared, view>>

-----------------------------------------------------------------------------

\* Power fails: RAM is lost, and the write in progress is cut short.
PowerCut ==
  /\ CASE pc = "slot" /\ FreeSlot(work.meta.dir) # NoSlot ->
            \E left \in {file.slot[FreeSlot(work.meta.dir)], BadSlot} :
              file' = [file EXCEPT !.slot[FreeSlot(work.meta.dir)] = left]
       [] pc = "meta" ->
            \E left \in Torn(file.copy[OtherCopy(work.live)], NextMeta) :
              file' = [file EXCEPT !.copy[OtherCopy(work.live)] = left]
       [] OTHER -> UNCHANGED file
  /\ IF pc \in {"import", "create"} THEN tmp' \in {tmp, ZeroedFile} ELSE UNCHANGED tmp
  /\ prepared' = FALSE
  /\ view' = NoView
  /\ Answer("none")
  /\ UNCHANGED legacy

Import == ImportFails \/ ImportMalformed \/ ImportBook \/ ImportMeta
          \/ ImportRename \/ ImportDone
Load == LoadFails \/ LoadUnreadable \/ LoadNotFound \/ LoadNothingToRecord
        \/ QuerySummary \/ LoadAndMerge
Create == SetAside \/ CreateFresh \/ CreateRename

Next ==
  \/ \E r \in Requests : Ask(r)
  \/ Prepare
  \/ Import
  \/ Load
  \/ Create
  \/ WriteSlot
  \/ WriteMeta
  \/ PowerCut

Spec == Init /\ [][Next]_vars

\* The card loses a slot's bytes between calls (not a torn write: a torn write
\* only ever hits a slot no entry refers to).
RotSlot ==
  /\ pc = "idle" /\ file.here
  /\ \E s \in Slots : file' = [file EXCEPT !.slot[s] = BadSlot]
  /\ UNCHANGED <<tmp, legacy, prepared, pc, work, view, req, reply>>

RotSpec == Init /\ [][Next \/ RotSlot]_vars

-----------------------------------------------------------------------------
(* Properties.                                                             *)

TypeOK ==
  /\ file \in File /\ tmp \in File
  /\ legacy \in {"none", "good", "malformed"}
  /\ prepared \in BOOLEAN
  /\ pc \in Steps /\ work \in Work /\ view \in Views
  /\ req \in Requests \cup {NoReq}
  /\ reply \in Replies
  /\ pc = "idle" <=> req = NoReq
  /\ pc = "idle" => work = NoWork

\* Every entry of `m` is in a slot of its own that holds the entry's book, whole
\* and with the entry's figures, under a key no other entry has.
Intact(f, m) ==
  /\ \A i \in Used(m.dir) :
       LET e == m.dir[i]
           image == f.slot[e.slot]
       IN /\ e.slot \in Slots
          /\ image.sound /\ image.key = e.key
          /\ e = EntryFor(e.key, image.val, e.slot)
          /\ image.val.known
  /\ \A i, j \in Used(m.dir) :
       i # j => m.dir[i].slot # m.dir[j].slot /\ m.dir[i].key # m.dir[j].key

\* "A slot in use is never overwritten, and neither is the valid newest meta
\* copy": at every step of every call, and after every power cut, the copy a
\* load would choose refers only to whole slots.
LiveCopyIntact == Readable(file) => Intact(file, LiveMeta(file))

\* What a running call has read, and relies on, is still what the card holds:
\* its copy of the directory is the live one, and the meta it is about to write
\* refers only to whole slots.  This is what makes LiveCopyIntact inductive.
CallAgreesWithCard ==
  /\ pc \in {"idle", "prepare"} => work = NoWork
  /\ pc = "import" =>
       /\ work.next = 1 => work.meta.dir = EmptyDir
       /\ work.next # 1 => tmp.here /\ tmp.copy = NoFile.copy /\ Intact(tmp, work.meta)
  /\ pc = "importRename" => Readable(tmp) /\ Intact(tmp, LiveMeta(tmp))
  /\ pc \in {"aside", "create", "createRename", "slot"} =>
       req.op \in {"session", "finish"} /\ work.book.known
  /\ pc \in {"aside", "create", "createRename"} =>
       work.meta.dir = EmptyDir /\ work.live = 0 /\ work.index = NoEntry
  /\ pc = "createRename" =>
       /\ work.meta.seq = 1
       /\ tmp = [ZeroedFile EXCEPT !.copy[0] = Sealed(1, EmptyDir, NoTotals)]
  /\ pc = "slot" =>
       /\ work.meta.dir = LiveMeta(file).dir
       /\ work.index = Find(work.meta.dir, req.key)
  /\ pc = "meta" => Intact(file, work.meta)
  /\ pc \in {"slot", "meta"} =>
       /\ Readable(file) /\ work.live = LiveCopy(file)
       /\ work.meta.seq = LiveMeta(file).seq

\* write() never runs out of slots: the spare slot is there even at the cap.
SpareSlot == pc = "slot" => FreeSlot(work.meta.dir) # NoSlot

\* The rows queryBooksAt returns without saying Stale are the books the index
\* was ordered by: the generation alone tells that the history changed.
RowsMatchIndex ==
  LET answer == QueryBooksAt(file, view)
  IN view.here /\ ~answer.stale =>
       \A b \in Books : answer.rows[b].secs = view.secs[b]

\* A slot that fails its check costs its book only what the directory does not
\* repeat: the book still reads with the directory's time, finishes and date.
FiguresSurvive ==
  Readable(file) =>
    \A i \in Used(LiveMeta(file).dir) :
      LET e == LiveMeta(file).dir[i]
      IN EntryFor(e.key, ReadBook(file, e), e.slot) = e

\* The entries of the older firmware's JSON that are the first of their book.
FirstEntries ==
  {n \in DOMAIN LegacyBooks : \A m \in 1 .. n - 1 : LegacyBooks[m].key # LegacyBooks[n].key}

\* An import over the cap keeps what the cap would keep: a book not kept as its
\* first entry has it would have been evicted before every book kept.  It is gone,
\* or a later entry of it has won a place again.
ImportKeepsTheLatest ==
  pc = "importDone" =>
    LET h == HistoryOf(file)
    IN \A n \in FirstEntries :
         LET book == LegacyBooks[n]
             kept == h.books[book.key]
         IN \/ kept = book.val
            \/ /\ \/ ~kept.known
                  \/ \E m \in DOMAIN LegacyBooks :
                        LegacyBooks[m].key = book.key /\ LegacyBooks[m].val = kept
               /\ \A b \in Books :
                    h.books[b].known => ~EvictsBefore(h.books[b], book.val)

\* The totals are never less than what the books kept add up to, so that a
\* removal takes a book's whole share back out (takeOut never clamps).
CoversBooks(h) ==
  /\ h.totals.secs >= SumFunction([b \in Books |-> h.books[b].secs])
  /\ h.totals.sess >= SumFunction([b \in Books |-> h.books[b].sess])
TotalsCoverBooks == Readable(file) => CoversBooks(HistoryOf(file))

\* The store implements the atomic history of StatsHistory: each call, each
\* failure and each power cut leaves the history before it or after it.
Abstract == INSTANCE StatsHistory WITH hist <- HistoryOf(file)
Atomic == Abstract!Spec

\* So it does when slots go bad between calls, but for what only those slots held.
AtomicButLosses == Abstract!LossySpec

=============================================================================
