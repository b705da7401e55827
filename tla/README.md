# Verification of Witch(hunt) Reader + BookOrbit

TLA+ models of the parts of this e-reader firmware where state outlives a step:
what it keeps on a card that can lose power, what it exchanges with a server over
requests that can fail, what it believes about the time, what its two tasks
share, and how files and firmware get onto it. TLC checks small instances of them;
TLAPS proves the results listed below for every value of the constants.

The firmware runs on an ESP32 with a few hundred kilobytes of RAM, an SD card, an
e-paper panel that takes most of a second to refresh, and usually no clock that
survives the battery. Nearly all code runs on one FreeRTOS task (`loop()` in
`src/src/main.cpp`); one more draws. There is no journal, no transaction and no
retry queue beyond what these components do themselves.

## Inventory

The components modelled so far, what each keeps and what makes it correct.

| Component | State | Operations | Talks to | What is hard | Correct means |
|---|---|---|---|---|---|
| Reading history store (`ReadingStats.cpp`, `ReadingStatsSlotFile.cpp`) | `reading-stats.bin`: two meta copies (generation, totals, directory) and one slot more than there can be books; the temporary file; `prepared_` | `recordSession`, `recordFinish`, `removeBook`, `querySummary`, `queryBooksAt`, the one-off import of `reading-stats.json` | called by the session tracker and the statistics screens; the card | power lost or a write failing at any step; slots and entries at their limit; a screen's index gone stale | every call takes effect completely or not at all; a write never touches what the live copy refers to |
| Bookmark sync (`BookOrbitSyncExtras.cpp`, `BookmarkStore.h`, `BookOrbitBookmarkStore.cpp`) | `bookmarks.bin`; the record file with identities and a watermark; the running sync | `syncBookmarks`, `toggle`, `removeAt`, `resolvePagesForChapter`, Clear Cache | BookOrbit server (external), web user | requests and answers lost, writes failing, power lost at any step, the record file rewritten in place, edits on both sides, bookmarks older than their timestamps | nothing is taken for deleted that no one deleted; nothing is passed over for good; both sides converge |
| Wall clock (`WallClock.cpp`, part of `HalClock.cpp`) | system clock, its copy in flash, the RTC snapshot, era number, checkpoint, table of corrections | `initAtBoot`, `markNtpSynced`, `checkpoint`, `correctionForEvent`; `restore`, `saveBeforeSleep`, `syncNtp`, `applyClientTime` | session tracker, upload | drift, resets, sleep with and without power, table full, rounding | an event's correction is the one of its era and of its part of the era |
| Reading event queue and upload (`ReadingSessionTracker.cpp`, `BookOrbitStatsQueue.cpp`, `uploadQueuedStats`) | events of the session in RAM, queue file, upload in progress | page turn, end of session, upload batch by batch | wall clock, server | restart between queueing and checkpointing, failed batch, queue at its cap, second synchronisation | events arrive with true times, in order, and none is dropped unsent |
| Activity manager (`ActivityManager.cpp`, `RenderLock.h`, `EpubReaderActivity::render`) | current activity, stack, pending transition, update flag, mutex, pass flag, two task notifications | `loop()` tick, push/replace/pop, `requestUpdate`, `requestUpdateAndWait`, `goToSleep`; the render pass | every screen; FreeRTOS | two tasks, a `render()` that gives the mutex up while the panel refreshes | no screen is destroyed while drawn; no update, transition or wait is lost |

| Highlight exchange (`BookOrbitSyncExtras.cpp`, `HighlightStore.cpp`, `BookOrbitAnnotationStore.cpp`) | `highlights.bin`; the record file with positions, identities and a watermark; the running sync | `syncHighlights`; marking a passage; deleting on the highlights screen | BookOrbit server, web user, the book (positions are minted from its text) | requests, answers and writes lost at any step, files rewritten in place and cut short, a passage whose words cannot be found | as for bookmarks; and nothing is acknowledged unsaved or received twice |
| Serial transfer (`SerialTransferProtocol.cpp`, `SerialTransferDevice.cpp`, `tools/serial_transfer.py`) | on both sides, where in a message they are; the file being written and the bytes gathered for it | put, get, rm, mv, status; the screen opened and left | the card; the firmware update, which reads files it put there | messages dropped or spoiled, card writes, closings and removals failing, the tool killed, the device reset by the opening of the port | what is reported sent or received is whole; no part of a file stays; both sides come back |
| Firmware update (`FirmwareFlasher.cpp`, `OtaUpdater.cpp`, `OtaBootSwitch.cpp`, the start of `setup()`) | two app partitions, two select entries, the update in progress | flash from the card, stream from the server, select, restart, confirm | the bootloader (external), the card | flash failing and power lost at any step; an update whose first boot is not confirmed | the device always starts a whole firmware that was meant |

The other parts are listed in `PROJECT.json` with the reason each has no module:
reading-day ledger, session tracker, protocol client, progress sync, reader
activities, buttons and gestures, recent books, settings, web server, buses and
storage, USB drive mode, boot diagnostics, file index, book formats, graphics, other
screens, vendored libraries. Those with their own control logic are in the plan at the
end; the rest is parsing, drawing or I/O.

How the parts meet: a reading session ends in `ReadingSessionTracker::end`, which
records it in the reading history and queues its page events; a sync runs on the loop
task inside an activity, first the queued events, then bookmarks and highlights of each
book. The models are separate because what passes between them is only the value of
one session or one clock reading. Where they do share state they are composed: the upload extends the clock whose
readings it corrects, and `DeviceUpdate` joins the serial transfer and the firmware
update over the card both use.

## Modules

| Module | What it is |
|---|---|
| `ReadingHistory` | the vocabulary both store modules use: books, totals, requests, how a session or a finish is merged, which of two books is evicted first |
| `StatsHistory` | abstract specification: a history in one variable that every call changes completely or not at all |
| `ReadingStatsStore` | the slot file, one action per step of a call that touches the card; implements `StatsHistory` |
| `MCReadingStatsStore` | instances: a new card; a card with an older JSON, on which a slot may also rot |
| `ReadingStatsStoreProofs`, `ReadingStatsStoreRefinement` | theorems on the store; that it implements `StatsHistory` |
| `BookmarkSync`, `MCBookmarkSync` | one book's bookmarks on the device and the server |
| `BookmarkSyncProofs` | theorems on it |
| `Subsequences`, `SubsequenceProofs` | `Picked`, the filter the sync modules are written with; what it returns |
| `HighlightSync`, `MCHighlightSync` | one book's highlights on the device and the server |
| `HighlightSyncProofs` | theorems on it |
| `WallClock` | eras, checkpoint, corrections, and `HalClock` around them |
| `StatsUpload`, `MCStatsUpload`, `StatsUploadProofs` | events, queue and upload; extends `WallClock`; their proofs |
| `SdCard` | the card's files, shared by the next two |
| `SerialTransfer` | the tool, the cable and the device |
| `FirmwareUpdate` | partitions, select entries, both ways of updating, the bootloader |
| `DeviceUpdate`, `MCDeviceUpdate` | the composition of the two |
| `DeviceUpdateProofs` | theorems on the firmware and on the cable in it |
| `ActivityManager`, `MCActivityManager` | loop task and render task |
| `ActivityManagerProofs` | theorems on it |

Definitions marked `Mutant:` in a comment, or standing directly above a definition
with the same parameters and a name that says what is wrong with them (`KeptAll` above
`Kept`, `PutAlone` above `PutRecord`), are faulty variants. No specification uses
them; replacing the definition below by one must make TLC find a property violated, which
shows that the property depends on that line of code.

### Reading history store

`file` and `tmp` are `reading-stats.bin` and its temporary file: `copy[0]`, `copy[1]`
are the two meta copies, `slot` the slots. A CRC is a Boolean, `sound`. The day buckets,
titles and the like of a book are abstracted to its seconds, sessions, finishes and
last date; `sess` stands for what only the slot holds, the rest is repeated in the directory.
`pc` says at which step of `write()` or `prepare()` the running call is. Steps that
only read are joined to the step that follows; every write, rename and removal is an
action that may succeed, fail leaving the old or the mixed bytes, or be cut short by
`PowerCut`.

| Action | Code |
|---|---|
| `Ask` | a call arrives |
| `Prepare` | `prepare()`: removes the temporary file, decides whether to import |
| `ImportFails` … `ImportDone` | `importLegacy` |
| `LoadFails` … `LoadAndMerge`, `QuerySummary` | `write()` up to the merge; `querySummary` |
| `SetAside`, `CreateFresh`, `CreateRename` | a new history file |
| `WriteSlot`, `WriteMeta` | the two writes of an update |
| `PowerCut` | reset at any step |
| `RotSlot` | the card loses a slot (only in `RotSpec` and `ImportSpec`) |

`HistoryOf(file)` is the refinement mapping: what a reader of the live copy would be
told. `Atomic` says that under it the store implements `StatsHistory`; `AtomicButLosses`
that it does so when slots rot too, but for the sessions only the lost slot held.

### Bookmark sync

`marks` is `bookmarks.bin`, `recs` the record file (records in the order they were minted,
watermark), `s` the locals of the running `syncBookmarks`: its own loaded copies, the
batch received, the acknowledgments to send. A bookmark has a timestamp (0 while the clock
is not set), a place, and `settled`, whether its position in the chapter is known yet.
`server` is external: an item per bookmark, with the key the device acknowledged it under.
What is assumed of it is what the device's comments rely on: an uploaded entry is linked to
a web bookmark waiting at its place or becomes an item; an item whose key is missing from a
complete key set was deleted on the device; a web bookmark is offered until
acknowledged; a deletion until its acknowledgment.

`Begin`, `Mint`, `Retain`, `Exchange`, `Pull`, `Advance`, `Apply…`, `Save`, `Cover`, `Ack`
follow `syncBookmarks` from top to bottom. `Star`, `Unstar`, `Settle` are the reader's edits
with the save on closing the book; `ClearCache`, `WebAdd`, `WebDelete`, `PowerCut` are the
environment. Faults are named kinds, so that a run says exactly which it allows.

The record file is opened truncating and rewritten in place. `CutShort` is a reset in the middle of
that: the file holds some of its first records under its watermark, or nothing that can be read
(`Part`). `ShortFile` and `ShortPut` are a card that fails there while the sync goes on, whether
`writeFile` reports it or, where only `close()` fails, does not; `put()` also writes over a file it could read
in part only. `LeaveFile` is a write that does not begin, the file not being opened. `removed` and `lost` are
history variables: places the reader has removed a bookmark from, and places whose record a write lost.

### Highlight exchange

The same shape: `marks` is `highlights.bin`, `recs` the record file, `s` the locals of
`syncHighlights`, and `Begin` … `Ack` follow it from top to bottom. A passage stands for a
chapter and the words highlighted in it, which is what the device matches by
(`Present`); an identity is the pair of a datetime and a passage, since the server's key is a
hash of the two. `Unfindable` passages are those whose words the device cannot find
in the book, `Unplaceable` those whose position from the server names no chapter.
`faults` lists the faults there have been. `CutShort` is a
reset while the record file is rewritten in place: it then holds some of its first
records or nothing. `ShortFile` and `ShortPut` are the failing card, as for the bookmarks, and
`Retain` may fail whole (fault kind `retain`): the sync then goes on with the records of highlights that
were removed. `removed` and `twice` are history variables for the properties.

What differs from the bookmarks: a failed `save()` acknowledges nothing; a late
identity is minted per highlight; the highlight file is outside the folder Clear Cache
removes. What is assumed of the server is the same.

### Serial transfer

A message is what one side writes in one piece; `toDev` and `toHost` are the two
directions of the cable. A file is its sequence of chunks, and a checksum is the sequence it
was computed over. `host.pc` is where `serial_transfer.py` is in a command, `dev.pc` where
`receiveFile` or `handleDownload` is. `dev.buf` holds the chunks gathered before a write
to the card (`Coalesce`). `EndFile` is the end of an upload, `Abandon` its discarding; `LeavePart` is a
`close()` or `remove()` that fails there, which the code does not notice, and `torn` the names it
happened to or a reset cut short. `Skip`, `Refused` and `Misread` are what the tool does with
something it did not expect: passes over a line, fails, or takes it for data. `Lose` and
`Garble` are the cable. `Open` joins the tool's `open()` with the reset it causes, from which
the device comes back to this screen (`armSerialTransferReboot`); after a loss of power it
does not.

### Firmware update

`part` holds the two app partitions, `otadata` the two select entries: a sequence number,
whether its CRC is right, and the state the bootloader keeps. `Dest`, `NewSeq`,
`TargetSlot` are the choices `switchTo` and `forceSetOtaBootPartition` make, which come to the
same entry but for its state. The two write paths are `FlashFile` … `FlashDone` and
`BeginInstall` … `StreamDone`; both end in `EraseEntry`, `WriteEntry`, `Restart`. `Start` is the
bootloader: it gives up an entry still pending, marks a new one pending, and starts the
partition selected, or the other if that one does not load. `ConfirmImage` is the start of
`setup()`. An image is valid or not (`Whole`); a streamed image of another board is
recognised by a chunk (`Alien`).

`DeviceUpdate` interleaves the two: one screen is open at a time, so an update runs only
away from the transfer screen, but the port may be opened and power lost at any
moment of either.

### Wall clock, queue and upload

Time is counted in ticks and an epoch below `Plausible` stands for one below
`MIN_PLAUSIBLE_EPOCH`. `real` is the true time; the device sees `clock`. `Boot` joins
`HalClock::restore` and `WallClock::initAtBoot` in the order `setup()` calls them; `Sleep`,
`Reset` and `PowerLoss` differ in what of the clock survives. `stepped`, `drift`, an event's
`at` and `syncs`, and `accepted` are history variables: no action of the device reads them.
`StatsUpload` adds the session's events, the queue, and `uploadQueuedStats` batch by
batch.

### Activity manager

`at` is the loop task's place in its tick, `render` the render task's place in its
pass. Code of an activity (its `loop()`, `onEnter()`, a result handler) is any sequence of
the calls the manager offers, while `at = "code"`, ended by `EndCode`. The exclusive
lock of a transition is `TakeExclusive`, then either `HandBack` and `Retry` or the
transition. `GiveUp` and `Retake` are the window in which the reader's `render()` hands the
mutex back while the panel refreshes. `own` is a history variable that says what a blocked
`requestUpdateAndWait` has had so far. `New` picks any one free instance: instances are
interchangeable.

## Runs

State counts are distinct states.

| Run | Configuration | Shows |
|---|---|---|
| `store_new_card` | 3 books, cap 2, sessions of 0 or 1 s, 4 generations; 112,541 states | `TypeOK`; `LiveCopyIntact`; `SpareSlot`; `RowsMatchIndex`; `CallAgreesWithCard`; `Atomic` |
| `store_import` | the same with a JSON of 5 entries, one book three times, sessions of 1 s, 3 generations and slots going bad; 639,729 | `TotalsCoverBooks`, `ImportKeepsTheLatest`, `FiguresSurvive`, `AtomicButLosses` |
| `bookmarks` | 2 places, 2 edits, 1 web bookmark, 1 fault of eight kinds; 1,314,526 | `DeletionsAreTheReaders`, `CoveredIsKnown`, `AcknowledgedIsHere` |
| `bookmarks_converge` | batch of 2, an unplaceable position, 1 fault of six kinds; 247,822 | `Converges` (liveness) |
| `bookmarks_cleared` | Clear Cache | `DeletionsAreTheReaders` is violated |
| `bookmarks_batch` | batch of 1 | `CoveredIsKnown` is violated |
| `upload` | 2 syncs, 1 restart, 3 events, batch 1, queue 2, drift 1; 886,486 | `Dated`, `Chronological`, `KeptUntilSent` |
| `upload_loss` | a sleep or a power loss | `LossOpensEra` is violated |
| `upload_resent` | 2 syncs, a failed upload | `ResentUnchanged` is violated |
| `highlights` | 2 passages, one not to be found, 2 edits, 1 web highlight, room for 2, 1 fault of twelve kinds; 783,726 | `DeletionsAreTheReaders`, `CoveredIsKnown`, `AcknowledgedIsHere`, `ReceivedOnce`, `Converges` (liveness) |
| `device_update` | a file of 3 chunks gathered by 2, 2 names, 3 images, 2 commands or updates, 1 fault of nine kinds; 382,176 | `StoredWhole`, `ReceivedWhole`, `NoPartLeft`, `NextBootIsMeant`, `UpdateTakesEffect`, `GivenUpForGood`; `CommandEnds`, `DeviceComesBack` (liveness) |
| `activities` | 3 activities, stack of 1; 127,796 | `DrawsTheCurrent`, `WaitedForItsFrame`, `UpdateDrawn`, `TransitionDone`, `WaitEnds` |

### Why the bounds are enough

*Store.* Two books fill the cap and a third forces an eviction, with three slots so that
exactly one is spare. Generation 4 is reached by creating the file and three updates:
both meta copies have then been overwritten after having been live, and a victim's slot
reused. The JSON holds one book more than the cap, one book twice and no totals
(`ImportedTotals` adds its entries up), so each branch of `importLegacy` is taken; three generations are the import and two updates
after it, with the loss of a slot before the first. The import starts from no history or from
an unreadable one, and from a good or a malformed JSON. Sessions of zero and one second tell "nothing
to record" from an update. Deadlock is checked: a power cut is always possible.

*Bookmarks.* Two places let one bookmark be in the way of another; two edits make
"bookmark, then delete" and "two bookmarks"; one web bookmark can be added, converted,
deleted and offered again. `Bookmarks.cfg` takes a batch as large as the list, because with
a smaller one the claim fails (`bookmarks_batch`); `BookmarksConverge.cfg` has a batch
of 2. With one fault per behaviour a sync may fail at any of its steps and the following
ones run undisturbed, which is the recovery in question: in `bookmarks` a reset at any point of any rewrite of the record
file is among them. Each run leaves out the kinds its properties do not survive (Preconditions). The runs say
`CHECK_DEADLOCK FALSE` since the bound on edits and faults may leave nothing to do but
sync.

*Highlights.* Two passages, one of which cannot be found in the book, so that a key set can be
incomplete and a list full (room for two). Two edits make "mark, then delete", and a mark
on both sides with the one web highlight. The web's one datetime, 3, is after the second of the device's first edit
and is that of its second, so that a passage may be marked on both sides at one second; with two
datetimes, before and after all of the device's, TLC finds no error either.
One fault of any kind but `torn` at any step, and the following syncs run undisturbed. The
batch holds all: with a smaller one `CoveredIsKnown` fails as it does for bookmarks.
`CHECK_DEADLOCK FALSE`, as above.

*Transfer and update.* Three chunks gathered by two make a write in the middle and one at the
end; two names let a file be moved, replaced or in the way. Two commands or updates are enough
for a file to be put and then flashed, for one transfer to disturb the next, and for an
update to follow one whose first boot was cut off; one fault or power cut may fall on any step of
them. Sequence numbers go to 3, where both entries have been written and one rewritten. The
tool stops at the end of its commands: `CHECK_DEADLOCK FALSE`.

*Upload.* Three ticks after the start (`Horizon`), one restart and two synchronisations
make two eras with one or two measurements each; with a batch of one, a queue of two takes two
requests, so that one fails after another was accepted. Two queue places and three events
reach the cap. The clock's horizon ends every behaviour: `CHECK_DEADLOCK FALSE`.

*Activities.* One activity below the current one and a pending one are three; a deeper
stack repeats push and pop. The theorems cover any depth. Deadlock is checked.

### Preconditions of the properties

- `Dated` speaks of uploads made while this era's clock has been measured, nothing has
  moved the clock inside an era (`stepped`: a restore after a loss, a browser setting
  it) and no event has been through two synchronisations. Without the first two the device
  has nothing to measure against; the other two cases are the findings `upload_loss` and
  `upload_resent`. Uploads satisfying it do occur: the property has a mutant that
  violates it.
- `Chronological` speaks of uploads of a queue whose events are of measured eras, but for a
  first few that nothing can date (`Correctable`). An event of an unmeasured era is uploaded with
  its own stamp, and even one that is dropped lowers the floor for those behind it
  (`previousStart = event.startTime`, `BookOrbitSyncExtras.cpp:80`).
- `WaitedForItsFrame` exempts a call made while a pass is already in flight: the code wakes
  the caller at the end of that pass (`ActivityManager.cpp:1090`), where
  `docs/activity-manager.md:216` reads as if it waited for its own.
- `StoredWhole` allows the file to be absent: when writing the last of it fails, `fileEnd` removes
  it and the protocol answers "OK" all the same (`SerialTransferDevice.cpp:202`,
  `SerialTransferProtocol.cpp:197`). It allows part of the file under a name the card failed to close
  (`:203`) or to remove (`:221`): the code looks at neither result, and "OK" is answered over that part too.
  `NoPartLeft` exempts these names, and those whose writing a reset cut short (`torn`), which stay under their
  final name; an upload over an earlier file empties that file before any data has come. So the two say of
  a failing card that it leaves nothing where only a write fails, and of the cable that it never does harm.
- `NextBootIsMeant` allows any whole image until `setup()` has confirmed the running one: an
  update whose first boot is cut off is given up for the firmware before it. It takes the
  server to state the length of a download (`Lengths`); with a stream ended by the connection
  alone, `performInstallUpdateStep` selects a truncated image, marked valid. A write of a
  select entry that is reported failed is taken to leave no entry with a sound CRC.
- `HostTimeout` is enabled only when the device has stopped waiting: the tool waits 10 s for a
  line and 30 s for data, the device 2 s for a byte.
- The bookmarks' `DeletionsAreTheReaders` exempts places whose record a write of the record file lost
  (`lost`): cut off in its rewriting, or failed for a bookmark just received. What happens to such a
  bookmark is under Findings. `DeletionsAreTheReaders` and `AcknowledgedIsHere` are not held to the fault kinds
  `retain`, `short`, `open` and `torn`, nor the former to `cleared`, which their run leaves out: with each they fail.
  `Converges` holds with a failed `retain`; it fails with `ack` and `power`, where a bookmark
  received and then deleted on the web before the server heard of it stays on the device, and with `cut` and `record`,
  where a bookmark whose record was lost is removed by the reader and stays on the server; its run leaves these out.
- The highlights' `DeletionsAreTheReaders`, `CoveredIsKnown` and `AcknowledgedIsHere` are asked while no `retain()`
  has failed and no failing card taken records (`Trimmed`); Findings says what happens otherwise. `TypeOK`,
  `ReceivedOnce` and `Converges` are asked under all twelve kinds of fault.
- The highlights' `Converges` exempts a device with a passage that has no record and cannot be
  found, which never sends a complete key set (`NeverComplete`), so that deletions made there
  never reach the server (`BookOrbitSyncExtras.cpp:481`); passages highlighted more than once, on
  either side or both (`twice`), where a record is missing or an identity is used again;
  and, after a record was lost, passages the reader has removed.
- The bookmarks' `Converges` leaves out bookmarks that have no timestamp or no settled position, which are
  never sent, and is asked once the clock is set.

### Fairness

- `BookmarkSync`: `WF(SyncStep)`. A sync is a sequence of calls on the loop task, so one that
  has begun goes on; and syncs are assumed to be started again, by the reader or by the sync
  on closing a book. Nothing is assumed of the reader, the web user or faults, whose number is
  bounded.
- `HighlightSync`: `WF(SyncStep)`, for the same reason.
- `DeviceUpdate`: `WF` for the tool's steps, the device's steps on the transfer screen, and
  `ConfirmImage`: the tool is a loop of reads with timeouts, the device's `loop()` polls, and a
  boot reaches `setup()`. Nothing is assumed of the reader, of the one who types commands, or
  of faults.
- `ActivityManager`: both tasks have the same priority and FreeRTOS schedules them in turn,
  hence `WF` for the steps of each. Activity code and `render()` return, and a task blocked on
  the mutex gets it when it is given up again and again: a transition that finds a pass
  in flight sleeps for a tick after handing the mutex back (`vTaskDelay`), which lets the blocked
  task in. These steps are enabled repeatedly, not continuously, hence `SF` for
  `EndCode`, `TakeExclusive`, `BeginPass` and `Retake`.

## Findings

Four statements of the repository that the code does not keep. Each is a run that TLC ends
with a counterexample; `PROJECT.json` has the quotations.

1. **Clear Cache deletes a book's bookmarks on the server** (`bookmarks_cleared`).
   `BookmarkStore::load` takes a missing file for an empty store (`BookmarkStore.h:30`). The record
   file is kept elsewhere and is readable, so the next sync sends an empty key set
   marked complete, the very thing `BookOrbitSyncExtras.cpp:173` guards against.
2. **The watermark can pass over records** (`bookmarks_batch`). It becomes the largest identity in
   the batch sent (`BookOrbitSyncExtras.cpp:221`), but the batch is filled in the order the
   records were minted, and identities need not be in that order.
3. **A lost clock does not open an era** (`upload_loss`). `setup()` calls `HalClock::restore()`
   before `WallClock::initAtBoot()` (`main.cpp:1427`); restored from flash, the clock looks
   plausible, and `WallClock.h:20`, "any clock loss opens a new era", fails.
4. **Re-sending is not harmless** (`upload_resent`). Between a failed upload and the next, a
   second synchronisation of the era replaces its flat correction by a window, and the events
   before it are sent again uncorrected (`WallClock.cpp:234`, `BookOrbitSyncExtras.cpp:100`).

Eight more behaviours that the models show, without a run of their own:

- *A book listed twice in an older JSON can be kept as its second entry has it*, although the import says
  "appears twice; the first kept" (`ReadingStats.cpp:583`): it knows the second for one only while the first
  has its place (`:582`), and past the cap the first may have been evicted by then. Only a hand-made
  file gets there.
- *An older JSON can be imported twice.* The import decides by the absence of
  `reading-stats.bin` alone (`ReadingStats.cpp:491`). A JSON whose rename failed stays, "ignored from
  now on" (`:654`); if the history file then becomes unreadable, is set aside, and power fails
  before its replacement is renamed into place, the next boot imports it again. The runs'
  abstract history allows an import into an empty history at any time.
- *A torn highlight file deletes highlights on the server.* `highlights.bin` is rewritten in
  place, and the reader's screen does not look at what `load()` answers
  (`EpubReaderActivity.cpp:2404`). After a write cut short the next highlight saves a list of
  one; the next sync drops the records of the others and sends a key set marked complete. With the
  fault kind `torn` in `Faults`, `DeletionsAreTheReaders` of `HighlightSync` fails.
- *A bookmark's record file cut off deletes the bookmark on the server.* `writeFile` opens the record file
  truncating (`BookOrbitBookmarkStore.cpp:58`), at every put, trim and move of the watermark. After a reset there
  that leaves the watermark and not the records, the next sync mints each bookmark a second identity above
  the watermark and sends it; the key set, complete again, lacks the first, and the server takes
  bookmarks nobody touched for deleted. It keeps the copies under the new identities. The same follows
  when the record of a received bookmark cannot be written (`BookOrbitSyncExtras.cpp:350`).
  `DeletionsAreTheReaders` has `lost` for these places; without it, it fails with `cut` or `record`.
- *A bookmark's record kept too long acknowledges what is gone.* When `retain()` fails, or finds a file an
  earlier write has left unreadable, the sync goes on with the records of bookmarks the reader has
  removed (`BookOrbitSyncExtras.cpp:201`). A web bookmark at the place of one is acknowledged as its
  duplicate (`:303`) though there is none; the next sync trims the record and the server deletes the web's. With the fault
  kind `retain` or `short`, `AcknowledgedIsHere` and `DeletionsAreTheReaders` of `BookmarkSync` fail.
- *A highlight's record kept too long deletes another highlight.* The count that decides whether a key set is complete
  (`BookOrbitSyncExtras.cpp:481`) is of records, and after a failed `retain()` (`:446`) one of them
  is of a removed highlight. It stands in for a highlight here without a record, such as one that was found
  present when the web offered it and cannot be found in the book: the key set goes out as complete without it,
  and the server drops it. Kept until a web deletion names it, such a record also takes away a highlight of the same second,
  just acknowledged (`:531`), for the device deletes by timestamp; and, never sent, it may be
  covered by the watermark. Without `Trimmed`, `DeletionsAreTheReaders`, `AcknowledgedIsHere` and, with
  a failed request besides, `CoveredIsKnown` of `HighlightSync` fail.
- *A record file lost twice deletes a highlight on the server.* A file that cannot be read means "history lost",
  never "the user deleted everything" (`BookOrbitAnnotationStore.h:78`), and the sync that finds
  it so sends no complete key set; the one after it does. A highlight is sent under an identity
  made of its timestamp. The record file is cut short but keeps its watermark, so the highlight is minted
  again, above the watermark; the server gets the new identity in a complete key set and takes the first for
  deleted. Then the file is lost whole, watermark included, and the highlight is minted the first identity once
  more. The server knows that one, as deleted, and makes nothing of it; the next key set is complete and
  lacks the second identity, so the live highlight goes. Nobody has touched it. With `MaxFaults = 2` and
  `Faults = {"cut"}`, `DeletionsAreTheReaders` fails on one passage, after one edit and no change on the web; so it does
  with a `cut` and a `record`. With one `cut` and any other faults it fails where the web's highlight of a
  passage has the very second of the device's own (`WebDates = {2, 3}`, faults `cut` and `mint`).
- *An era number can be used twice.* `saveState` rewrites `wallclock.bin` in place
  (`WallClock.cpp:106`). Cut short, it does not load and the era numbers start again: an event still
  queued under the old era 1 is corrected with what was measured for the new one, where
  `BookOrbitSyncExtras.cpp:39` says "each event gets the correction WallClock measured for ITS
  era". With the fault kind `torn` in `Faults` and two restarts, `Dated` fails; so it does with
  `save` (the file could not be opened and the new number was never stored).

## Proofs

TLAPS checks these for every value of the constants that satisfies the named assumptions.

### `ReadingStatsStoreProofs`

From `LegacyAssumption`, which gives the JSON's entries and stated totals their types, and `ReadingHistory`'s `BooksAssumption`, `CapAssumption` and
`InputAssumption`: the null key is no book, the cap is positive, times are natural numbers.

- `TypeCorrect`: `Spec => []TypeOK`. `TypeOK` is inductive; the work is in the lemmas on what the
  directory's operations return (`FindEntry`, `FreeEntryIsFree`, `VictimIsUsed`) and one lemma per group of
  actions.
- `SpareSlotAlways`: a write always finds a free slot. There are `Cap` entries and `Cap + 1`
  slots, so the slots referred to cannot be all of them (`SpareSlotExists`, by
  cardinality).
- `LiveCopyAlwaysIntact`: `LiveCopyIntact`, the meta copy a load would choose refers only to whole
  slots, each holding its entry's book with its entry's figures, at every step of every call and after
  every power cut. It is not inductive alone: when a call is about to write, it must be
  known that what it read is still what the card holds. `CallsAgreeWithCard`: `CallAgreesWithCard` says so step by step
  (the copied directory is the live one; the meta to be written is intact; the temporary file
  of an import or of a new history is already a good history), and the three together, with `TypeOK`,
  are inductive; the totals an import writes are typed by `ImportedTotalsType`. The argument at the
  two writes: a slot write goes to a slot no live entry refers to
  (`FreeSlotWriteIsHarmless`), and a meta write goes to the other copy: written whole it has the
  larger generation and becomes live, torn it fails its check and the old one
  stays live (`NewCopyIsLive`, `TornCopyIsNotLive`).

- `FiguresAlwaysSurvive`: `RotSpec => []FiguresSurvive`, where `RotSpec` lets the card lose any slot
  between any two calls.

The invariant has a parameter, `IInv(lost) == TypeOK /\ LiveIntact(lost) /\ CallAgrees(lost)`: the slots
in `lost` may have gone bad, the others are whole. Every step of the store preserves it for any `lost`
(`NextAgrees`), so the argument is made once. With no slot lost it is
`TypeOK /\ LiveCopyIntact /\ CallAgreesWithCard` (`NothingLost`), whose conjuncts TLC checks in
`store_new_card`; with `Slots` it is also preserved by `RotSlot` (`RotAgrees`).

### `ReadingStatsStoreRefinement`

From the same assumptions, and `IInv(Slots)`: no theorem here needs the slots to be whole.

- `StoreIsAtomic`: `Spec => Atomic`, the refinement under `hist <- HistoryOf(file)`. The lemmas
  come in three layers. What a meta tells over a file (`Told`): a book entered at the place
  `WriteSlot` chooses, over the slot it writes, is told as written, the evicted one is gone and
  the others stay (`PutTells`); a full directory is a history at the cap, by cardinality
  (`KnownBooks`); so a session, a finish or a removal leaves one of the histories
  `StatsHistory` allows (`PutHasItsEffect`, `RemoveHasItsEffect`), the evicted book being one
  that no other is evicted before. What a running call carries (`CallTellsHistory`): its book is merged
  from what the card holds, and the meta it is about to write tells a history the request may leave. What a
  step does to the history told: nothing until the meta is live (`FreeSlotWriteTellsTheSame`), then
  all of it or nothing (`MetaWriteTells`). Every step is then a step of `StatsHistory` or
  a stutter, one lemma per group of actions (`LoadTells` … `ImportTells`).
- `RowsAreOfTheIndex`: `RowsMatchIndex`. Every step leaves the history told or moves the
  generation on (`FileStepsMoveOn`), so an index of this generation still has the books' times
  (`IndexIsOfItsGeneration`). `RowsSurviveLosses`: so it is when slots go bad, which leaves the times.
- `StoreIsAtomicButForLosses`: `RotSpec => AtomicButLosses`. A slot that goes bad is `Lose` of the
  book whose live entry refers to it, or a stutter when none does (`RotLoses`). TLC checks this with
  one slot going bad after the import; the theorem has any number of them, at any time.
- `ImportAlwaysKeepsTheLatest`: `ImportKeepsTheLatest`, for every JSON. The invariant, `ImportKeeps`, says of each
  entry read so far that its book is kept as the entry has it, or that the directory is full and
  every book in it would be evicted no sooner. Replacing the victim preserves this because the order of
  eviction is a total preorder (`PlacedKeeps`, `LeftOutKeeps`). Proving it corrected the property, which
  had said that a book not kept as its first entry has it is gone: a later entry of the
  same book may win a place after the first was evicted.
- `TotalsAlwaysCoverBooks`: `RotSpec => []TotalsCoverBooks`, the totals are never below what the
  books kept add up to, so that a removal never clamps at zero, whatever was evicted,
  removed, imported or lost with a slot before. Two hypotheses. The books are finitely many
  (`IsFiniteSet(Books)`): a document id has 32 hex digits. And the JSON's totals, unless the
  import derives them, are no less than its entries add up to (`JsonTotalsCover`): the older firmware wrote
  no others; a hand-made JSON can state less, and the code keeps what it states. The argument goes over what a
  history tells, not over the files: each of the effects of `StatsHistory` changes one book or evicts
  another (`OneBookGrows`, `OneBookGoes`), which the totals follow or outgrow (`PutCovers`, `RemovalCovers`,
  `LossCovers`). A step of the store tells the same history, one that the request may leave, or the imported
  one (`FileStepsMoveOn`); of an import still running, the books placed so far are at most what the entries
  read so far add up to (`CoversSoFar`, `ImportBookCovers`), evictions included.

A sum over a set is a fold of the community modules, for which the provers have no facts. The section
"Sums over finite sets" of `ReadingStatsStoreProofs` proves them: that a sum of naturals does
not depend on the order it is taken in (`SumTakesAny`), grows with its terms (`SumIsMonotone`), and what it is
with one place more, less or changed. They are by induction on a finite set (`InductionOnSet`), which is
stated with the set of the subsets for which the claim holds, since the library's theorem
takes an operator.

### `ActivityManagerProofs`

From `InstanceAssumption`.

- `TypeCorrect`: besides types, `TypeOK` ties the mutex to the places that hold it, the
  pending activity to the pending action, and the pass flag to the activity being drawn.
- `DrawnIsCurrent`: `DrawsTheCurrent`. It needs that a pass is in flight exactly at the
  render task's places between beginning and ending one, and that `current` is null only
  between the last pop and the launch that follows.
- `WaiterGetsItsFrame`: `WaitedForItsFrame`, which needs to follow the waiter's registration
  through the notification it gets (`WaitersFrame`).

The invariant is `IInv == TypeOK /\ PassInFlight /\ CurrentUnlessLaunching /\ PushFits /\
DrawsTheCurrent /\ WaitersFrame`, with one lemma per action.

### `DeviceUpdateProofs`

From `FirmwareAssumption` and, in the theorems on the firmware, `Lengths`: images are sequences of chunks and not
empty, the factory's is one of them, a release is an image or holds a chunk that shows it to be another
board's, and the server states the length of what it sends. Nothing is assumed of the files on
the card, of sequence numbers or of the transfer.

- `AlwaysBoots`: `NextBootIsMeant`; `UpdateStarts`: `UpdateTakesEffect`; `StaysGivenUp`:
  `GivenUpForGood`.
- What the three need to know of the two select entries is in `Settled(od, p)`, partition `p`
  starts now and after every loss of power, and `OnProbation(od, p, state)`, `p` is selected by an entry
  in that state and, should it be given up, the other partition is settled on. One lemma per
  thing that happens to the entries: a start leaves settled ones alone (`SettledStays`), makes a new
  one pending (`NewPending`) and gives a pending one up (`PendingGivenUp`); whatever
  is left in the other entry changes nothing while it is not sound (`UnsoundKeeps`), and once it is
  sound it selects the new partition, with the old one to fall back on (`WrittenSelects`);
  confirming settles (`ConfirmSettles`).
- `FlashInv` adds what each step of an update has written where: the running partition is whole and
  never written (`Bootable`, `Elsewhere`), the other holds a prefix of the image until the select entry is
  touched, then all of it (`Copied`), and the entry about to be written has a number that wins and
  names the partition (`EntryReady`). It is inductive, one lemma per action; a cut at any place is
  `PowerLostKeeps`.

On the cable, from `TransferAssumption`: the file and its earlier version are not empty and differ, and no
chunk of them is what a spoiled or a zero byte looks like. `Lengths` is not needed.

- `SentIsStored`: `StoredWhole`; `ReceivedIsTheFile`: `ReceivedWhole`; `NothingHalfWritten`:
  `NoPartLeft`, under every fault, a failing `close()` and `remove()` included, with the exemptions that
  Preconditions names. The three need to know where tool and device are relative to each other, whatever was
  lost on the way. `Midway`: what the device has counted into the checksum is what the card holds
  followed by what is gathered, so a checksum that matches means the card holds the file.
  `WireSound`: a checksum on the wire to the device is the file's. `Ordered`: a command the device
  will hear is the last thing sent, and the tool waits for its answer, so data is never taken for a command.
  `Together`: the device is in a file only while the tool is in the same one. `Answered`: an
  answer the tool is about to read says what the card holds now; a download
  is asked for again only when the device is no longer in the last one.
- `CableInv` is their conjunction with the types; it is inductive, one lemma per action of the tool, the device,
  the link and the screen.
- `UpdateTypes`: `TypeOK` of the composition, for the firmware too, whose states have to stay among the
  ones an entry can have (`FirmTyped`).

### `BookmarkSyncProofs`

From `ConstantsAssumption`: limits are natural numbers and the batch is not empty. Each theorem names the faults it
does not survive; the others may happen in any number, at any step, on any set of places. `ReAdds`
means that one may be made on the web at the place of a bookmark whose deletion the device has not
heard of.

| Theorem | Property | Hypotheses |
|---|---|---|
| `TypesAlwaysHold` | `TypeOK` | none |
| `CoveredIsAlwaysKnown` | `CoveredIsKnown` | at each exchange the records fit into one batch (`OneBatch`) |
| `AcknowledgedIsAlwaysHere` | `AcknowledgedIsHere` | no `ReAdds`; no fault `retain`, `short`, `open` or `torn` |
| `DeletionsAreAlwaysTheReaders` | `DeletionsAreTheReaders` | the same, and no fault `cleared` |

The hypotheses are those the code needs. `BOOKORBIT_BOOKMARK_BATCH` is below `MAX_BOOKMARKS`, so a
batch can be too small: `bookmarks_batch` shows what happens then. `bookmarks_cleared` does it for the fault
`cleared`; the others are in the hazards. The run `bookmarks` enables faults of the other kinds only. `cut`, a
record file cut off anywhere in a rewrite, is among those the theorems do survive, any number of times:
`AcknowledgedIsHere` as it stands, `DeletionsAreTheReaders` with `lost`, which exempts the places whose
record went that way and no others.

- `FilesInv`, which needs no hypothesis. `Typed`. `Stamped`: a timestamp belongs to one place in the bookmark file, the
  record file and the running sync's copies, no list holds it twice, and the clock is past all
  of them, which is why the one minted next is new (`NextStamp`). `Loaded`: until it
  applies changes a sync works on what the files hold, after that on no fewer records; what it applies are
  changes to bookmarks the server has.
- `Covered` adds what is known of a sync's own records once it has uploaded them, so that the
  two places where the watermark moves, `Advance` and `Cover`, pass over none.
- `AckInv`. `Retained`: after `retain` each record has a settled bookmark. `Waiting`: a web
  bookmark without a key is alone at its place, so a record sent there is linked to it and makes no
  second one. `Taken`: what became of each change received until it is acknowledged, though
  the web user may delete it and requests may link it meanwhile. `Acked`: each acknowledgment answers one of
  them with the first record of its place.
- `DeletionInv`. `LinkedHeld`: a live bookmark the server has linked has its record and its settled
  bookmark here, unless the reader removed one of its place or a write lost its record. `KeysApart`: no two of the server's bookmarks have
  one key, or a deletion of the one would take the other's bookmark away. When a
  complete key set lacks a key, the first says that the reader removed it (`AnswerDeletes`).

What the server does with a request is one lemma (`ReceivedIs`), what an acknowledgment does another
(`ToldIs`); each action has one that says what it changes (`BeginDoes` … `PowerCutDoes`), from which
the steps of all four invariants are proved. `Picked` is defined by recursion on the list; `PickedPlaces`
in `SubsequenceProofs` gives what the proofs use of it, the increasing function from the places of
the result to those of the list.

### `HighlightSyncProofs`

From `ConstantsAssumption` again. Each theorem names the faults it does not survive; the others may
happen in any number and order. Three of the properties are themselves asked only while records have been
trimmed (`Trimmed`: no `retain()` has failed and no failing card has taken records), and so are their theorems.

| Theorem | Property | Hypotheses |
|---|---|---|
| `TypesAlwaysHold` | `TypeOK` | none |
| `ReceivedAlwaysOnce` | `ReceivedOnce` | none |
| `AcknowledgedIsAlwaysHere` | `AcknowledgedIsHere`, with `Trimmed` | none |
| `CoveredIsAlwaysKnown` | `CoveredIsKnown`, with `Trimmed` | at each exchange the records fit into one batch (`OneBatch`) |
| `DeletionsAreAlwaysTheReaders` | `DeletionsAreTheReaders`, with `Trimmed` | no fault `cut` or `torn`, `OneBatch` |

A batch carries 8 (`BOOKORBIT_ANNOTATION_BATCH`) and a file holds 256 (`MAX_PER_BOOK`): `OneBatch` is about books on which no
sync has had more than eight records. The second finding is what happens to a watermark
otherwise. `torn` and `cut` are excluded because with them the property fails (Findings): a sync that has
lost its records mints identities anew from
the timestamps, so that they may repeat those of highlights the server has seen before, and then a
key no longer tells one highlight from another, on which the argument below rests. What the run shows of `cut` is
a single loss, with no other fault.

`Basic` is what holds under every fault, `Trimmed` or not: the types, and that a highlight is received once.
The others are of the form `Trimmed => ...`: a step that ends trimmed began so (`NextTrimmed`) and was none of
the branches with a fault `retain` or `short` (`StaysTrimmed`).

- `FilesInv`. `Sound`: a timestamp names one highlight, a record is of one, and of
  two highlights of a passage the later was made by the reader. `Loaded`: until it applies changes a sync
  works on what the files hold.
- `AckInv`, without further hypotheses. Acknowledging before a deletion of the same answer takes the highlight
  away again would be the mistake. `Keyed` and `ServerInv`: a highlight waiting to be
  delivered is the only one of its passage that is not deleted. `Taken`: what became of each change
  received. `Applied`: the deletions still due (`Due`) each take a highlight of their own (`Doomed`),
  none of them one that was acknowledged (`Safe`). So neither needs an assumption on what is re-added
  on the web, where the bookmarks' theorem does: a bookmark is found again by its
  place, a highlight by the words that are in the list at this moment.
- `Covered`: a record the watermark covers, or that a sync has uploaded, is of a passage the server knows.
- `DeletionInv`. `OnDevice`: what the server takes to be on the device is shown there, unless the reader
  removed it or the web deleted one of its passage. `Uploaded`: a record the watermark covers is known to the server under its
  key, or its passage is `Good`, deleted on the web or held here under another. `Excused` is the property
  strengthened by the same `Good`. At the step that matters, the answer to a complete key set
  (`AnswerKeeps`), a highlight is missing from the keys though the device shows one of its passage. The key
  set is sent only when there are as many records as highlights; records are of different
  highlights, all of them here, so by cardinality every highlight has one (`EachRecorded`),
  and that record has been uploaded in this very exchange.

### `StatsUploadProofs`

From `ClockAssumption` and `UploadAssumption`: the bounds are natural numbers, the table has a
slot, and epochs become plausible after 1. The first three theorems hold for every set of `Faults`, a clock
file torn or not saved included, the fourth while the clock's file is kept whole; all of them for
correction tables, queues and batches of any size.

- `TypeCorrect`: `TypeOK`. No clock shown, in flash or on the card is ahead of the true time by more
  than the drift, and no era is above the number of restarts plus one (`ClockInv`); the cap keeps
  the last of the queue with the session behind it (`AppendedKeepsLast`).
- `NothingLost`: `KeptUntilSent`. When `FinishUpload` clears the queue, every place the offset
  has passed holds an event the server has or one that can never be dated (`Passed`).
- `UploadsGoForward`: `Chronological`. What was sent is of the queue up to the offset
  (`SentOfQueue`) and none of it is after the stamp the next batch starts from (`Forward`). Within a batch
  the stamps of events of measured eras do not go back (`StampsForward`), and behind an event
  that was sent all are of measured eras.
- `SentTimesAreTrue`: `Dated`, if `Faults \subseteq {"erase"}`. Without that it is false (see
  Findings). See below for its invariant.
- `Stamps` is defined by recursion. That it has a solution, and what holds along it, is shown by
  induction on sets of naturals (`InductionOnSet`), from the library's theorem that the naturals
  are well-founded.

`IInv == ClockInv /\ QueueInv /\ Passed /\ SentOfQueue /\ Forward`, with one lemma per action;
`SkipBatch` and `SendBatch` are one case (`BatchPassed`), and so are the ways an upload ends
(`UploadEnds`).

`Dated` is not inductive: it says nothing of an event before it is sent. `TimesInv` relates every
waiting event to the clock and to the table, beside `IInv`:

- `OneCorrectionEach`: the file is what runs, an era has one slot and none is of an era to come.
- `EventsPast`, `InOrder`: events are of the past and wait in the order they were read.
- `ClockFits`: since the last measurement of this era the clock has only drifted.
- `EventsFit`: an event no synchronisation came after is off by what the clock is off, up to the drift since; one
  that saw a single synchronisation fits the correction of its era (`Fits`).
- `SentFits`: the instant that caps an upload is the true time up to drift, and so is all that was sent under
  it.

The step from `EventsFit` to what is sent goes along the code's cases: no correction, a flat one,
or the part of a ramp that is due. For the ramp, the rounded quotient lies between 0 and the whole error
(`QuotientBetween`, `RoundedBetween`, `PartOfProduct`). The floor and the cap that follow move a time only
towards those of earlier events and of the synchronisation, which are right themselves (`StampsRight`).

### Only model-checked

The liveness properties (`Converges` of the bookmarks and of the highlights, `UpdateDrawn`, `TransitionDone`,
`WaitEnds`, `CommandEnds`, `DeviceComesBack`): fairness is out of the prover's reach. Every safety property of the
passing runs is stated by a theorem, under the hypotheses named there; for `DeletionsAreTheReaders` of the highlights
the theorem leaves out the fault `cut`, which the run has once.

## Not modelled

- *Store*: the days of a book (buckets, streaks, trims), the export to JSON, Home's snapshot.
  `FiguresSurvive` is about slots; a meta copy that rots is the same as a torn one.
- *Bookmarks*: names, page numbers, `GLOBAL_BOOKMARKS`. Three fault kinds exist in the
  module (`short`, `open`, `torn`) that no passing run enables: with each of
  them a property fails; the hazards say which and how (`torn`, a bookmark file cut short, loads as
  empty and fails as Clear Cache does). A record file that is whole and yet read in part is modelled
  where `put()` reads it, not where `readAll` and `readWatermark` do. A `retain` that reads in part
  and writes what it read is one of the outcomes of `short`; one that then finds nothing to drop, and so
  writes nothing, is not modelled. The server's own
  concurrency is left out.
- *Highlights*: their wording, the byte limit of a batch, clippings. The fault kind `torn` is
  in no run (see Findings). Readings in part as for the bookmarks.
- *Transfer*: listings, `mkdir`, upload by file name alone, the heap-low path that gives up a
  frame buffer. Leaving the screen restarts the device, which changes nothing of the models'
  state.
- *Update*: what makes an image valid, looking for a release and comparing versions, the
  recovery screen. The bootloader is as the ESP-IDF documents it. Starting USB drive mode from
  the settings cannot be reached in this build and has no action.
- *Clock*: boards with an RTC chip; time zones. A `wallclock.bin` cut short or not saved (fault kinds `torn`
  and `save`) is in no run (see Findings). The correction table has two slots in the runs and at most two eras, so replacing
  the oldest era does not happen there; the theorems cover it.
- *Upload*: failing writes of the queue file; more than one book's queue.
- *Activities*: the tick of an activity that owns the card (USB drive mode), button and
  touch dispatch beyond "may call the manager", hints of where to return to.

## Plan

In this order.

1. `ReadingDays`: day buckets, streaks and trims of `ReadingStats.cpp` as functions, against
   a definition by sets of days.
2. `SessionTracker`: dwell limits, idle pauses, finish and end, feeding both consumers.
3. `ReaderBuild`: the background section build, its arena and the pre-rendered page beside the
   render task; composes with `ActivityManager`.
4. `ProgressSync`, `ButtonEvents`, `BusLocks`.
