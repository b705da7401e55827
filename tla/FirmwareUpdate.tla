--------------------------- MODULE FirmwareUpdate ---------------------------
(***************************************************************************)
(* The two ways to a new firmware: a file on the card                      *)
(* (SdFirmwareUpdateActivity.cpp over FirmwareFlasher.cpp) and a download  *)
(* streamed into flash (OtaUpdateActivity.cpp over OtaUpdater.cpp).  Both  *)
(* write the partition that is not running and then one of the two otadata *)
(* entries (OtaBootSwitch.cpp, forceSetOtaBootPartition).  The bootloader, *)
(* which picks the partition and undoes an update whose first boot does    *)
(* not get as far as setup()'s confirmation, is external.                  *)
(*                                                                         *)
(* A file or a partition holds a sequence of chunks.                       *)
(***************************************************************************)
EXTENDS SdCard

CONSTANTS
  Images,    \* contents that are a firmware image of this board
  Factory,   \* the one the device comes with
  Releases,  \* what the update server may offer
  Alien,     \* chunks that show an image to be of another chip or board
  Lengths,   \* TRUE when the server states the length of what it sends
  MaxSeq     \* bound on the otadata sequence numbers

ASSUME FirmwareAssumption ==
  /\ Images \subseteq Seq(Nat) \ {<<>>} /\ Factory \in Images
  /\ \A release \in Releases :
       release \in Images \/ \E n \in DOMAIN release : release[n] \in Alien
  /\ Releases \subseteq Seq(Nat) /\ Lengths \in BOOLEAN /\ MaxSeq \in Nat

VARIABLES
  part,     \* the two app partitions
  otadata,  \* the two select entries
  running,  \* the partition the device has booted
  fresh,    \* history variable: the partition an update has written to since then
  fw        \* the update in progress

firmwareVars == <<card, part, otadata, running, fresh, fw>>

-----------------------------------------------------------------------------

Partitions == {0, 1}
Whole(content) == content \in Images

\* A select entry: `sound` is its CRC over the sequence number.
EntryStates == {"new", "pending", "valid", "aborted"}
SelectEntry == [seq : 0 .. MaxSeq + 2, sound : BOOLEAN, state : EntryStates]
Erased == [seq |-> 0, sound |-> FALSE, state |-> "valid"]

Usable(od) == {i \in {0, 1} : od[i].sound /\ od[i].state # "aborted"}
NoEntry == 2

\* The usable entry with the highest number.
ActiveEntry(od) ==
  IF Usable(od) = {} THEN NoEntry
  ELSE CHOOSE i \in Usable(od) : \A j \in Usable(od) : od[j].seq <= od[i].seq
ActiveSeq(od) == IF ActiveEntry(od) = NoEntry THEN 0 ELSE od[ActiveEntry(od)].seq

\* The smallest number above the active one that names the partition.
NextNumber(od, dest) == ActiveSeq(od) + 1
NewSeq(od, dest) ==
  LET n == ActiveSeq(od) + 1 IN IF (n - 1) % 2 = dest THEN n ELSE n + 1

\* The entry that is not the active one.
ActiveSlot(od) == IF ActiveEntry(od) = NoEntry THEN 0 ELSE ActiveEntry(od)
TargetSlot(od) == IF ActiveEntry(od) = 0 THEN 1 ELSE 0

-----------------------------------------------------------------------------
(* The bootloader.                                                         *)

Selected(od) ==
  IF ActiveEntry(od) = NoEntry THEN 0 ELSE (ActiveSeq(od) - 1) % 2

\* An image not confirmed at its first start is given up at the second.
OnTrial(od) ==
  LET i == ActiveEntry(od)
      given == IF i # NoEntry /\ od[i].state = "pending"
               THEN [od EXCEPT ![i].state = "aborted"] ELSE od
      j == ActiveEntry(given)
  IN IF j # NoEntry /\ given[j].state = "new"
     THEN [given EXCEPT ![j].state = "pending"] ELSE given

\* The partition that starts from these entries: the other one when the one they
\* select does not load.
Starts(od) == IF Whole(part[Selected(od)]) THEN Selected(od) ELSE 1 - Selected(od)

NoUpdate == [pc |-> "idle", dest |-> 0, image |-> <<>>, n |-> 0, state |-> "new",
             slot |-> 0, entry |-> Erased, result |-> "none"]
Booting == [NoUpdate EXCEPT !.pc = "boot"]

\* The device starts with the select entries in one of the states `left`.
Start(left) ==
  \E od \in left :
    /\ otadata' = OnTrial(od)
    /\ running' = Starts(OnTrial(od))
    /\ fw' = Booting
    /\ fresh' = {}
    /\ UNCHANGED part

\* setup() confirms the running image.
ConfirmedNot(od) == od
Confirmed(od) ==
  LET i == ActiveEntry(od)
  IN IF i # NoEntry /\ od[i].state = "pending" /\ Selected(od) = running
     THEN [od EXCEPT ![i].state = "valid"] ELSE od
ConfirmImage ==
  /\ fw.pc = "boot"
  /\ otadata' = Confirmed(otadata)
  /\ fw' = NoUpdate
  /\ UNCHANGED <<card, part, running, fresh>>

\* A device as it leaves the web flasher: one firmware.
FirmwareInit ==
  /\ part = [p \in Partitions |-> IF p = 0 THEN Factory ELSE <<>>]
  /\ otadata \in {[i \in {0, 1} |-> Erased],
                  [i \in {0, 1} |-> IF i = 0 THEN [seq |-> 1, sound |-> TRUE, state |-> "valid"]
                                    ELSE Erased]}
  /\ running = 0
  /\ fresh = {}
  /\ fw = NoUpdate

-----------------------------------------------------------------------------
(* Either way.                                                             *)

Dest == 1 - running   \* esp_ota_get_next_update_partition

Stop(result) == fw' = [NoUpdate EXCEPT !.result = result]
SelectsNothing == UNCHANGED <<card, running, otadata>>

MayStart == fw.pc = "idle" /\ ActiveSeq(otadata) < MaxSeq

-----------------------------------------------------------------------------
(* From the card.                                                          *)

\* validateImageFile, before the question and again before the first write.
Acceptable(content) == Whole(content)

RefuseFile(p) ==
  /\ MayStart
  /\ ~Acceptable(card[p])
  /\ Stop("refused")
  /\ SelectsNothing /\ UNCHANGED <<part, fresh>>

FlashFile(p) ==
  /\ MayStart
  /\ Acceptable(card[p])
  /\ fw' = [NoUpdate EXCEPT !.pc = "flash", !.dest = Dest, !.image = card[p]]
  /\ fresh' = {Dest}
  /\ SelectsNothing /\ UNCHANGED part

\* A block is erased and written; reading, erasing or writing may fail.
FlashChunk ==
  /\ fw.pc = "flash" /\ fw.n < Len(fw.image)
  /\ part' = [part EXCEPT ![fw.dest] = SubSeq(fw.image, 1, fw.n + 1)]
  /\ fw' = [fw EXCEPT !.n = @ + 1]
  /\ SelectsNothing /\ UNCHANGED fresh

FlashFails ==
  /\ fw.pc = "flash" /\ fw.n < Len(fw.image)
  /\ part' \in {part, [part EXCEPT ![fw.dest] = SubSeq(fw.image, 1, fw.n)]}
  /\ Stop("failed")
  /\ SelectsNothing /\ UNCHANGED fresh

FlashDone ==
  /\ fw.pc = "flash" /\ fw.n = Len(fw.image)
  /\ fw' = [fw EXCEPT !.pc = "erase"]
  /\ SelectsNothing /\ UNCHANGED <<part, fresh>>

-----------------------------------------------------------------------------
(* From the server.                                                        *)

\* beginInstallUpdate: esp_ota_begin erases the partition.
BeginInstall(release) ==
  /\ MayStart
  /\ part' = [part EXCEPT ![Dest] = <<>>]
  /\ fw' = [NoUpdate EXCEPT !.pc = "stream", !.dest = Dest, !.image = release]
  /\ fresh' = {Dest}
  /\ SelectsNothing

\* performInstallUpdateStep, whose callback sees each piece of the download.
TheChunk == fw.image[fw.n + 1]
Streaming == fw.pc = "stream" /\ fw.n < Len(fw.image)

StreamChunk ==
  /\ Streaming
  /\ TheChunk \notin Alien
  /\ part' = [part EXCEPT ![fw.dest] = Append(@, TheChunk)]
  /\ fw' = [fw EXCEPT !.n = @ + 1]
  /\ SelectsNothing /\ UNCHANGED fresh

WrongDevice ==
  /\ Streaming
  /\ TheChunk \in Alien
  /\ Stop("wrongDevice")
  /\ SelectsNothing /\ UNCHANGED <<part, fresh>>

\* Back is pressed, a write to flash fails, or the connection does.
StreamFails ==
  /\ fw.pc = "stream"
  /\ Stop("failed")
  /\ SelectsNothing /\ UNCHANGED <<part, fresh>>

\* The download counts as complete: by its length or, when the server states
\* none, by the connection's end.  esp_ota_end or esp_ota_set_boot_partition may
\* find an image that is whole not valid, as they do on the boards this is for,
\* and an image that is not whole they never find valid: the entry is then
\* written all the same.
StreamDone ==
  /\ fw.pc = "stream"
  /\ fw.n = Len(fw.image) \/ ~Lengths
  /\ \E valid \in {Whole(part[fw.dest]), FALSE} :
       fw' = [fw EXCEPT !.pc = "erase", !.state = IF valid THEN "new" ELSE "valid"]
  /\ SelectsNothing /\ UNCHANGED <<part, fresh>>

-----------------------------------------------------------------------------
(* The select entry: switchTo() and forceSetOtaBootPartition().            *)

TheEntry == [seq |-> NewSeq(otadata, fw.dest), sound |-> TRUE, state |-> fw.state]

EraseEntry ==
  /\ fw.pc = "erase"
  /\ \/ /\ otadata' = [otadata EXCEPT ![TargetSlot(otadata)] = Erased]
        /\ fw' = [fw EXCEPT !.pc = "write", !.slot = TargetSlot(otadata), !.entry = TheEntry]
     \/ /\ otadata' \in {otadata, [otadata EXCEPT ![TargetSlot(otadata)] = Erased]}
        /\ Stop("failed")
  /\ UNCHANGED <<card, part, running, fresh>>

\* The sector after a write that is reported failed, and after power was lost.
HalfWritten ==
  {[otadata EXCEPT ![fw.slot] = e] : e \in {Erased, [fw.entry EXCEPT !.sound = FALSE]}}
CutShort == HalfWritten \cup {[otadata EXCEPT ![fw.slot] = fw.entry]}

WriteEntry ==
  /\ fw.pc = "write"
  /\ \/ /\ otadata' = [otadata EXCEPT ![fw.slot] = fw.entry]
        /\ fw' = [fw EXCEPT !.pc = "restart"]
     \/ /\ otadata' \in HalfWritten
        /\ Stop("failed")
  /\ UNCHANGED <<card, part, running, fresh>>

\* ESP.restart() once the screen has said so.
Restart ==
  /\ fw.pc = "restart"
  /\ Start({otadata})
  /\ UNCHANGED card

\* Power is lost at any step; cut short, the write may be complete all the same.
PowerLost == Start(IF fw.pc = "write" THEN CutShort ELSE {otadata})

FirmwareStep ==
  \/ ConfirmImage
  \/ \E p \in Paths : RefuseFile(p)
  \/ \E p \in Paths : FlashFile(p)
  \/ FlashChunk \/ FlashFails \/ FlashDone
  \/ \E release \in Releases : BeginInstall(release)
  \/ StreamChunk \/ WrongDevice \/ StreamFails \/ StreamDone
  \/ EraseEntry \/ WriteEntry \/ Restart

FirmwareNext == FirmwareStep \/ (PowerLost /\ UNCHANGED card)
FirmwareSpec == FirmwareInit /\ [][FirmwareNext]_firmwareVars

-----------------------------------------------------------------------------
(* Properties.                                                             *)

FirmwareTypeOK ==
  /\ part \in [Partitions -> Seq(Nat)]
  /\ otadata \in [{0, 1} -> SelectEntry]
  /\ running \in Partitions /\ fresh \subseteq Partitions
  /\ fw.pc \in {"idle", "boot", "flash", "stream", "erase", "write", "restart"}
  /\ fw.dest \in Partitions /\ fw.slot \in {0, 1} /\ fw.entry \in SelectEntry

NextBoot == Starts(OnTrial(otadata))

\* Wherever power is lost, the device starts a whole image: the one running now,
\* the one an update has written since, or, before setup() has confirmed the
\* running one, the one before it.
NextBootIsMeant ==
  /\ Whole(part[NextBoot])
  /\ NextBoot \in {running} \cup fresh \/ fw.pc = "boot"

\* A firmware whose first start was given up is not selected again.
GivenUpForGood ==
  \A i \in {0, 1} :
    otadata[i].sound /\ otadata[i].state = "aborted" =>
      Selected(otadata) # (otadata[i].seq - 1) % 2

\* An update reported as done is what the device starts next.
UpdateTakesEffect ==
  fw.pc = "restart" => NextBoot = fw.dest /\ part[fw.dest] = fw.image

=============================================================================
