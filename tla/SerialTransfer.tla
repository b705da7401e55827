--------------------------- MODULE SerialTransfer ---------------------------
(***************************************************************************)
(* Files over the USB cable: the command-line tool on the computer         *)
(* (src/tools/serial_transfer.py) and the device behind its USB Transfer   *)
(* screen (SerialTransferProtocol.cpp over SerialTransferDevice.cpp).      *)
(*                                                                         *)
(* A message is what one side writes in one piece.  A file is its sequence *)
(* of chunks, and a checksum is the sequence it was computed over.  The    *)
(* link may drop a message or spoil a chunk, opening the port resets the   *)
(* device, the tool may be killed, and the card's writes may fail.         *)
(***************************************************************************)
EXTENDS SdCard

CONSTANTS
  Source,      \* the file on the computer
  Earlier,     \* a file already on the card
  Coalesce,    \* chunks gathered before they are written to the card
  Polls,       \* times the tool asks a device it has reset for its status
  Tries,       \* attempts at a download
  Faults,      \* the kinds of fault a run allows
  MaxFaults,   \* bound on their number
  MaxOps       \* bound on the commands given to the tool

Spoiled == 1   \* a chunk that did not arrive as it was sent

ASSUME TransferAssumption ==
  /\ Source \in Seq(Nat \ {0, Spoiled}) /\ Source # <<>>
  /\ Earlier \in Seq(Nat \ {0, Spoiled}) /\ Earlier # Source
  /\ Coalesce \in Nat \ {0} /\ Polls \in Nat \ {0} /\ Tries \in Nat \ {0}
  /\ MaxFaults \in Nat /\ MaxOps \in Nat

VARIABLES
  torn,     \* history variable: names under which part of a file may be left, each
            \* with what left it there: a reset, or the card failing to close or
            \* remove the file
  host,     \* the tool
  dev,      \* the device's side of the protocol
  toDev, toHost,
  faults, ops

transferVars == <<card, torn, host, dev, toDev, toHost, faults, ops>>

-----------------------------------------------------------------------------

Message(kind, names, data) == [k |-> kind, p |-> names, v |-> data]
Line(kind) == Message(kind, <<>>, <<>>)

HostSteps == {"off", "open", "idle", "ready", "ack", "ok", "getReady",
              "getSize", "getChunk", "getCrc", "astray"}
NoHost == [pc |-> "off", path |-> "", n |-> 0, got |-> <<>>, tries |-> 0,
           result |-> "none"]

DevSteps == {"away", "idle", "recv", "crc", "send"}
NoTransfer == [pc |-> "idle", path |-> "", left |-> 0, seen |-> <<>>, buf |-> <<>>,
               data |-> <<>>]

Fault(kind) ==
  /\ kind \in Faults /\ faults < MaxFaults
  /\ faults' = faults + 1
NoFault == UNCHANGED faults

TransferInit ==
  /\ card \in [Paths -> {Absent, Earlier}]
  /\ torn = {}
  /\ host = NoHost
  /\ dev = [NoTransfer EXCEPT !.pc = "away"]
  /\ toDev = <<>> /\ toHost = <<>>
  /\ faults = 0 /\ ops = 0

-----------------------------------------------------------------------------
(* The tool.                                                               *)

HostKeeps == UNCHANGED <<card, torn, dev, faults>>

\* Every command begins by throwing away what was received before.
Command(kind, names, data) ==
  /\ toDev' = Append(toDev, Message(kind, names, data))
  /\ toHost' = <<>>

\* open(): the tool then asks for its status until it answers.
Poll ==
  /\ host.pc = "open"
  /\ host.n < Polls
  /\ host' = [host EXCEPT !.n = @ + 1]
  /\ Command("S", <<>>, <<>>)
  /\ HostKeeps /\ UNCHANGED ops

IsReady ==
  /\ host.pc = "open"
  /\ toHost # <<>> /\ Head(toHost).k = "STATUS"
  /\ host' = [NoHost EXCEPT !.pc = "idle"]
  /\ toHost' = Tail(toHost)
  /\ HostKeeps /\ UNCHANGED <<toDev, ops>>

NotReady ==
  /\ host.pc = "open"
  /\ host.n = Polls
  /\ toHost = <<>>
  /\ host' = NoHost
  /\ HostKeeps /\ UNCHANGED <<toDev, toHost, ops>>

\* A command typed at the prompt.
Give(step, kind, names, data) ==
  /\ host.pc = "idle"
  /\ ops < MaxOps /\ ops' = ops + 1
  /\ host' = [NoHost EXCEPT !.pc = step, !.path = names[1], !.tries = 1]
  /\ Command(kind, names, data)
  /\ HostKeeps

Put(p) == Give("ready", "W", <<p>>, <<Len(Source)>>)
Get(p) == Give("getReady", "T", <<p>>, <<>>)
Remove(p) == Give("ok", "R", <<p>>, <<>>)
Rename(p, q) == p # q /\ Give("ok", "N", <<p, q>>, <<>>)

Ends(result) == host' = [host EXCEPT !.pc = "idle", !.result = result]

FailsWithoutEnd ==
  IF host.pc \in {"getReady", "getSize", "getChunk", "getCrc", "astray"}
  THEN /\ host' = [host EXCEPT !.pc = "getReady", !.got = <<>>]
       /\ Command("T", <<host.path>>, <<>>)
  ELSE /\ Ends("failed")
       /\ toHost' = <<>>
       /\ UNCHANGED toDev
\* download() tries again; every other command fails.
Fails ==
  IF host.pc \in {"getReady", "getSize", "getChunk", "getCrc", "astray"} /\ host.tries < Tries
  THEN /\ host' = [host EXCEPT !.pc = "getReady", !.got = <<>>, !.tries = @ + 1]
       /\ Command("T", <<host.path>>, <<>>)
  ELSE /\ Ends("failed")
       /\ toHost' = <<>>
       /\ UNCHANGED toDev

Send(kind, data) == toDev' = Append(toDev, Message(kind, <<>>, data))

\* What the tool does with the next thing it receives.
Uploading(m) ==
  \/ /\ host.pc = "ready" /\ m.k = "READY"
     /\ host' = [host EXCEPT !.pc = "ack", !.n = 1]
     /\ Send("data", <<Source[1]>>)
  \/ /\ host.pc = "ack" /\ m.k = "ack" /\ host.n < Len(Source)
     /\ host' = [host EXCEPT !.n = @ + 1]
     /\ Send("data", <<Source[host.n + 1]>>)
  \/ /\ host.pc = "ack" /\ m.k = "ack" /\ host.n = Len(Source)
     /\ host' = [host EXCEPT !.pc = "ok"]
     /\ Send("crc", Source)
  \/ /\ host.pc = "ok" /\ m.k = "OK"
     /\ Ends(IF host.n = 0 THEN "done" ELSE "stored")
     /\ UNCHANGED toDev

DownloadedUnchecked(m) == TRUE
Downloaded(m) == m.v = host.got
Downloading(m) ==
  \/ /\ host.pc = "getReady" /\ m.k = "READY"
     /\ host' = [host EXCEPT !.pc = "getSize"]
     /\ UNCHANGED toDev
  \/ /\ host.pc = "getSize" /\ m.k = "size"
     /\ host' = [host EXCEPT !.n = m.v[1],
                             !.pc = IF m.v[1] = 0 THEN "getCrc" ELSE "getChunk"]
     /\ UNCHANGED toDev
  \/ /\ host.pc = "getChunk" /\ m.k = "data"
     /\ host' = [host EXCEPT !.got = @ \o m.v,
                             !.pc = IF Len(host.got) + 1 = host.n THEN "getCrc" ELSE @]
     /\ Send("ack", <<>>)
  \/ /\ host.pc = "getCrc" /\ m.k = "crc" /\ Downloaded(m)
     /\ Ends("got")
     /\ UNCHANGED toDev

Expected(m) ==
  \/ host.pc = "ready" /\ m.k = "READY"
  \/ host.pc = "ack" /\ m.k = "ack"
  \/ host.pc = "ok" /\ m.k = "OK"
  \/ host.pc = "getReady" /\ m.k = "READY"
  \/ host.pc = "getSize" /\ m.k = "size"
  \/ host.pc = "getChunk" /\ m.k = "data"
  \/ host.pc = "getCrc" /\ m.k = "crc" /\ Downloaded(m)
Listening == host.pc \notin {"off", "open", "idle"} /\ toHost # <<>>
Lines == {"STATUS", "READY", "OK", "ERR"}

Receive ==
  /\ Listening
  /\ LET m == Head(toHost)
     IN /\ Expected(m)
        /\ toHost' = Tail(toHost)
        /\ IF host.pc \in {"ready", "ack", "ok"} THEN Uploading(m) ELSE Downloading(m)
  /\ HostKeeps /\ UNCHANGED ops

\* _read_until passes over lines that are not the answer it waits for.
Skip ==
  /\ Listening
  /\ ~Expected(Head(toHost))
  /\ \/ host.pc = "astray"
     \/ host.pc \in {"ready", "ok", "getReady"} /\ Head(toHost).k # "ERR"
  /\ toHost' = Tail(toHost)
  /\ HostKeeps /\ UNCHANGED <<host, toDev, ops>>

\* An error, a byte that is not the acknowledgment, or a wrong checksum.
Refused ==
  /\ Listening
  /\ ~Expected(Head(toHost))
  /\ \/ host.pc \in {"ready", "ok", "getReady"} /\ Head(toHost).k = "ERR"
     \/ host.pc = "ack"
     \/ host.pc = "getCrc" /\ Head(toHost).k = "crc"
  /\ Fails
  /\ HostKeeps /\ UNCHANGED ops

\* After a piece of a download was dropped the tool takes what follows for it,
\* and can only run into its timeout.
Misread ==
  /\ Listening
  /\ ~Expected(Head(toHost))
  /\ \/ host.pc \in {"getSize", "getChunk"}
     \/ host.pc = "getCrc" /\ Head(toHost).k # "crc"
  /\ host' = [host EXCEPT !.pc = "astray"]
  /\ toHost' = Tail(toHost)
  /\ HostKeeps /\ UNCHANGED <<toDev, ops>>

\* The tool waits 10 s for a line and 30 s for data, the device 2 s for a byte:
\* the tool gives up only on a device that no longer waits for it.
HostTimeout ==
  /\ host.pc \notin {"off", "open", "idle"}
  /\ toHost = <<>>
  /\ \/ dev.pc = "away"
     \/ dev.pc = "idle" /\ toDev = <<>>
  /\ Fails
  /\ HostKeeps /\ UNCHANGED ops

\* The tool is left or killed.
Quit ==
  /\ host.pc # "off"
  /\ host' = NoHost
  /\ HostKeeps /\ UNCHANGED <<toDev, toHost, ops>>

HostStep == Poll \/ IsReady \/ NotReady \/ Receive \/ Skip \/ Refused \/ Misread
            \/ HostTimeout

-----------------------------------------------------------------------------
(* The device.                                                             *)

DevKeeps == UNCHANGED <<host, ops>>
Reply(line) == toHost' = Append(toHost, Line(line))
Hears(kinds) == toDev # <<>> /\ Head(toDev).k \in kinds
Taken == toDev' = Tail(toDev)

Named == Head(toDev).p
TornBut(p) == {t \in torn : t[1] # p}

\* handleCommand, the commands answered in one go.
Status ==
  /\ dev.pc = "idle" /\ Hears({"S"})
  /\ Taken
  /\ Reply("STATUS")
  /\ NoFault
  /\ DevKeeps /\ UNCHANGED <<card, torn, dev>>

RemoveFile ==
  /\ dev.pc = "idle" /\ Hears({"R"})
  /\ Taken
  /\ IF card[Named[1]] = Absent
     THEN Reply("ERR") /\ UNCHANGED <<card, torn>>
     ELSE /\ Reply("OK")
          /\ card' = [card EXCEPT ![Named[1]] = Absent]
          /\ torn' = TornBut(Named[1])
  /\ NoFault
  /\ DevKeeps /\ UNCHANGED dev

\* A rename does not replace a file.
RenameFile ==
  /\ dev.pc = "idle" /\ Hears({"N"})
  /\ Taken
  /\ LET p == Named[1]
         q == Named[2]
     IN IF card[p] = Absent \/ card[q] # Absent
        THEN Reply("ERR") /\ UNCHANGED <<card, torn>>
        ELSE /\ Reply("OK")
             /\ card' = [card EXCEPT ![p] = Absent, ![q] = card[p]]
             /\ torn' = {<<IF t[1] = p THEN q ELSE t[1], t[2]>> : t \in torn}
  /\ NoFault
  /\ DevKeeps /\ UNCHANGED dev

\* poll() found no magic: the loop drops the bytes one by one.
DropBytes ==
  /\ dev.pc = "idle" /\ Hears({"data", "ack", "crc"})
  /\ Taken
  /\ NoFault
  /\ DevKeeps /\ UNCHANGED <<card, torn, dev, toHost>>

\* receiveFile: the file is created, and an earlier one emptied, before any data.
BeginFile ==
  /\ dev.pc = "idle" /\ Hears({"W"})
  /\ Taken
  /\ \/ /\ card' = [card EXCEPT ![Named[1]] = <<>>]
        /\ torn' = TornBut(Named[1])
        /\ dev' = [NoTransfer EXCEPT !.pc = "recv", !.path = Named[1],
                                     !.left = Head(toDev).v[1]]
        /\ Reply("READY")
        /\ NoFault
     \/ Fault("create") /\ Reply("ERR") /\ UNCHANGED <<card, torn, dev>>
  /\ DevKeeps

\* What a file cut off in the middle may hold: its size is written on closing.
CutOff(data) == {SubSeq(data, 1, n) : n \in 0 .. Len(data)}

\* fileEnd(): what close() and remove() say is not looked at, and part of what was
\* to be written may stay.
LeavePart(kind, data) ==
  /\ Fault(kind)
  /\ \E left \in CutOff(data) : card' = [card EXCEPT ![dev.path] = left]
  /\ torn' = torn \cup {<<dev.path, "card">>}

DiscardKeeping(p) == UNCHANGED <<card, torn>>
Discard(p) == card' = [card EXCEPT ![p] = Absent] /\ UNCHANGED torn

\* fileEnd(false): nothing of the file is to stay.  A card that fails to write may
\* fail to remove too.
Abandon(failure, data) ==
  /\ \/ failure /\ Discard(dev.path)
     \/ LeavePart("remove", data)
  /\ dev' = NoTransfer
  /\ Reply("ERR")

BufferOverfull(buf) == Len(buf) > Coalesce
BufferFull(buf) == Len(buf) >= Coalesce

ReceiveChunk ==
  /\ dev.pc = "recv" /\ Hears({"data"})
  /\ Taken
  /\ LET buf == dev.buf \o Head(toDev).v
         full == BufferFull(buf)
     IN \/ /\ card' = (IF full THEN [card EXCEPT ![dev.path] = @ \o buf] ELSE card)
           /\ dev' = [dev EXCEPT !.buf = IF full THEN <<>> ELSE buf,
                                 !.seen = @ \o Head(toDev).v,
                                 !.left = @ - 1,
                                 !.pc = IF dev.left = 1 THEN "crc" ELSE @]
           /\ Reply("ack")
           /\ NoFault /\ UNCHANGED torn
        \/ full /\ Abandon(Fault("write"), card[dev.path] \o buf)
  /\ DevKeeps

\* The checksum: the rest of the buffer is written and the file closed, and "OK" is
\* answered even when that fails; where it was the writing, fileEnd removes the file.
ChecksumMatches == Head(toDev).v = dev.seen
FlushedNot == card
Flushed == [card EXCEPT ![dev.path] = @ \o dev.buf]
EndFile ==
  /\ dev.pc = "crc" /\ Hears({"crc"})
  /\ Taken
  /\ IF ~ChecksumMatches THEN Abandon(NoFault, card[dev.path])
     ELSE /\ \/ card' = Flushed /\ NoFault /\ UNCHANGED torn
             \/ dev.buf # <<>> /\ Fault("flush") /\ Discard(dev.path)
             \/ dev.buf # <<>> /\ LeavePart("remove", Flushed[dev.path])
             \/ LeavePart("close", Flushed[dev.path])
          /\ dev' = NoTransfer
          /\ Reply("OK")
  /\ DevKeeps

\* A byte did not come within 2 s: the message is given up.
DevTimeoutNever == FALSE /\ UNCHANGED <<card, torn, dev, toHost, faults>>
DevTimeout ==
  \/ dev.pc \in {"recv", "crc"} /\ Abandon(NoFault, card[dev.path])
  \/ dev.pc = "send" /\ dev' = NoTransfer /\ NoFault /\ UNCHANGED <<card, torn, toHost>>
DevGivesUp ==
  /\ toDev = <<>>
  /\ DevTimeout
  /\ DevKeeps /\ UNCHANGED toDev

\* handleDownload: a chunk at a time, each after the acknowledgment of the last.
Piece(data, n) == Message("data", <<>>, <<data[n]>>)
BeginRead ==
  /\ dev.pc = "idle" /\ Hears({"T"})
  /\ Taken
  /\ LET data == card[Named[1]]
         head == <<Line("READY"), Message("size", <<>>, <<Len(data)>>)>>
     IN IF data = Absent
        THEN Reply("ERR") /\ UNCHANGED dev
        ELSE IF data = <<>>
        THEN /\ toHost' = toHost \o Append(head, Message("crc", <<>>, <<>>))
             /\ UNCHANGED dev
        ELSE /\ toHost' = toHost \o Append(head, Piece(data, 1))
             /\ dev' = [NoTransfer EXCEPT !.pc = "send", !.data = data,
                                          !.left = Len(data)]
  /\ NoFault
  /\ DevKeeps /\ UNCHANGED <<card, torn>>

ReadChunk ==
  /\ dev.pc = "send" /\ Hears({"ack"})
  /\ Taken
  /\ LET next == Len(dev.data) - dev.left + 2
     IN IF dev.left = 1
        THEN /\ toHost' = Append(toHost, Message("crc", <<>>, dev.data))
             /\ dev' = NoTransfer
             /\ NoFault
        ELSE \/ /\ toHost' = Append(toHost, Piece(dev.data, next))
                /\ dev' = [dev EXCEPT !.left = @ - 1]
                /\ NoFault
             \/ Fault("read") /\ dev' = NoTransfer /\ UNCHANGED toHost
  /\ DevKeeps /\ UNCHANGED <<card, torn>>

DevStep == Status \/ RemoveFile \/ RenameFile \/ DropBytes \/ BeginFile \/ ReceiveChunk
           \/ EndFile \/ DevGivesUp \/ BeginRead \/ ReadChunk

-----------------------------------------------------------------------------
(* The link, the reader's hand and resets.                                 *)

Lose ==
  /\ Fault("lose")
  /\ \/ toDev # <<>> /\ toDev' = Tail(toDev) /\ UNCHANGED toHost
     \/ toHost # <<>> /\ toHost' = Tail(toHost) /\ UNCHANGED toDev
  /\ DevKeeps /\ UNCHANGED <<card, torn, dev>>

Spoil(wire) ==
  /\ wire # <<>> /\ Head(wire).k = "data" /\ Head(wire).v # <<Spoiled>>
Garble ==
  /\ Fault("garble")
  /\ \/ Spoil(toDev) /\ toDev' = [toDev EXCEPT ![1].v = <<Spoiled>>] /\ UNCHANGED toHost
     \/ Spoil(toHost) /\ toHost' = [toHost EXCEPT ![1].v = <<Spoiled>>] /\ UNCHANGED toDev
  /\ DevKeeps /\ UNCHANGED <<card, torn, dev>>

\* onEnter and, on Back, onExit: Back is looked at between two messages.
EnterScreen ==
  /\ dev.pc = "away"
  /\ dev' = NoTransfer
  /\ toDev' = <<>>
  /\ UNCHANGED <<card, torn, host, faults, ops, toHost>>
LeaveScreen ==
  /\ dev.pc = "idle"
  /\ dev' = [NoTransfer EXCEPT !.pc = "away"]
  /\ toDev' = <<>>
  /\ UNCHANGED <<card, torn, host, faults, ops, toHost>>

\* The device starts again, on the screen named; what was in memory or on the way
\* to it is gone.
ResetDevice(screen) ==
  /\ IF dev.pc \in {"recv", "crc"}
     THEN /\ \E left \in CutOff(card[dev.path]) : card' = [card EXCEPT ![dev.path] = left]
          /\ torn' = torn \cup {<<dev.path, "reset">>}
     ELSE UNCHANGED <<card, torn>>
  /\ dev' = [NoTransfer EXCEPT !.pc = screen]
  /\ toDev' = <<>>

\* The tool is started, and opening the port resets the device: on this screen it
\* comes back to this screen.
Open ==
  /\ host.pc = "off"
  /\ ops < MaxOps
  /\ host' = [NoHost EXCEPT !.pc = "open"]
  /\ ResetDevice(IF dev.pc = "away" THEN "away" ELSE "idle")
  /\ toHost' = <<>>
  /\ UNCHANGED <<faults, ops>>

ScreenStep == EnterScreen \/ LeaveScreen

UserStep ==
  \/ Quit
  \/ \E p \in Paths : Put(p)
  \/ \E p \in Paths : Get(p)
  \/ \E p \in Paths : Remove(p)
  \/ \E p, q \in Paths : Rename(p, q)

\* The steps the device takes no part in.
CableStep == HostStep \/ UserStep \/ Lose \/ Garble
TransferNext == CableStep \/ DevStep \/ ScreenStep \/ Open

TransferSpec == TransferInit /\ [][TransferNext]_transferVars

-----------------------------------------------------------------------------
(* Properties.                                                             *)

Kinds == {"S", "W", "T", "R", "N", "data", "ack", "crc",
          "STATUS", "READY", "OK", "ERR", "size"}
Wire == Seq([k : Kinds, p : Seq(Paths), v : Seq(Nat)])

TransferTypeOK ==
  /\ card \in [Paths -> Seq(Nat)] /\ torn \subseteq Paths \X {"reset", "card"}
  /\ host.pc \in HostSteps /\ host.got \in Seq(Nat) /\ host.tries \in 0 .. Tries
  /\ dev.pc \in DevSteps /\ dev.seen \in Seq(Nat) /\ Len(dev.buf) < Coalesce
  /\ toDev \in Wire /\ toHost \in Wire
  /\ faults \in 0 .. MaxFaults /\ ops \in 0 .. MaxOps

\* When the tool reports a file sent, the card holds exactly that file: or none,
\* when writing the last of it failed, for "OK" is answered then too; or part of it,
\* when the card failed to close it or to remove it.
StoredWhole ==
  host.result = "stored" =>
    card[host.path] \in {Source, Absent} \/ <<host.path, "card">> \in torn

\* A file the tool reports received is the one on the card.
ReceivedWhole == host.result = "got" => host.got = card[host.path]

\* Between messages no name holds part of a file, whatever the link dropped or
\* spoiled and whichever write failed: unless a reset cut its writing short, or the card
\* failed to close or to remove it.
NoPartLeft ==
  dev.pc \in {"idle", "away"} =>
    \A p \in Paths \ {t[1] : t \in torn} : card[p] \in {Source, Earlier, Absent}

\* Every command comes to an end on both sides.
CommandEnds == host.pc \notin {"off", "idle"} ~> host.pc \in {"off", "idle"}
DeviceComesBack == dev.pc \in {"recv", "crc", "send"} ~> dev.pc \in {"idle", "away"}

=============================================================================
