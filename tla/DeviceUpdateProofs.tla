-------------------------- MODULE DeviceUpdateProofs --------------------------
(***************************************************************************)
(* For any images, releases, files and names on the card: the device always *)
(* starts a firmware it is meant to, an update reported as done is the one *)
(* started next, and a firmware given up is not selected again; a file     *)
(* reported sent or received is whole, and no part of one stays on the card. *)
(***************************************************************************)
EXTENDS DeviceUpdate, SequenceTheorems, TLAPS

Entry == [seq : Nat, sound : BOOLEAN, state : EntryStates]
Entries == [{0, 1} -> Entry]

\* Entry i alone decides, or there is none, and partition p is selected.
Chosen(od, i, p) ==
  \/ /\ i = NoEntry /\ p = 0
     /\ Usable(od) = {} /\ ~od[1].sound
  \/ /\ i \in Usable(od) /\ p = (od[i].seq - 1) % 2
     /\ \A j \in Usable(od) \ {i} : od[j].seq < od[i].seq

NoneGivenUp(od, p) ==
  \A j \in {0, 1} : od[j].sound /\ od[j].state = "aborted" => (od[j].seq - 1) % 2 # p

\* Partition p starts, now and after every loss of power.
Settled(od, p) ==
  /\ NoneGivenUp(od, p)
  /\ \E i \in {0, 1, NoEntry} : Chosen(od, i, p) /\ (i # NoEntry => od[i].state = "valid")

\* Partition p is selected by an entry in this state; should it be given up, the
\* other partition is settled on.
OnProbation(od, p, state) ==
  /\ NoneGivenUp(od, p)
  /\ \E i \in {0, 1} :
       /\ Chosen(od, i, p) /\ od[i].state = state
       /\ Settled([od EXCEPT ![i].state = "aborted"], 1 - p)

-----------------------------------------------------------------------------
(* What the definitions of FirmwareUpdate make of such select entries.     *)

\* The chosen entry is the active one, and its partition the selected one.
LEMMA ChosenIsActive ==
  ASSUME NEW od \in Entries, NEW i, NEW p, Chosen(od, i, p)
  PROVE  /\ ActiveEntry(od) = i
         /\ Selected(od) = p
         /\ i # NoEntry => ActiveSeq(od) = od[i].seq /\ i \in {0, 1}
         /\ i = NoEntry => ActiveSeq(od) = 0
<1>1. CASE i = NoEntry
  <2>1. Usable(od) = {} /\ p = 0
    BY <1>1 DEF Chosen, Usable, NoEntry
  <2>2. ActiveEntry(od) = NoEntry
    BY <2>1 DEF ActiveEntry
  <2> QED
    BY <1>1, <2>1, <2>2 DEF Selected, ActiveSeq
<1>2. CASE i # NoEntry
  <2>1. /\ i \in Usable(od) /\ p = (od[i].seq - 1) % 2
        /\ \A j \in Usable(od) \ {i} : od[j].seq < od[i].seq
    BY <1>2 DEF Chosen
  <2>2. Usable(od) \subseteq {0, 1} /\ \A j \in {0, 1} : od[j].seq \in Nat
    BY DEF Usable, Entries, Entry
  <2>3. \A k \in Usable(od) : (\A j \in Usable(od) : od[j].seq <= od[k].seq) <=> k = i
    BY <2>1, <2>2
  <2>4. ActiveEntry(od) = i
    BY <2>1, <2>3, Zenon DEF ActiveEntry
  <2> QED
    BY <1>2, <2>1, <2>2, <2>4 DEF Selected, ActiveSeq
<1> QED BY <1>1, <1>2

\* Settled entries are left alone at a start.
LEMMA SettledStays ==
  ASSUME NEW od \in Entries, NEW p, Settled(od, p)
  PROVE  OnTrial(od) = od /\ Selected(od) = p
<1>1. PICK i \in {0, 1, NoEntry} : Chosen(od, i, p) /\ (i # NoEntry => od[i].state = "valid")
  BY DEF Settled
<1>2. ActiveEntry(od) = i /\ Selected(od) = p
  BY <1>1, ChosenIsActive
<1> QED
  BY <1>1, <1>2 DEF OnTrial

\* A pending update is given up at the next start.
LEMMA PendingGivenUp ==
  ASSUME NEW od \in Entries, NEW p, OnProbation(od, p, "pending")
  PROVE  /\ OnTrial(od) \in Entries /\ Selected(od) = p
         /\ Settled(OnTrial(od), 1 - p)
<1>1. PICK i \in {0, 1} :
        /\ Chosen(od, i, p) /\ od[i].state = "pending"
        /\ Settled([od EXCEPT ![i].state = "aborted"], 1 - p)
  BY DEF OnProbation
<1> DEFINE given == [od EXCEPT ![i].state = "aborted"]
<1>2. ActiveEntry(od) = i /\ Selected(od) = p /\ i # NoEntry
  BY <1>1, ChosenIsActive DEF NoEntry
<1>3. given \in Entries
  BY DEF Entries, Entry, EntryStates
<1>4. PICK j \in {0, 1, NoEntry} : Chosen(given, j, 1 - p) /\ (j # NoEntry => given[j].state = "valid")
  BY <1>1 DEF Settled
<1>5. ActiveEntry(given) = j
  BY <1>3, <1>4, ChosenIsActive
<1>6. OnTrial(od) = given
  <2> HIDE DEF given
  <2>1. given = [od EXCEPT ![i].state = "aborted"]
    BY DEF given
  <2> QED
    BY <1>1, <1>2, <1>4, <1>5, <2>1 DEF OnTrial
<1> QED
  BY <1>1, <1>2, <1>3, <1>6

\* A new one is pending from the next start on.
LEMMA NewPending ==
  ASSUME NEW od \in Entries, NEW p, OnProbation(od, p, "new")
  PROVE  /\ OnTrial(od) \in Entries
         /\ OnProbation(OnTrial(od), p, "pending")
<1>1. PICK i \in {0, 1} :
        /\ Chosen(od, i, p) /\ od[i].state = "new"
        /\ Settled([od EXCEPT ![i].state = "aborted"], 1 - p)
  BY DEF OnProbation
<1> DEFINE next == [od EXCEPT ![i].state = "pending"]
<1>2. ActiveEntry(od) = i /\ i # NoEntry
  BY <1>1, ChosenIsActive DEF NoEntry
<1>3. OnTrial(od) = next
  BY <1>1, <1>2 DEF OnTrial
<1>4. next \in Entries /\ next[i].state = "pending"
  BY DEF Entries, Entry, EntryStates
<1>5. [next EXCEPT ![i].state = "aborted"] = [od EXCEPT ![i].state = "aborted"]
  BY DEF Entries, Entry
<1>6. \A j \in {0, 1} : next[j].sound = od[j].sound /\ next[j].seq = od[j].seq
                        /\ (j # i => next[j] = od[j])
  BY DEF Entries, Entry
<1>7. Usable(next) = Usable(od)
  BY <1>1, <1>4, <1>6 DEF Usable
<1>8. Chosen(next, i, p)
  BY <1>1, <1>2, <1>6, <1>7 DEF Chosen, Usable
<1>9. NoneGivenUp(next, p)
  BY <1>4, <1>6 DEF OnProbation, NoneGivenUp
<1> QED
  BY <1>1, <1>3, <1>4, <1>5, <1>8, <1>9, Zenon DEF OnProbation

\* Whatever is left in the entry that is not the active one, as long as it is not
\* sound, nothing changes.
LEMMA UnsoundKeeps ==
  ASSUME NEW od \in Entries, NEW p, Settled(od, p), NEW e \in Entry, ~e.sound
  PROVE  LET left == [od EXCEPT ![TargetSlot(od)] = e]
         IN /\ left \in Entries /\ Settled(left, p)
            /\ TargetSlot(left) = TargetSlot(od) /\ ActiveSeq(left) = ActiveSeq(od)
<1> DEFINE slot == TargetSlot(od)
<1> DEFINE left == [od EXCEPT ![slot] = e]
<1>1. PICK i \in {0, 1, NoEntry} : Chosen(od, i, p) /\ (i # NoEntry => od[i].state = "valid")
  BY DEF Settled
<1>2. ActiveEntry(od) = i /\ slot \in {0, 1} /\ slot # i /\ (i = NoEntry => slot = 0)
  BY <1>1, ChosenIsActive DEF TargetSlot, NoEntry
<1> HIDE DEF slot
<1>3. left \in Entries /\ left[slot] = e /\ \A j \in {0, 1} \ {slot} : left[j] = od[j]
  BY <1>2 DEF Entries
<1> HIDE DEF left
<1>4. Usable(left) = Usable(od) \ {slot}
  BY <1>3 DEF Usable
<1>5. Chosen(left, i, p)
  <2>1. CASE i = NoEntry
    BY <2>1, <1>1, <1>2, <1>3, <1>4 DEF Chosen, Usable, NoEntry
  <2>2. CASE i # NoEntry
    BY <2>2, <1>1, <1>2, <1>3, <1>4 DEF Chosen, Usable, NoEntry
  <2> QED BY <2>1, <2>2
<1>6. i # NoEntry => left[i].state = "valid"
  BY <1>1, <1>2, <1>3 DEF NoEntry
<1>7. NoneGivenUp(left, p)
  BY <1>2, <1>3 DEF Settled, NoneGivenUp
<1>8. Settled(left, p)
  BY <1>1, <1>5, <1>6, <1>7 DEF Settled
<1>9. ActiveEntry(left) = i
  BY <1>3, <1>5, ChosenIsActive
<1>10. TargetSlot(left) = slot
  BY <1>2, <1>9 DEF TargetSlot, slot
<1>11. ActiveSeq(left) = ActiveSeq(od)
  BY <1>2, <1>3, <1>9 DEF ActiveSeq, NoEntry
<1> QED
  BY <1>3, <1>8, <1>10, <1>11 DEF left, slot

\* What the entry that is written selects, once it is sound.
LEMMA WrittenSelects ==
  ASSUME NEW od \in Entries, NEW p \in {0, 1}, Settled(od, p),
         ~od[TargetSlot(od)].sound, NEW e \in Entry, e.sound, e.seq > ActiveSeq(od),
         (e.seq - 1) % 2 = 1 - p
  PROVE  LET made == [od EXCEPT ![TargetSlot(od)] = e]
         IN /\ made \in Entries
            /\ e.state = "new" => OnProbation(made, 1 - p, "new")
            /\ e.state = "valid" => Settled(made, 1 - p)
<1> DEFINE slot == TargetSlot(od)
<1> DEFINE made == [od EXCEPT ![slot] = e]
<1>1. PICK i \in {0, 1, NoEntry} : Chosen(od, i, p) /\ (i # NoEntry => od[i].state = "valid")
  BY DEF Settled
<1>2. /\ ActiveEntry(od) = i /\ slot \in {0, 1} /\ slot # i /\ (i = NoEntry => slot = 0)
      /\ i # NoEntry => i \in {0, 1} /\ ActiveSeq(od) = od[i].seq
  BY <1>1, ChosenIsActive DEF TargetSlot, NoEntry
<1>a. ~od[slot].sound
  OBVIOUS
<1> HIDE DEF slot
<1>3. made \in Entries /\ made[slot] = e /\ \A j \in {0, 1} \ {slot} : made[j] = od[j]
  BY <1>2 DEF Entries
<1>b. made = [od EXCEPT ![slot] = e]
  OBVIOUS
<1> HIDE DEF made
<1>4. i # NoEntry => made[i] = od[i] /\ Usable(od) = {i}
  BY <1>1, <1>2, <1>3, <1>a DEF Chosen, Usable, NoEntry
<1>5. i = NoEntry => Usable(od) = {} /\ p = 0 /\ ~made[1].sound
  BY <1>1, <1>2, <1>3 DEF Chosen, Usable, NoEntry
<1>6. ASSUME e.state # "aborted" PROVE Chosen(made, slot, 1 - p) /\ NoneGivenUp(made, 1 - p)
  <2>1. Usable(made) = Usable(od) \cup {slot}
    BY <1>2, <1>3, <1>6 DEF Usable
  <2>2. Chosen(made, slot, 1 - p)
    <3>1. \A j \in Usable(made) \ {slot} : made[j].seq < made[slot].seq
      BY <1>2, <1>3, <1>4, <1>5, <2>1 DEF Entries, Entry
    <3> QED BY <3>1, <2>1, <1>3, <1>2 DEF Chosen
  <2>3. NoneGivenUp(made, 1 - p)
    <3>1. CASE i = NoEntry
      BY <3>1, <1>2, <1>3, <1>5, <1>6 DEF NoneGivenUp, NoEntry
    <3>2. CASE i # NoEntry
      BY <3>2, <1>1, <1>2, <1>3, <1>4, <1>6 DEF NoneGivenUp, NoEntry
    <3> QED BY <3>1, <3>2
  <2> QED BY <2>2, <2>3
<1>7. e.state = "valid" => Settled(made, 1 - p)
  BY <1>2, <1>3, <1>6 DEF Settled
<1>8. ASSUME e.state = "new" PROVE OnProbation(made, 1 - p, "new")
  <2> DEFINE given == [made EXCEPT ![slot].state = "aborted"]
  <2>1. /\ given[slot].state = "aborted" /\ given[slot].seq = e.seq
        /\ \A j \in {0, 1} \ {slot} : given[j] = made[j]
    BY <1>2, <1>3 DEF Entries, Entry
  <2>b. given = [made EXCEPT ![slot].state = "aborted"]
    OBVIOUS
  <2> HIDE DEF given
  <2>2. Usable(given) = Usable(od)
    BY <1>2, <1>3, <1>a, <2>1 DEF Usable
  <2>3. Chosen(given, i, p)
    <3>1. CASE i = NoEntry
      BY <3>1, <2>1, <2>2, <1>2, <1>5 DEF Chosen, NoEntry
    <3>2. CASE i # NoEntry
      BY <3>2, <2>1, <2>2, <1>1, <1>2, <1>3, <1>4 DEF Chosen, NoEntry
    <3> QED BY <3>1, <3>2
  <2>4. i # NoEntry => given[i].state = "valid"
    BY <1>1, <1>2, <1>4, <2>1
  <2>5. NoneGivenUp(given, p)
    <3>1. CASE i = NoEntry
      BY <3>1, <1>2, <1>5, <2>1 DEF NoneGivenUp, NoEntry
    <3>2. CASE i # NoEntry
      BY <3>2, <1>2, <2>1, <2>4 DEF NoneGivenUp, NoEntry
    <3> QED BY <3>1, <3>2
  <2>6. Settled(given, p)
    BY <1>1, <2>3, <2>4, <2>5 DEF Settled
  <2>7. 1 - (1 - p) = p
    OBVIOUS
  <2>8. made[slot].state = "new" /\ Chosen(made, slot, 1 - p) /\ NoneGivenUp(made, 1 - p)
    BY <1>3, <1>6, <1>8
  <2> QED
    BY <1>2, <2>6, <2>7, <2>8, <2>b DEF OnProbation
<1> QED
  BY <1>3, <1>7, <1>8, <1>b DEF slot

\* The number of the new entry is above the active one and names its partition.
LEMMA NewSeqNames ==
  ASSUME NEW od \in Entries, NEW p, Settled(od, p), NEW d \in {0, 1}
  PROVE  /\ ActiveSeq(od) \in Nat /\ NewSeq(od, d) \in Nat
         /\ NewSeq(od, d) > ActiveSeq(od) /\ (NewSeq(od, d) - 1) % 2 = d
<1>1. PICK i \in {0, 1, NoEntry} : Chosen(od, i, p)
  BY DEF Settled
<1>2. ActiveSeq(od) \in Nat
  BY <1>1, ChosenIsActive DEF Entries, Entry
<1> DEFINE a == ActiveSeq(od)
<1>3. NewSeq(od, d) = IF a % 2 = d THEN a + 1 ELSE a + 2
  BY <1>2 DEF NewSeq
<1>4. a \in Nat
  BY <1>2
<1> HIDE DEF a
<1>5. a % 2 # d => (a + 1) % 2 = d
  BY <1>4
<1> QED
  BY <1>2, <1>3, <1>4, <1>5 DEF a

\* setup()'s confirmation settles the running partition.
LEMMA ConfirmSettles ==
  ASSUME NEW od \in Entries, running \in Partitions,
         Settled(od, running) \/ OnProbation(od, running, "pending")
  PROVE  Confirmed(od) \in Entries /\ Settled(Confirmed(od), running)
<1>1. CASE Settled(od, running)
  <2>1. PICK i \in {0, 1, NoEntry} :
          Chosen(od, i, running) /\ (i # NoEntry => od[i].state = "valid")
    BY <1>1 DEF Settled
  <2>2. ActiveEntry(od) = i
    BY <2>1, ChosenIsActive
  <2> QED
    BY <1>1, <2>1, <2>2 DEF Confirmed
<1>2. CASE OnProbation(od, running, "pending")
  <2>1. PICK i \in {0, 1} : Chosen(od, i, running) /\ od[i].state = "pending"
    BY <1>2 DEF OnProbation
  <2> DEFINE kept == [od EXCEPT ![i].state = "valid"]
  <2>2. ActiveEntry(od) = i /\ Selected(od) = running /\ i # NoEntry
    BY <2>1, ChosenIsActive DEF NoEntry
  <2>3. Confirmed(od) = kept
    BY <2>1, <2>2 DEF Confirmed
  <2>4. kept \in Entries /\ kept[i].state = "valid"
    BY DEF Entries, Entry, EntryStates
  <2>5. \A j \in {0, 1} : kept[j].sound = od[j].sound /\ kept[j].seq = od[j].seq
                          /\ (j # i => kept[j] = od[j])
    BY DEF Entries, Entry
  <2>6. Usable(kept) = Usable(od)
    BY <2>1, <2>4, <2>5 DEF Usable
  <2>7. Chosen(kept, i, running)
    BY <2>1, <2>2, <2>5, <2>6 DEF Chosen, Usable
  <2>8. NoneGivenUp(kept, running)
    BY <1>2, <2>4, <2>5 DEF OnProbation, NoneGivenUp
  <2> HIDE DEF kept
  <2> QED
    BY <2>3, <2>4, <2>7, <2>8 DEF Settled
<1> QED BY <1>1, <1>2

\* The part of an image written so far.
LEMMA PrefixGrows ==
  ASSUME NEW s \in Seq(Nat), NEW n \in Nat, n <= Len(s)
  PROVE  /\ SubSeq(s, 1, n) \in Seq(Nat)
         /\ n = 0 => SubSeq(s, 1, n) = <<>>
         /\ n = Len(s) => SubSeq(s, 1, n) = s
         /\ n < Len(s) => Append(SubSeq(s, 1, n), s[n + 1]) = SubSeq(s, 1, n + 1)
<1>1. \A m \in Nat : m <= Len(s) => SubSeq(s, 1, m) \in Seq(Nat) /\ Len(SubSeq(s, 1, m)) = m
                                   /\ \A i \in 1 .. m : SubSeq(s, 1, m)[i] = s[i]
  BY SubSeqProperties, ElementOfSeq
<1>2. n = 0 => SubSeq(s, 1, n) = <<>>
  BY <1>1, EmptySeq
<1>3. n = Len(s) => SubSeq(s, 1, n) = s
  BY SubSeqFull
<1>4. ASSUME n < Len(s) PROVE Append(SubSeq(s, 1, n), s[n + 1]) = SubSeq(s, 1, n + 1)
  <2> DEFINE p == SubSeq(s, 1, n)
  <2> DEFINE q == SubSeq(s, 1, n + 1)
  <2>1. s[n + 1] \in Nat /\ n + 1 \in Nat /\ n + 1 <= Len(s)
    BY <1>4, ElementOfSeq
  <2>2. p \in Seq(Nat) /\ Len(p) = n /\ \A i \in 1 .. n : p[i] = s[i]
    BY <1>1
  <2>3. q \in Seq(Nat) /\ Len(q) = n + 1 /\ \A i \in 1 .. n + 1 : q[i] = s[i]
    BY <1>1, <2>1
  <2> HIDE DEF p, q
  <2>4. /\ Append(p, s[n + 1]) \in Seq(Nat) /\ Len(Append(p, s[n + 1])) = n + 1
        /\ \A i \in 1 .. n : Append(p, s[n + 1])[i] = p[i]
        /\ Append(p, s[n + 1])[n + 1] = s[n + 1]
    BY <2>1, <2>2, AppendProperties, SMTT(30)
  <2>5. \A i \in 1 .. n + 1 : Append(p, s[n + 1])[i] = q[i]
    <3> DEFINE longer == Append(p, s[n + 1])
    <3>1. longer[n + 1] = s[n + 1] /\ \A i \in 1 .. n : longer[i] = s[i]
      BY <2>2, <2>4
    <3> HIDE DEF longer
    <3>2. ASSUME NEW i \in 1 .. n + 1 PROVE longer[i] = q[i]
      <4>1. CASE i = n + 1
        BY <4>1, <3>1, <2>1, <2>3
      <4>2. CASE i # n + 1
        <5>1. i \in 1 .. n
          BY <4>2
        <5> QED BY <5>1, <3>1, <2>3
      <4> QED BY <4>1, <4>2
    <3> QED BY <3>2 DEF longer
  <2>6. Append(p, s[n + 1]) = q
    BY <2>3, <2>4, <2>5, SeqEqual
  <2> QED BY <2>6 DEF p, q
<1> QED BY <1>1, <1>2, <1>3, <1>4

-----------------------------------------------------------------------------
(* The inductive invariant.                                                *)

Results == {"none", "refused", "failed", "wrongDevice"}
Steps == {"idle", "boot", "flash", "stream", "erase", "write", "restart"}
Update == [pc : Steps, dest : Partitions, image : Seq(Nat), n : Nat,
           state : {"new", "valid"}, slot : {0, 1}, entry : Entry, result : Results]

Typed ==
  /\ part \in [Partitions -> Seq(Nat)] /\ otadata \in Entries
  /\ running \in Partitions /\ fresh \subseteq Partitions
  /\ fw \in Update

\* The running partition is whole and stays the one that starts, until the new
\* entry is written; before its confirmation there is another to go back to.
Bootable ==
  /\ part[running] \in Images
  /\ fw.pc = "boot" =>
       \/ Settled(otadata, running)
       \/ OnProbation(otadata, running, "pending") /\ part[1 - running] \in Images
  /\ fw.pc \in {"idle", "flash", "stream", "erase", "write"} => Settled(otadata, running)
  /\ fw.pc = "restart" => Settled(otadata, fw.dest) \/ OnProbation(otadata, fw.dest, "new")

\* An update writes the other partition.
Elsewhere ==
  fw.pc \in {"flash", "stream", "erase", "write", "restart"} =>
    fw.dest = 1 - running /\ fresh = {fw.dest}

\* What it has written there.
Copied ==
  /\ fw.pc = "flash" =>
       /\ fw.image \in Images /\ fw.n <= Len(fw.image)
       /\ fw.n > 0 => part[fw.dest] = SubSeq(fw.image, 1, fw.n)
  /\ fw.pc = "stream" =>
       /\ fw.image \in Releases /\ fw.n <= Len(fw.image)
       /\ part[fw.dest] = SubSeq(fw.image, 1, fw.n)
       /\ \A k \in 1 .. fw.n : fw.image[k] \notin Alien
  /\ fw.pc \in {"erase", "write", "restart"} =>
       fw.image \in Images /\ part[fw.dest] = fw.image

EntryReady ==
  fw.pc = "write" =>
    /\ fw.slot = TargetSlot(otadata) /\ ~otadata[fw.slot].sound
    /\ fw.entry.sound /\ fw.entry.state \in {"new", "valid"}
    /\ fw.entry.seq > ActiveSeq(otadata) /\ (fw.entry.seq - 1) % 2 = fw.dest

FlashInv == Typed /\ Bootable /\ Elsewhere /\ Copied /\ EntryReady

\* An update that is over, however it ended.
LEMMA NoUpdateTyped ==
  /\ Erased \in Entry /\ ~Erased.sound
  /\ NoUpdate \in Update /\ NoUpdate.pc = "idle"
  /\ Booting \in Update /\ Booting.pc = "boot"
  /\ \A r \in Results : [NoUpdate EXCEPT !.result = r] \in Update
                      /\ [NoUpdate EXCEPT !.result = r].pc = "idle"
<1>1. Erased \in Entry /\ ~Erased.sound
  BY DEF Erased, Entry, EntryStates
<1>2. <<>> \in Seq(Nat)
  BY EmptySeq
<1> DEFINE none == <<>>
<1>3. none \in Seq(Nat)
  BY <1>2
<1>4. NoUpdate = [pc |-> "idle", dest |-> 0, image |-> none, n |-> 0, state |-> "new",
                  slot |-> 0, entry |-> Erased, result |-> "none"]
  BY DEF NoUpdate
<1> HIDE DEF none
<1>5. NoUpdate \in Update /\ NoUpdate.pc = "idle"
  BY <1>1, <1>3, <1>4 DEF Update, Partitions, Steps, Results
<1>6. Booting \in Update /\ Booting.pc = "boot"
  BY <1>5 DEF Booting, Update, Steps
<1>7. \A r \in Results : [NoUpdate EXCEPT !.result = r] \in Update
                       /\ [NoUpdate EXCEPT !.result = r].pc = "idle"
  BY <1>5 DEF Update, Steps
<1> QED BY <1>1, <1>5, <1>6, <1>7

\* Nothing runs yet, and the device has one firmware.
LEMMA InitFlash == Init => FlashInv
<1> SUFFICES ASSUME Init PROVE FlashInv
  OBVIOUS
<1> USE FirmwareAssumption DEF Init, FirmwareInit
<1>1. Erased \in Entry
  BY NoUpdateTyped
<1>2. otadata \in Entries
  <2>1. [seq |-> 1, sound |-> TRUE, state |-> "valid"] \in Entry
    BY DEF Entry, EntryStates
  <2> QED BY <1>1, <2>1 DEF Entries
<1>3. fw = NoUpdate /\ NoUpdate \in Update /\ NoUpdate.pc = "idle"
  BY NoUpdateTyped
<1>4. part \in [Partitions -> Seq(Nat)] /\ part[running] \in Images
  BY EmptySeq DEF Partitions
<1>5. Settled(otadata, 0)
  <2>1. CASE otadata = [i \in {0, 1} |-> Erased]
    <3>1. ~otadata[0].sound /\ ~otadata[1].sound
      BY <2>1 DEF Erased
    <3>2. Chosen(otadata, NoEntry, 0) /\ NoneGivenUp(otadata, 0)
      BY <3>1 DEF Chosen, Usable, NoneGivenUp, NoEntry
    <3> QED BY <3>2 DEF Settled
  <2>2. CASE otadata # [i \in {0, 1} |-> Erased]
    <3>1. /\ otadata[0].sound /\ otadata[0].seq = 1 /\ otadata[0].state = "valid"
          /\ ~otadata[1].sound
      BY <2>2 DEF Erased
    <3>2. Chosen(otadata, 0, 0) /\ NoneGivenUp(otadata, 0)
      BY <3>1 DEF Chosen, Usable, NoneGivenUp
    <3> QED BY <3>1, <3>2 DEF Settled
  <2> QED BY <2>1, <2>2
<1> QED
  BY <1>2, <1>3, <1>4, <1>5
  DEF FlashInv, Typed, Bootable, Elsewhere, Copied, EntryReady, Partitions

-----------------------------------------------------------------------------
(* Starts of the device.                                                   *)

\* The device comes up from these entries with a whole image to run.
CanStart(od, p) ==
  /\ part[p] \in Images
  /\ \/ Settled(od, p)
     \/ /\ OnProbation(od, p, "pending") \/ OnProbation(od, p, "new")
        /\ part[1 - p] \in Images

\* Where the bootloader goes from such entries, and what it leaves of them.
LEMMA StartsWhole ==
  ASSUME Typed, NEW od \in Entries, NEW p \in {0, 1}, CanStart(od, p)
  PROVE  LET q == Starts(OnTrial(od))
         IN /\ OnTrial(od) \in Entries /\ q \in {0, 1} /\ part[q] \in Images
            /\ \/ Settled(OnTrial(od), q)
               \/ OnProbation(OnTrial(od), q, "pending") /\ part[1 - q] \in Images
            /\ Settled(od, p) \/ OnProbation(od, p, "new") => q = p
            /\ OnProbation(od, p, "pending") => q \in {p, 1 - p}
<1> DEFINE next == OnTrial(od)
<1>1. CASE Settled(od, p)
  <2>1. next = od /\ Selected(od) = p
    BY <1>1, SettledStays
  <2>2. Starts(next) = p
    BY <2>1 DEF CanStart, Starts, Whole
  <2> QED
    BY <1>1, <2>1, <2>2 DEF CanStart
<1>2. CASE OnProbation(od, p, "pending") /\ part[1 - p] \in Images
  <2>1. next \in Entries /\ Settled(next, 1 - p)
    BY <1>2, PendingGivenUp
  <2> HIDE DEF next
  <2>2. Selected(next) = 1 - p
    BY <2>1, SettledStays
  <2>3. Starts(next) = 1 - p
    BY <1>2, <2>2 DEF Starts, Whole
  <2>4. ~Settled(od, p) /\ ~OnProbation(od, p, "new")
    <3>1. PICK i \in {0, 1} : Chosen(od, i, p) /\ od[i].state = "pending"
      BY <1>2 DEF OnProbation
    <3>2. ActiveEntry(od) = i
      BY <3>1, ChosenIsActive
    <3>3. \A j : Chosen(od, j, p) => j = i
      BY <3>2, ChosenIsActive
    <3> QED
      BY <3>1, <3>3 DEF Settled, OnProbation, NoEntry
  <2> QED
    BY <1>2, <2>1, <2>3, <2>4 DEF next
<1>3. CASE OnProbation(od, p, "new") /\ part[1 - p] \in Images
  <2>1. next \in Entries /\ OnProbation(next, p, "pending")
    BY <1>3, NewPending
  <2> HIDE DEF next
  <2>2. Selected(next) = p
    BY <2>1, PendingGivenUp
  <2>3. Starts(next) = p
    BY <2>2 DEF CanStart, Starts, Whole
  <2> QED
    BY <1>3, <2>1, <2>3 DEF CanStart, next
<1> QED
  BY <1>1, <1>2, <1>3 DEF CanStart

\* A start from such entries, after which setup() has yet to confirm anything.
LEMMA StartKeeps ==
  ASSUME FlashInv, NEW od \in Entries, NEW p \in {0, 1}, CanStart(od, p), Start({od})
  PROVE  FlashInv'
<1> DEFINE next == OnTrial(od)
<1> DEFINE q == Starts(next)
<1>1. /\ next \in Entries /\ q \in {0, 1} /\ part[q] \in Images
      /\ \/ Settled(next, q)
         \/ OnProbation(next, q, "pending") /\ part[1 - q] \in Images
  BY StartsWhole DEF FlashInv
<1>2. otadata' = next /\ running' = q /\ fw' = Booting /\ fresh' = {} /\ part' = part
  BY DEF Start
<1>3. fw' \in Update /\ fw'.pc = "boot"
  BY <1>2, NoUpdateTyped
<1> HIDE DEF next, q
<1>4. Typed'
  BY <1>1, <1>2, <1>3 DEF FlashInv, Typed, Partitions
<1>5. Bootable'
  BY <1>1, <1>2, <1>3 DEF Bootable
<1>6. Elsewhere' /\ Copied' /\ EntryReady'
  BY <1>3 DEF Elsewhere, Copied, EntryReady
<1> QED
  BY <1>4, <1>5, <1>6 DEF FlashInv

\* The entries an update leaves to the bootloader.
LEMMA MadeCanStart ==
  ASSUME FlashInv, fw.pc = "write"
  PROVE  LET made == [otadata EXCEPT ![fw.slot] = fw.entry]
         IN /\ made \in Entries /\ CanStart(made, fw.dest)
            /\ Settled(made, fw.dest) \/ OnProbation(made, fw.dest, "new")
<1>1. /\ otadata \in Entries /\ running \in {0, 1} /\ Settled(otadata, running)
      /\ fw.slot = TargetSlot(otadata) /\ ~otadata[TargetSlot(otadata)].sound
      /\ fw.entry \in Entry /\ fw.entry.sound /\ fw.entry.state \in {"new", "valid"}
      /\ fw.entry.seq > ActiveSeq(otadata) /\ (fw.entry.seq - 1) % 2 = 1 - running
      /\ fw.dest = 1 - running /\ part[running] \in Images
      /\ fw.image \in Images /\ part[fw.dest] = fw.image
  BY DEF FlashInv, Typed, Bootable, Elsewhere, Copied, EntryReady, Update, Partitions
<1> DEFINE made == [otadata EXCEPT ![fw.slot] = fw.entry]
<1>2. /\ made \in Entries
      /\ fw.entry.state = "new" => OnProbation(made, 1 - running, "new")
      /\ fw.entry.state = "valid" => Settled(made, 1 - running)
  BY <1>1, WrittenSelects
<1>3. part[1 - fw.dest] \in Images /\ part[fw.dest] \in Images
  <2>1. 1 - (1 - running) = running
    BY <1>1
  <2> QED BY <1>1, <2>1
<1> HIDE DEF made
<1>4. Settled(made, fw.dest) \/ OnProbation(made, fw.dest, "new")
  BY <1>1, <1>2
<1> QED
  BY <1>2, <1>3, <1>4 DEF CanStart, made

\* Power is lost, or the port opened, whatever the device is doing.
LEMMA PowerLostKeeps ==
  ASSUME FlashInv, PowerLost
  PROVE  FlashInv'
<1>1. otadata \in Entries /\ running \in {0, 1} /\ fw \in Update /\ part[running] \in Images
  BY DEF FlashInv, Typed, Bootable, Partitions
<1>2. CASE fw.pc = "boot"
  <2>1. CanStart(otadata, running)
    BY <1>2 DEF FlashInv, Bootable, CanStart
  <2>2. Start({otadata})
    BY <1>2 DEF PowerLost
  <2> QED BY <1>1, <2>1, <2>2, StartKeeps
<1>3. CASE fw.pc \in {"idle", "flash", "stream", "erase"}
  <2>1. CanStart(otadata, running)
    BY <1>1, <1>3 DEF FlashInv, Bootable, CanStart
  <2>2. Start({otadata})
    BY <1>3 DEF PowerLost
  <2> QED BY <1>1, <2>1, <2>2, StartKeeps
<1>4. CASE fw.pc = "restart"
  <2>1. fw.dest = 1 - running /\ fw.dest \in {0, 1} /\ part[fw.dest] \in Images
    BY <1>1, <1>4 DEF FlashInv, Elsewhere, Copied
  <2>2. 1 - fw.dest = running
    BY <1>1, <2>1
  <2>3. CanStart(otadata, fw.dest)
    BY <1>1, <1>4, <2>1, <2>2 DEF FlashInv, Bootable, CanStart
  <2>4. Start({otadata})
    BY <1>4 DEF PowerLost
  <2> QED BY <1>1, <2>1, <2>3, <2>4, StartKeeps
<1>5. CASE fw.pc = "write"
  <2>1. PICK od \in CutShort : Start({od})
    BY <1>5 DEF PowerLost, Start
  <2>2. CASE od \in HalfWritten
    <3>1. PICK e \in {Erased, [fw.entry EXCEPT !.sound = FALSE]} :
            od = [otadata EXCEPT ![fw.slot] = e]
      BY <2>2 DEF HalfWritten
    <3>2. e \in Entry /\ ~e.sound
      BY <1>1, <3>1, NoUpdateTyped DEF Update, Entry
    <3>3. fw.slot = TargetSlot(otadata) /\ Settled(otadata, running)
      BY <1>5 DEF FlashInv, EntryReady, Bootable
    <3>4. od \in Entries /\ Settled(od, running)
      BY <1>1, <3>1, <3>2, <3>3, UnsoundKeeps
    <3>5. CanStart(od, running)
      BY <1>1, <3>4 DEF CanStart
    <3> QED BY <1>1, <2>1, <3>4, <3>5, StartKeeps
  <2>3. CASE od = [otadata EXCEPT ![fw.slot] = fw.entry]
    <3>1. od \in Entries /\ CanStart(od, fw.dest) /\ fw.dest \in {0, 1}
      BY <1>1, <1>5, <2>3, MadeCanStart DEF Update, Partitions
    <3> QED BY <2>1, <3>1, StartKeeps
  <2> QED
    BY <2>1, <2>2, <2>3 DEF CutShort
<1> QED
  BY <1>1, <1>2, <1>3, <1>4, <1>5 DEF Update, Steps

-----------------------------------------------------------------------------
(* The steps of an update.                                                 *)

\* The update is over and the running firmware is what the device starts.
LEMMA StopKeeps ==
  ASSUME FlashInv, NEW r \in Results, Stop(r), UNCHANGED running,
         fresh' = fresh, otadata' \in Entries, Settled(otadata', running),
         part' \in [Partitions -> Seq(Nat)], part'[running] = part[running]
  PROVE  FlashInv'
<1>1. fw' \in Update /\ fw'.pc = "idle"
  BY NoUpdateTyped DEF Stop
<1>2. Typed'
  BY <1>1 DEF FlashInv, Typed
<1>3. Bootable'
  BY <1>1 DEF FlashInv, Bootable
<1>4. Elsewhere' /\ Copied' /\ EntryReady'
  BY <1>1 DEF Elsewhere, Copied, EntryReady
<1> QED
  BY <1>2, <1>3, <1>4 DEF FlashInv

\* setup() confirms the firmware that runs.
LEMMA ConfirmKeeps ==
  ASSUME FlashInv, ConfirmImage
  PROVE  FlashInv'
<1>1. /\ Settled(otadata, running) \/ OnProbation(otadata, running, "pending")
      /\ otadata \in Entries /\ running \in Partitions /\ part[running] \in Images
  BY DEF FlashInv, Typed, Bootable, ConfirmImage
<1>2. otadata' \in Entries /\ Settled(otadata', running)
  BY <1>1, ConfirmSettles DEF ConfirmImage
<1>3. fw' \in Update /\ fw'.pc = "idle"
  BY NoUpdateTyped DEF ConfirmImage
<1>4. UNCHANGED <<part, running, fresh>>
  BY DEF ConfirmImage
<1>5. Typed'
  BY <1>2, <1>3, <1>4 DEF FlashInv, Typed
<1>6. Bootable'
  BY <1>1, <1>2, <1>3, <1>4 DEF Bootable
<1>7. Elsewhere' /\ Copied' /\ EntryReady'
  BY <1>3 DEF Elsewhere, Copied, EntryReady
<1> QED
  BY <1>5, <1>6, <1>7 DEF FlashInv

\* A file that is refused is not flashed.
LEMMA RefuseKeeps ==
  ASSUME FlashInv, NEW f \in Paths, RefuseFile(f)
  PROVE  FlashInv'
<1>1. otadata' \in Entries /\ Settled(otadata', running) /\ part' \in [Partitions -> Seq(Nat)]
  BY DEF FlashInv, Typed, Bootable, RefuseFile, MayStart, SelectsNothing
<1>2. "refused" \in Results
  BY DEF Results
<1> QED
  BY <1>1, <1>2, StopKeeps DEF RefuseFile, SelectsNothing

\* From the card: the first block of an acceptable file.
LEMMA FlashFileKeeps ==
  ASSUME FlashInv, NEW f \in Paths, FlashFile(f)
  PROVE  FlashInv'
<1> DEFINE d == 1 - running
<1>1. /\ fw' = [NoUpdate EXCEPT !.pc = "flash", !.dest = d, !.image = card[f]]
      /\ fresh' = {d} /\ UNCHANGED <<part, running, otadata>> /\ card[f] \in Images
      /\ fw.pc = "idle"
  BY DEF FlashFile, Dest, SelectsNothing, Acceptable, Whole, MayStart
<1>2. d \in Partitions /\ card[f] \in Seq(Nat)
  BY <1>1, FirmwareAssumption DEF FlashInv, Typed, Partitions
<1>3. /\ fw' \in Update /\ fw'.pc = "flash" /\ fw'.dest = d
      /\ fw'.image = card[f] /\ fw'.n = 0
  <2>1. NoUpdate \in Update /\ NoUpdate.n = 0
    BY NoUpdateTyped DEF NoUpdate
  <2> QED BY <1>1, <1>2, <2>1 DEF Update, Steps
<1>4. Typed'
  BY <1>1, <1>2, <1>3 DEF FlashInv, Typed
<1>5. Bootable'
  BY <1>1, <1>3 DEF FlashInv, Bootable
<1>6. Elsewhere'
  BY <1>1, <1>3 DEF Elsewhere
<1>7. Copied' /\ EntryReady'
  <2>1. 0 <= Len(card[f])
    BY <1>2, LenProperties
  <2> QED BY <1>1, <1>3, <2>1 DEF Copied, EntryReady
<1> QED
  BY <1>4, <1>5, <1>6, <1>7 DEF FlashInv

\* The next block goes over the partition that is not running.
LEMMA FlashChunkKeeps ==
  ASSUME FlashInv, FlashChunk
  PROVE  FlashInv'
<1>1. /\ fw.pc = "flash" /\ fw.n < Len(fw.image)
      /\ part' = [part EXCEPT ![fw.dest] = SubSeq(fw.image, 1, fw.n + 1)]
      /\ fw' = [fw EXCEPT !.n = @ + 1] /\ UNCHANGED <<running, otadata, fresh>>
  BY DEF FlashChunk, SelectsNothing
<1>2. /\ fw \in Update /\ fw.dest \in Partitions /\ fw.n \in Nat /\ fw.image \in Seq(Nat)
      /\ fw.dest = 1 - running /\ running \in Partitions /\ fw.image \in Images
      /\ part \in [Partitions -> Seq(Nat)] /\ fresh = {fw.dest}
  BY <1>1 DEF FlashInv, Typed, Update, Elsewhere, Copied
<1>3. Len(fw.image) \in Nat
  BY <1>2, LenProperties
<1>4. SubSeq(fw.image, 1, fw.n + 1) \in Seq(Nat)
  BY <1>1, <1>2, <1>3, PrefixGrows
<1>5. /\ part' \in [Partitions -> Seq(Nat)] /\ part'[running] = part[running]
      /\ part'[fw.dest] = SubSeq(fw.image, 1, fw.n + 1)
  BY <1>1, <1>2, <1>4 DEF Partitions
<1>6. /\ fw' \in Update /\ fw'.pc = "flash" /\ fw'.dest = fw.dest
      /\ fw'.image = fw.image /\ fw'.n = fw.n + 1
  <2>1. fw.n + 1 \in Nat
    BY <1>2
  <2> QED BY <1>1, <1>2, <2>1 DEF Update
<1>7. Typed'
  BY <1>1, <1>5, <1>6 DEF FlashInv, Typed
<1>8. Bootable'
  BY <1>1, <1>5, <1>6 DEF FlashInv, Bootable
<1>9. Elsewhere'
  BY <1>1, <1>2, <1>6 DEF Elsewhere
<1>10. Copied'
  BY <1>1, <1>2, <1>3, <1>5, <1>6, SMTT(30) DEF Copied
<1>11. EntryReady'
  BY <1>6 DEF EntryReady
<1> QED
  BY <1>7, <1>8, <1>9, <1>10, <1>11 DEF FlashInv

\* A block that fails leaves the running firmware selected.
LEMMA FlashFailsKeeps ==
  ASSUME FlashInv, FlashFails
  PROVE  FlashInv'
<1>1. /\ fw.pc = "flash" /\ fw.n < Len(fw.image) /\ Stop("failed")
      /\ part' \in {part, [part EXCEPT ![fw.dest] = SubSeq(fw.image, 1, fw.n)]}
      /\ UNCHANGED <<running, otadata, fresh>>
  BY DEF FlashFails, SelectsNothing
<1>2. /\ fw.dest \in Partitions /\ fw.n \in Nat /\ fw.image \in Seq(Nat)
      /\ fw.dest = 1 - running /\ running \in Partitions
      /\ part \in [Partitions -> Seq(Nat)] /\ otadata \in Entries /\ Settled(otadata, running)
  BY <1>1 DEF FlashInv, Typed, Update, Elsewhere, Bootable
<1>3. SubSeq(fw.image, 1, fw.n) \in Seq(Nat)
  <2>1. Len(fw.image) \in Nat
    BY <1>2, LenProperties
  <2> QED BY <1>1, <1>2, <2>1, PrefixGrows
<1>4. part' \in [Partitions -> Seq(Nat)] /\ part'[running] = part[running]
  <2>1. fw.dest # running
    BY <1>2 DEF Partitions
  <2> QED BY <1>1, <1>2, <1>3, <2>1
<1>5. "failed" \in Results
  BY DEF Results
<1> QED
  BY <1>1, <1>2, <1>4, <1>5, StopKeeps

\* The last block is in: nothing is selected yet.
LEMMA FlashDoneKeeps ==
  ASSUME FlashInv, FlashDone
  PROVE  FlashInv'
<1>1. /\ fw.pc = "flash" /\ fw.n = Len(fw.image) /\ fw' = [fw EXCEPT !.pc = "erase"]
      /\ UNCHANGED <<part, running, otadata, fresh>>
  BY DEF FlashDone, SelectsNothing
<1>2. fw \in Update /\ fw.image \in Images /\ fw.n \in Nat
  BY <1>1 DEF FlashInv, Typed, Update, Copied
<1>3. fw.n > 0 /\ part[fw.dest] = fw.image
  <2>1. fw.image \in Seq(Nat) /\ fw.image # <<>>
    BY <1>2, FirmwareAssumption
  <2>2. Len(fw.image) \in Nat /\ Len(fw.image) # 0
    BY <2>1, EmptySeq, LenProperties
  <2>3. fw.n > 0
    BY <1>1, <2>2
  <2>4. part[fw.dest] = SubSeq(fw.image, 1, fw.n)
    BY <1>1, <2>3 DEF FlashInv, Copied
  <2> QED BY <1>1, <1>2, <2>1, <2>3, <2>4, PrefixGrows
<1>4. /\ fw' \in Update /\ fw'.pc = "erase" /\ fw'.dest = fw.dest /\ fw'.image = fw.image
  BY <1>1, <1>2 DEF Update, Steps
<1>5. Typed'
  BY <1>1, <1>4 DEF FlashInv, Typed
<1>6. Bootable'
  BY <1>1, <1>4 DEF FlashInv, Bootable
<1>7. Elsewhere'
  BY <1>1, <1>4 DEF FlashInv, Elsewhere
<1>8. Copied' /\ EntryReady'
  BY <1>1, <1>2, <1>3, <1>4 DEF Copied, EntryReady
<1> QED
  BY <1>5, <1>6, <1>7, <1>8 DEF FlashInv

\* From the server: the partition is erased before the first piece.
LEMMA BeginInstallKeeps ==
  ASSUME FlashInv, NEW release \in Releases, BeginInstall(release)
  PROVE  FlashInv'
<1> DEFINE d == 1 - running
<1> DEFINE none == <<>>
<1>1. /\ fw' = [NoUpdate EXCEPT !.pc = "stream", !.dest = d, !.image = release]
      /\ part' = [part EXCEPT ![d] = none]
      /\ fresh' = {d} /\ UNCHANGED <<running, otadata>> /\ fw.pc = "idle"
  BY DEF BeginInstall, Dest, SelectsNothing, MayStart
<1>2. /\ d \in Partitions /\ d # running /\ running \in Partitions
      /\ part \in [Partitions -> Seq(Nat)]
  BY DEF FlashInv, Typed, Partitions
<1>3. release \in Seq(Nat) /\ none \in Seq(Nat) /\ 0 <= Len(release) /\ none = SubSeq(release, 1, 0)
  <2>1. release \in Seq(Nat) /\ none \in Seq(Nat)
    BY FirmwareAssumption, EmptySeq
  <2>2. Len(release) \in Nat
    BY <2>1, LenProperties
  <2>3. 0 \in Nat /\ 0 <= Len(release)
    BY <2>2
  <2>4. SubSeq(release, 1, 0) = <<>>
    BY <2>1, <2>3, PrefixGrows
  <2> QED BY <2>1, <2>3, <2>4
<1> HIDE DEF none
<1>4. /\ fw' \in Update /\ fw'.pc = "stream" /\ fw'.dest = d
      /\ fw'.image = release /\ fw'.n = 0
  <2>1. NoUpdate \in Update /\ NoUpdate.n = 0
    BY NoUpdateTyped DEF NoUpdate
  <2> QED BY <1>1, <1>2, <1>3, <2>1 DEF Update, Steps
<1>5. part' \in [Partitions -> Seq(Nat)] /\ part'[running] = part[running] /\ part'[d] = none
  BY <1>1, <1>2, <1>3
<1>6. Typed'
  BY <1>1, <1>2, <1>4, <1>5 DEF FlashInv, Typed
<1>7. Bootable'
  BY <1>1, <1>4, <1>5 DEF FlashInv, Bootable
<1>8. Elsewhere'
  BY <1>1, <1>4 DEF Elsewhere
<1>9. Copied' /\ EntryReady'
  <2>1. \A k \in 1 .. 0 : release[k] \notin Alien
    OBVIOUS
  <2> QED BY <1>3, <1>4, <1>5, <2>1 DEF Copied, EntryReady
<1> QED
  BY <1>6, <1>7, <1>8, <1>9 DEF FlashInv

\* From the network: the next block goes there likewise.
LEMMA StreamChunkKeeps ==
  ASSUME FlashInv, StreamChunk
  PROVE  FlashInv'
<1>1. /\ fw.pc = "stream" /\ fw.n < Len(fw.image) /\ fw.image[fw.n + 1] \notin Alien
      /\ part' = [part EXCEPT ![fw.dest] = Append(part[fw.dest], fw.image[fw.n + 1])]
      /\ fw' = [fw EXCEPT !.n = @ + 1] /\ UNCHANGED <<running, otadata, fresh>>
  BY DEF StreamChunk, Streaming, TheChunk, SelectsNothing
<1>2. /\ fw \in Update /\ fw.dest \in Partitions /\ fw.n \in Nat /\ fw.image \in Seq(Nat)
      /\ fw.dest = 1 - running /\ running \in Partitions /\ fw.image \in Releases
      /\ part \in [Partitions -> Seq(Nat)] /\ fresh = {fw.dest}
      /\ part[fw.dest] = SubSeq(fw.image, 1, fw.n)
      /\ \A k \in 1 .. fw.n : fw.image[k] \notin Alien
  BY <1>1 DEF FlashInv, Typed, Update, Elsewhere, Copied
<1>3. Len(fw.image) \in Nat /\ fw.n + 1 \in Nat /\ fw.n <= Len(fw.image)
      /\ fw.n + 1 <= Len(fw.image)
  <2> DEFINE n == fw.n
             l == Len(fw.image)
  <2>1. l \in Nat /\ n \in Nat /\ n < l
    BY <1>1, <1>2, LenProperties
  <2> HIDE DEF n, l
  <2>2. l \in Nat /\ n + 1 \in Nat /\ n <= l /\ n + 1 <= l
    BY <2>1
  <2> QED BY <2>2 DEF n, l
<1> DEFINE longer == SubSeq(fw.image, 1, fw.n + 1)
<1>4. longer \in Seq(Nat) /\ Append(part[fw.dest], fw.image[fw.n + 1]) = longer
  <2>1. longer \in Seq(Nat)
    BY <1>2, <1>3, PrefixGrows
  <2>2. Append(SubSeq(fw.image, 1, fw.n), fw.image[fw.n + 1]) = longer
    BY <1>1, <1>2, <1>3, PrefixGrows
  <2> QED BY <1>2, <2>1, <2>2
<1> HIDE DEF longer
<1>5. /\ part' \in [Partitions -> Seq(Nat)] /\ part'[running] = part[running]
      /\ part'[fw.dest] = longer
  <2>1. fw.dest # running
    BY <1>2 DEF Partitions
  <2> QED BY <1>1, <1>2, <1>4, <2>1
<1>6. /\ fw' \in Update /\ fw'.pc = "stream" /\ fw'.dest = fw.dest
      /\ fw'.image = fw.image /\ fw'.n = fw.n + 1
  BY <1>1, <1>2, <1>3 DEF Update
<1>7. \A k \in 1 .. fw.n + 1 : fw.image[k] \notin Alien
  BY <1>1, <1>2
<1>8. Typed'
  BY <1>1, <1>5, <1>6 DEF FlashInv, Typed
<1>9. Bootable'
  BY <1>1, <1>5, <1>6 DEF FlashInv, Bootable
<1>10. Elsewhere'
  BY <1>1, <1>2, <1>6 DEF Elsewhere
<1>11. Copied' /\ EntryReady'
  <2>1. part'[fw'.dest] = SubSeq(fw'.image, 1, fw'.n)
    BY <1>5, <1>6 DEF longer
  <2> QED BY <1>2, <1>3, <1>6, <1>7, <2>1 DEF Copied, EntryReady
<1> QED
  BY <1>8, <1>9, <1>10, <1>11 DEF FlashInv

\* Whatever ends a download early, the select entries are as they were.
LEMMA StreamStopsKeeps ==
  ASSUME FlashInv, WrongDevice \/ StreamFails
  PROVE  FlashInv'
<1>1. /\ fw.pc = "stream"
      /\ Stop("wrongDevice") \/ Stop("failed")
      /\ UNCHANGED <<part, running, otadata, fresh>>
  BY DEF WrongDevice, StreamFails, Streaming, SelectsNothing
<1>2. otadata' \in Entries /\ Settled(otadata', running) /\ part' \in [Partitions -> Seq(Nat)]
  BY <1>1 DEF FlashInv, Typed, Bootable
<1>3. "wrongDevice" \in Results /\ "failed" \in Results
  BY DEF Results
<1> QED
  BY <1>1, <1>2, <1>3, StopKeeps

\* A download whose length is known is complete when it counts as complete.
LEMMA StreamDoneKeeps ==
  ASSUME Lengths, FlashInv, StreamDone
  PROVE  FlashInv'
<1>1. PICK state \in {"new", "valid"} : fw' = [fw EXCEPT !.pc = "erase", !.state = state]
  BY DEF StreamDone
<1>2. fw.pc = "stream" /\ fw.n = Len(fw.image) /\ UNCHANGED <<part, running, otadata, fresh>>
  BY DEF StreamDone, SelectsNothing
<1>3. /\ fw \in Update /\ fw.n \in Nat /\ fw.image \in Seq(Nat) /\ fw.image \in Releases
      /\ part[fw.dest] = SubSeq(fw.image, 1, fw.n)
      /\ \A k \in 1 .. fw.n : fw.image[k] \notin Alien
  BY <1>2 DEF FlashInv, Typed, Update, Copied
<1>4. fw.image \in Images
  <2>1. DOMAIN fw.image = 1 .. fw.n
    BY <1>2, <1>3, LenProperties
  <2> QED BY <1>3, <2>1, FirmwareAssumption
<1>5. part[fw.dest] = fw.image
  <2>1. fw.n <= Len(fw.image)
    BY <1>2, <1>3
  <2> QED BY <1>2, <1>3, <2>1, PrefixGrows
<1>6. /\ fw' \in Update /\ fw'.pc = "erase" /\ fw'.dest = fw.dest /\ fw'.image = fw.image
  BY <1>1, <1>3 DEF Update, Steps
<1>7. Typed'
  BY <1>2, <1>6 DEF FlashInv, Typed
<1>8. Bootable'
  BY <1>2, <1>6 DEF FlashInv, Bootable
<1>9. Elsewhere'
  BY <1>2, <1>6 DEF FlashInv, Elsewhere
<1>10. Copied' /\ EntryReady'
  BY <1>2, <1>4, <1>5, <1>6 DEF Copied, EntryReady
<1> QED
  BY <1>7, <1>8, <1>9, <1>10 DEF FlashInv

\* The sector of the entry that is not the active one is erased.
LEMMA EraseEntryKeeps ==
  ASSUME FlashInv, EraseEntry
  PROVE  FlashInv'
<1> DEFINE slot == TargetSlot(otadata)
<1> DEFINE left == [otadata EXCEPT ![slot] = Erased]
<1>1. fw.pc = "erase" /\ UNCHANGED <<part, running, fresh>>
  BY DEF EraseEntry
<1>2. /\ otadata \in Entries /\ Settled(otadata, running) /\ running \in Partitions
      /\ fw \in Update /\ fw.dest \in {0, 1} /\ part \in [Partitions -> Seq(Nat)]
  BY <1>1 DEF FlashInv, Typed, Bootable, Update, Partitions
<1>3. /\ left \in Entries /\ Settled(left, running)
      /\ TargetSlot(left) = slot /\ ActiveSeq(left) = ActiveSeq(otadata)
  BY <1>2, NoUpdateTyped, UnsoundKeeps
<1>4. slot \in {0, 1} /\ ~left[slot].sound
  <2>1. slot \in {0, 1}
    BY DEF TargetSlot
  <2> QED BY <1>2, <2>1, NoUpdateTyped DEF Entries
<1> HIDE DEF slot, left
<1>5. CASE otadata' \in {otadata, left} /\ Stop("failed")
  <2>1. otadata' \in Entries /\ Settled(otadata', running) /\ "failed" \in Results
    BY <1>2, <1>3, <1>5 DEF Results
  <2> QED BY <1>1, <1>2, <1>5, <2>1, StopKeeps
<1>6. CASE otadata' = left /\ fw' = [fw EXCEPT !.pc = "write", !.slot = slot, !.entry = TheEntry]
  <2>1. /\ TheEntry \in Entry /\ TheEntry.sound /\ TheEntry.state \in {"new", "valid"}
        /\ TheEntry.seq > ActiveSeq(otadata) /\ (TheEntry.seq - 1) % 2 = fw.dest
    <3>1. /\ NewSeq(otadata, fw.dest) \in Nat /\ NewSeq(otadata, fw.dest) > ActiveSeq(otadata)
          /\ (NewSeq(otadata, fw.dest) - 1) % 2 = fw.dest
      BY <1>2, NewSeqNames
    <3>2. fw.state \in {"new", "valid"}
      BY <1>2 DEF Update
    <3> QED BY <3>1, <3>2 DEF TheEntry, Entry, EntryStates
  <2> DEFINE entry == TheEntry
  <2>2. fw' = [fw EXCEPT !.pc = "write", !.slot = slot, !.entry = entry] /\ entry \in Entry
    BY <1>6, <2>1
  <2>3. entry = TheEntry
    OBVIOUS
  <2> HIDE DEF entry
  <2>4. /\ fw' \in Update /\ fw'.pc = "write" /\ fw'.dest = fw.dest /\ fw'.image = fw.image
        /\ fw'.slot = slot /\ fw'.entry = entry
    BY <1>2, <1>4, <2>2 DEF Update, Steps
  <2>5. Typed'
    BY <1>1, <1>3, <1>6, <2>4 DEF FlashInv, Typed
  <2>6. Bootable'
    BY <1>1, <1>3, <1>6, <2>4 DEF FlashInv, Bootable
  <2>7. Elsewhere' /\ Copied'
    BY <1>1, <2>4 DEF FlashInv, Elsewhere, Copied
  <2>8. EntryReady'
    <3>1. fw'.slot = TargetSlot(otadata') /\ ~otadata'[fw'.slot].sound
      BY <1>3, <1>4, <1>6, <2>4
    <3>2. ActiveSeq(otadata') = ActiveSeq(otadata)
      BY <1>3, <1>6
    <3> QED BY <2>1, <2>3, <2>4, <3>1, <3>2 DEF EntryReady
  <2> QED BY <2>5, <2>6, <2>7, <2>8 DEF FlashInv
<1>7. \/ otadata' = left /\ fw' = [fw EXCEPT !.pc = "write", !.slot = slot, !.entry = TheEntry]
      \/ otadata' \in {otadata, left} /\ Stop("failed")
  BY DEF EraseEntry, left, slot
<1> QED BY <1>5, <1>6, <1>7

\* The new entry is written, or is not and selects nothing.
LEMMA WriteEntryKeeps ==
  ASSUME FlashInv, WriteEntry
  PROVE  FlashInv'
<1>1. fw.pc = "write" /\ UNCHANGED <<part, running, fresh>>
  BY DEF WriteEntry
<1>2. /\ otadata \in Entries /\ Settled(otadata, running) /\ running \in Partitions
      /\ fw \in Update /\ fw.entry \in Entry /\ part \in [Partitions -> Seq(Nat)]
      /\ fw.slot = TargetSlot(otadata)
  BY <1>1 DEF FlashInv, Typed, Bootable, Update, EntryReady
<1>3. CASE otadata' \in HalfWritten /\ Stop("failed")
  <2>1. PICK e \in {Erased, [fw.entry EXCEPT !.sound = FALSE]} :
          otadata' = [otadata EXCEPT ![fw.slot] = e]
    BY <1>3 DEF HalfWritten
  <2>2. e \in Entry /\ ~e.sound
    BY <1>2, <2>1, NoUpdateTyped DEF Entry
  <2>3. otadata' \in Entries /\ Settled(otadata', running)
    BY <1>2, <2>1, <2>2, UnsoundKeeps
  <2>4. "failed" \in Results
    BY DEF Results
  <2> QED BY <1>1, <1>2, <1>3, <2>3, <2>4, StopKeeps
<1>4. CASE otadata' = [otadata EXCEPT ![fw.slot] = fw.entry] /\ fw' = [fw EXCEPT !.pc = "restart"]
  <2>1. /\ otadata' \in Entries
        /\ Settled(otadata', fw.dest) \/ OnProbation(otadata', fw.dest, "new")
    BY <1>1, <1>4, MadeCanStart
  <2>2. fw' \in Update /\ fw'.pc = "restart" /\ fw'.dest = fw.dest /\ fw'.image = fw.image
    BY <1>2, <1>4 DEF Update, Steps
  <2>3. Typed'
    BY <1>1, <2>1, <2>2 DEF FlashInv, Typed
  <2>4. Bootable'
    BY <1>1, <2>1, <2>2 DEF FlashInv, Bootable
  <2>5. Elsewhere' /\ Copied' /\ EntryReady'
    BY <1>1, <2>2 DEF FlashInv, Elsewhere, Copied, EntryReady
  <2> QED BY <2>3, <2>4, <2>5 DEF FlashInv
<1> QED BY <1>3, <1>4 DEF WriteEntry

-----------------------------------------------------------------------------
(* Every step, and what follows.                                           *)

\* Every step of an update keeps the invariant.
LEMMA UpdatingKeeps ==
  ASSUME Lengths, FlashInv, FirmwareStep
  PROVE  FlashInv'
<1>1. CASE ConfirmImage
  BY <1>1, ConfirmKeeps
<1>2. CASE \E f \in Paths : RefuseFile(f)
  BY <1>2, RefuseKeeps
<1>3. CASE \E f \in Paths : FlashFile(f)
  BY <1>3, FlashFileKeeps
<1>4. CASE FlashChunk
  BY <1>4, FlashChunkKeeps
<1>5. CASE FlashFails
  BY <1>5, FlashFailsKeeps
<1>6. CASE FlashDone
  BY <1>6, FlashDoneKeeps
<1>7. CASE \E release \in Releases : BeginInstall(release)
  BY <1>7, BeginInstallKeeps
<1>8. CASE StreamChunk
  BY <1>8, StreamChunkKeeps
<1>9. CASE WrongDevice \/ StreamFails
  BY <1>9, StreamStopsKeeps
<1>10. CASE StreamDone
  BY <1>10, StreamDoneKeeps
<1>11. CASE EraseEntry
  BY <1>11, EraseEntryKeeps
<1>12. CASE WriteEntry
  BY <1>12, WriteEntryKeeps
<1>13. CASE Restart
  <2>1. PowerLost
    BY <1>13 DEF Restart, PowerLost
  <2> QED BY <2>1, PowerLostKeeps
<1> QED
  BY <1>1, <1>2, <1>3, <1>4, <1>5, <1>6, <1>7, <1>8, <1>9, <1>10, <1>11, <1>12, <1>13
  DEF FirmwareStep

\* The transfer over the cable, which shares the card, disturbs none of it.
LEMMA StepFlash ==
  ASSUME Lengths
  PROVE  FlashInv /\ [Next]_vars => FlashInv'
<1> SUFFICES ASSUME FlashInv, [Next]_vars PROVE FlashInv'
  OBVIOUS
<1>1. ASSUME UNCHANGED updateVars PROVE FlashInv'
  BY <1>1 DEF updateVars, FlashInv, Typed, Bootable, Elsewhere, Copied, EntryReady
<1>2. CASE OnCable
  BY <1>1, <1>2 DEF OnCable
<1>3. CASE OnScreen
  BY <1>1, <1>3 DEF OnScreen
<1>4. CASE Updating
  BY <1>4, UpdatingKeeps DEF Updating
<1>5. CASE PortOpened
  BY <1>5, PowerLostKeeps DEF PortOpened
<1>6. CASE PowerCut
  BY <1>6, PowerLostKeeps DEF PowerCut
<1>7. CASE UNCHANGED vars
  BY <1>1, <1>7 DEF vars, updateVars
<1> QED
  BY <1>2, <1>3, <1>4, <1>5, <1>6, <1>7 DEF Next

\* When the server states the length of what it sends.
THEOREM FlashInvariant ==
  ASSUME Lengths
  PROVE  Spec => []FlashInv
BY InitFlash, StepFlash, PTL DEF Spec

\* Where the next start goes, in each state the invariant allows.
LEMMA NextStart ==
  ASSUME FlashInv
  PROVE  /\ NextBoot \in {0, 1} /\ part[NextBoot] \in Images
         /\ fw.pc = "restart" => NextBoot = fw.dest
         /\ fw.pc \notin {"boot", "restart"} => NextBoot = running
<1>1. otadata \in Entries /\ running \in {0, 1} /\ fw \in Update /\ part[running] \in Images
  BY DEF FlashInv, Typed, Bootable, Partitions
<1>2. CASE fw.pc = "restart"
  <2>1. fw.dest = 1 - running /\ fw.dest \in {0, 1} /\ part[fw.dest] \in Images
    BY <1>1, <1>2 DEF FlashInv, Elsewhere, Copied
  <2>2. 1 - fw.dest = running
    BY <1>1, <2>1
  <2>3. Settled(otadata, fw.dest) \/ OnProbation(otadata, fw.dest, "new")
    BY <1>2 DEF FlashInv, Bootable
  <2>4. CanStart(otadata, fw.dest)
    BY <1>1, <2>1, <2>2, <2>3 DEF CanStart
  <2> QED
    BY <1>1, <1>2, <2>1, <2>3, <2>4, StartsWhole DEF FlashInv, NextBoot
<1>3. CASE fw.pc = "boot"
  <2>1. CanStart(otadata, running)
    BY <1>3 DEF FlashInv, Bootable, CanStart
  <2> QED
    BY <1>1, <1>3, <2>1, StartsWhole DEF FlashInv, NextBoot
<1>4. CASE fw.pc \notin {"boot", "restart"}
  <2>1. Settled(otadata, running)
    BY <1>1, <1>4 DEF FlashInv, Bootable, Update, Steps
  <2>2. CanStart(otadata, running)
    BY <1>1, <2>1 DEF CanStart
  <2> QED
    BY <1>1, <1>4, <2>1, <2>2, StartsWhole DEF FlashInv, NextBoot
<1> QED BY <1>2, <1>3, <1>4

\* Wherever power is lost during an update, from the card or from a server that
\* states the length of what it sends, the next start finds a whole image: the
\* running one, the one written since, or the one before an unconfirmed one.
THEOREM AlwaysBoots ==
  ASSUME Lengths
  PROVE  Spec => []NextBootIsMeant
<1>1. FlashInv => NextBootIsMeant
  <2> SUFFICES ASSUME FlashInv PROVE NextBootIsMeant
    OBVIOUS
  <2>1. fw.pc = "restart" => fresh = {fw.dest}
    BY DEF FlashInv, Elsewhere
  <2> QED BY <2>1, NextStart DEF NextBootIsMeant, Whole
<1> QED BY <1>1, FlashInvariant, PTL

\* An update the screen reports as done is what the device starts next, in full.
THEOREM UpdateStarts ==
  ASSUME Lengths
  PROVE  Spec => []UpdateTakesEffect
<1>1. FlashInv => UpdateTakesEffect
  BY NextStart DEF UpdateTakesEffect, FlashInv, Copied
<1> QED BY <1>1, FlashInvariant, PTL

\* A firmware the bootloader has given up is not selected again, whatever entry
\* is written or cut short afterwards.
THEOREM StaysGivenUp ==
  ASSUME Lengths
  PROVE  Spec => []GivenUpForGood
<1>1. FlashInv => GivenUpForGood
  <2> SUFFICES ASSUME FlashInv PROVE GivenUpForGood
    OBVIOUS
  <2>1. PICK p : NoneGivenUp(otadata, p) /\ \E i : Chosen(otadata, i, p)
    <3>1. \E p : Settled(otadata, p) \/ OnProbation(otadata, p, "new")
                                   \/ OnProbation(otadata, p, "pending")
      BY DEF FlashInv, Typed, Bootable, Update, Steps
    <3> QED BY <3>1 DEF Settled, OnProbation
  <2>2. Selected(otadata) = p
    BY <2>1, ChosenIsActive DEF FlashInv, Typed
  <2> QED BY <2>1, <2>2 DEF NoneGivenUp, GivenUpForGood
<1> QED BY <1>1, FlashInvariant, PTL

-----------------------------------------------------------------------------
(* Files over the cable.                                                   *)

Fetching == {"getReady", "getSize", "getChunk", "getCrc", "astray"}
Orders == {"W", "T", "R", "N"}
Idle == {"idle", "away"}
Causes == {"reset", "card"}
Torn == {t[1] : t \in torn}

Host == [pc : HostSteps, path : Paths \cup {""}, n : Nat, got : Seq(Nat),
         tries : 0 .. Tries, result : {"none", "failed", "done", "stored", "got"}]
Device == [pc : DevSteps, path : Paths \cup {""}, left : Nat, seen : Seq(Nat),
           buf : Seq(Nat), data : Seq(Nat)]
Messages == [k : Kinds, p : Seq(Paths), v : Seq(Nat)]

CableTyped ==
  /\ card \in [Paths -> Seq(Nat)] /\ torn \subseteq Paths \X Causes
  /\ host \in Host /\ dev \in Device
  /\ toDev \in Seq(Messages) /\ toHost \in Seq(Messages)
  /\ faults \in 0 .. MaxFaults /\ ops \in 0 .. MaxOps

\* What is on the wires is what one side or the other sends.
WireSound ==
  /\ \A i \in 1 .. Len(toDev) :
       /\ toDev[i].k = "crc" => toDev[i].v = Source
       /\ toDev[i].k \in Orders => Len(toDev[i].p) >= 1
       /\ toDev[i].k = "N" => Len(toDev[i].p) = 2
       /\ toDev[i].k = "W" => Len(toDev[i].v) = 1 /\ toDev[i].v[1] >= 1
  /\ \A j \in 1 .. Len(toHost) : toHost[j].k = "size" => Len(toHost[j].v) = 1

\* Where the device is in a file: what it has counted into the checksum is what
\* it has written, followed by what it has gathered.
Midway ==
  /\ dev.pc \in {"recv", "crc"} =>
       /\ dev.path \in Paths /\ card[dev.path] \o dev.buf = dev.seen
       /\ dev.pc = "recv" => dev.left >= 1
  /\ Len(dev.buf) < Coalesce
  /\ dev.pc = "send" => dev.left \in 1 .. Len(dev.data)

\* The names the device is not writing, and over which neither a reset nor the card has
\* failed, hold a file.
WholeFiles ==
  \A p \in Paths \ Torn :
    \/ dev.pc \in {"recv", "crc"} /\ p = dev.path
    \/ card[p] \in {Source, Earlier, Absent}

\* A command the device will hear is the last thing the tool has sent, and the tool
\* waits for its answer; what it has yet to read is of its questions for the status.
Ordered ==
  host.pc # "off" /\ dev.pc # "away" =>
    \A i \in 1 .. Len(toDev) :
      toDev[i].k \in Orders =>
        /\ i = Len(toDev) /\ dev.pc = "idle"
        /\ toDev[i].k = "W" => host.pc = "ready" /\ toDev[i].p[1] = host.path
        /\ toDev[i].k = "T" => host.pc = "getReady" /\ toDev[i].p[1] = host.path
        /\ toDev[i].k \in {"R", "N"} => host.pc = "ok" /\ host.n = 0
        /\ \A j \in 1 .. Len(toHost) : toHost[j].k = "STATUS"

\* The device is in the middle of a file only when the tool is.
Together ==
  host.pc # "off" =>
    /\ dev.pc \in {"recv", "crc"} =>
         /\ host.pc \in {"ready", "ack", "ok"} /\ dev.path = host.path
         /\ host.pc = "ready" =>
              /\ toDev = <<>>
              /\ \A j \in 1 .. Len(toHost) :
                   toHost[j].k = "STATUS" \/ (toHost[j].k = "READY" /\ j = Len(toHost))
         /\ host.pc = "ack" => \A i \in 1 .. Len(toDev) : toDev[i].k = "data"
         /\ host.pc = "ok" => host.n # 0
         /\ host.pc \in {"ack", "ok"} => \A j \in 1 .. Len(toHost) : toHost[j].k = "ack"
    /\ dev.pc = "send" =>
         /\ host.pc \in Fetching /\ dev.data = card[host.path]
         /\ \A j \in 1 .. Len(toHost) : toHost[j].k \notin {"ERR", "crc"}

\* What the card holds under the name of a file sent.
Sent(p) == card[p] \in {Source, Absent} \/ <<p, "card">> \in torn

\* The answers the tool is about to read say what the card holds.
Answered ==
  /\ host.pc \notin {"off", "open", "idle"} => host.path \in Paths
  /\ host.pc = "ack" => host.n \in 1 .. Len(Source)
  /\ host.pc \in {"ready", "ack"} => \A j \in 1 .. Len(toHost) : toHost[j].k # "OK"
  /\ host.pc = "ok" /\ host.n # 0 =>
       \A j \in 1 .. Len(toHost) :
         toHost[j].k = "OK" => dev.pc \in Idle /\ Sent(host.path)
  /\ host.pc \in Fetching =>
       \A j \in 1 .. Len(toHost) : toHost[j].k = "crc" => toHost[j].v = card[host.path]

\* And so does what it has reported.
Reported ==
  /\ host.result \in {"stored", "got"} => host.pc = "idle" /\ host.path \in Paths
  /\ StoredWhole /\ ReceivedWhole

CableInv == CableTyped /\ WireSound /\ Midway /\ WholeFiles /\ Ordered /\ Together
            /\ Answered /\ Reported

-----------------------------------------------------------------------------
(* Messages on a wire.                                                     *)

\* What is left of a wire when its first message is taken.
LEMMA TakenFrom ==
  ASSUME NEW q \in Seq(Messages), q # <<>>
  PROVE  /\ Head(q) = q[1] /\ q[1] \in Messages /\ Len(q) >= 1
         /\ Tail(q) \in Seq(Messages) /\ Len(Tail(q)) = Len(q) - 1
         /\ \A i \in 1 .. Len(Tail(q)) : i + 1 \in 1 .. Len(q) /\ Tail(q)[i] = q[i + 1]
<1>1. Len(q) \in Nat /\ Len(q) >= 1
  BY EmptySeq, LenProperties
<1>2. Tail(q) \in Seq(Messages) /\ Len(Tail(q)) = Len(q) - 1
  BY HeadTailProperties
<1>3. \A i \in 1 .. Len(Tail(q)) : i + 1 \in 1 .. Len(q) /\ Tail(q)[i] = q[i + 1]
  BY <1>1, <1>2
<1> QED
  BY <1>1, <1>2, <1>3, ElementOfSeq

\* And what there is when one is sent.
LEMMA SentOn ==
  ASSUME NEW q \in Seq(Messages), NEW m \in Messages
  PROVE  /\ Append(q, m) \in Seq(Messages) /\ Len(Append(q, m)) = Len(q) + 1
         /\ \A i \in 1 .. Len(q) : Append(q, m)[i] = q[i]
         /\ Append(q, m)[Len(q) + 1] = m
BY AppendProperties

\* An empty wire.
LEMMA NothingOn ==
  <<>> \in Seq(Messages) /\ Len(<<>>) = 0
BY EmptySeq

\* A message that is written in this way is one.
LEMMA MessageType ==
  ASSUME NEW kind \in Kinds, NEW names \in Seq(Paths), NEW data \in Seq(Nat)
  PROVE  /\ Message(kind, names, data) \in Messages
         /\ Message(kind, names, data).k = kind
         /\ Message(kind, names, data).p = names
         /\ Message(kind, names, data).v = data
BY DEF Message, Messages

\* So is a line of the device.
LEMMA LineType ==
  ASSUME NEW kind \in Kinds
  PROVE  Line(kind) \in Messages /\ Line(kind).k = kind
<1>1. <<>> \in Seq(Paths) /\ <<>> \in Seq(Nat)
  BY EmptySeq
<1> DEFINE none == <<>>
<1>2. none \in Seq(Paths) /\ none \in Seq(Nat) /\ Line(kind) = Message(kind, none, none)
  BY <1>1 DEF Line
<1> HIDE DEF none
<1> QED
  BY <1>2, MessageType

\* The tool and the device before anything happens.
LEMMA AtRest ==
  /\ NoHost \in Host /\ NoHost.pc = "off" /\ NoHost.n = 0 /\ NoHost.result = "none"
  /\ NoTransfer \in Device /\ NoTransfer.pc = "idle" /\ NoTransfer.buf = <<>>
  /\ NoTransfer.seen = <<>>
<1>1. <<>> \in Seq(Nat)
  BY EmptySeq
<1> DEFINE none == <<>>
<1> DEFINE tries == 0 .. Tries
<1> DEFINE paths == Paths \cup {""}
<1>2. none \in Seq(Nat) /\ 0 \in tries /\ "" \in paths
  BY <1>1, TransferAssumption
<1>3. /\ NoHost = [pc |-> "off", path |-> "", n |-> 0, got |-> none, tries |-> 0, result |-> "none"]
      /\ NoTransfer = [pc |-> "idle", path |-> "", left |-> 0, seen |-> none, buf |-> none,
                       data |-> none]
      /\ NoTransfer.buf = none /\ NoTransfer.seen = none
  BY DEF NoHost, NoTransfer
<1>4. NoTransfer.buf = <<>> /\ NoTransfer.seen = <<>>
  BY <1>3 DEF none
<1>5. /\ Host = [pc : HostSteps, path : paths, n : Nat, got : Seq(Nat),
                 tries : tries, result : {"none", "failed", "done", "stored", "got"}]
      /\ Device = [pc : DevSteps, path : paths, left : Nat, seen : Seq(Nat),
                   buf : Seq(Nat), data : Seq(Nat)]
  BY DEF Host, Device
<1> HIDE DEF none, tries, paths
<1>6. NoHost \in Host /\ NoHost.pc = "off" /\ NoHost.n = 0 /\ NoHost.result = "none"
  BY <1>2, <1>3, <1>5 DEF HostSteps
<1>7. NoTransfer \in Device /\ NoTransfer.pc = "idle"
  BY <1>2, <1>3, <1>5 DEF DevSteps
<1> QED
  BY <1>4, <1>6, <1>7

HostResults == {"none", "failed", "done", "stored", "got"}

HostOf(paths, tries) ==
  [pc : HostSteps, path : paths, n : Nat, got : Seq(Nat), tries : tries, result : HostResults]

\* The tool as a record, whatever its names and numbers are.
LEMMA HostIs ==
  \E paths, tries : Host = HostOf(paths, tries)
BY DEF Host, HostOf, HostResults

\* The tool's fields.
LEMMA HostFields ==
  ASSUME NEW h \in Host
  PROVE  /\ h.pc \in HostSteps /\ h.n \in Nat /\ h.got \in Seq(Nat) /\ h.tries \in 0 .. Tries
         /\ h.result \in HostResults /\ h.path \in Paths \cup {""}
<1> DEFINE tries == 0 .. Tries
<1> DEFINE paths == Paths \cup {""}
<1>1. Host = [pc : HostSteps, path : paths, n : Nat, got : Seq(Nat),
              tries : tries, result : HostResults]
  BY DEF Host, HostResults
<1> HIDE DEF tries, paths
<1>2. /\ h.pc \in HostSteps /\ h.n \in Nat /\ h.got \in Seq(Nat) /\ h.tries \in tries
      /\ h.result \in HostResults /\ h.path \in paths
  BY <1>1
<1> QED
  BY <1>2 DEF tries, paths

\* Numbers the constants are.
LEMMA Positive ==
  /\ Tries \in Nat /\ Tries >= 1 /\ 1 \in 0 .. Tries
  /\ Coalesce \in Nat /\ Coalesce >= 1
  /\ Source \in Seq(Nat) /\ Len(Source) \in Nat /\ Len(Source) >= 1
  /\ Earlier \in Seq(Nat) /\ Absent \in Seq(Nat)
<1>1. /\ Tries \in Nat \ {0} /\ Coalesce \in Nat \ {0}
      /\ Source \in Seq(Nat \ {0, Spoiled}) /\ Source # <<>>
      /\ Earlier \in Seq(Nat \ {0, Spoiled})
  BY TransferAssumption
<1>2. Len(Source) \in Nat \ {0}
  BY <1>1, EmptySeq
<1>3. Source \in Seq(Nat) /\ Earlier \in Seq(Nat)
  BY <1>1, SeqMonotonic
<1>4. Absent \in Seq(Nat)
  BY DEF Absent
<1> QED
  BY <1>1, <1>2, <1>3, <1>4

\* The tool at another step.
LEMMA HostMoves ==
  ASSUME NEW h \in Host, NEW pc \in HostSteps
  PROVE  LET next == [h EXCEPT !.pc = pc]
         IN /\ next \in Host /\ next.pc = pc /\ next.path = h.path
            /\ next.n = h.n /\ next.got = h.got /\ next.result = h.result
<1> DEFINE tries == 0 .. Tries
<1> DEFINE paths == Paths \cup {""}
<1>1. Host = [pc : HostSteps, path : paths, n : Nat, got : Seq(Nat),
              tries : tries, result : HostResults]
  BY DEF Host, HostResults
<1> HIDE DEF tries, paths
<1> QED
  BY <1>1

\* At another count.
LEMMA HostCounts ==
  ASSUME NEW h \in Host, NEW n \in Nat
  PROVE  LET next == [h EXCEPT !.n = n]
         IN /\ next \in Host /\ next.pc = h.pc /\ next.path = h.path
            /\ next.n = n /\ next.got = h.got /\ next.result = h.result
<1> DEFINE tries == 0 .. Tries
<1> DEFINE paths == Paths \cup {""}
<1>1. Host = [pc : HostSteps, path : paths, n : Nat, got : Seq(Nat),
              tries : tries, result : HostResults]
  BY DEF Host, HostResults
<1> HIDE DEF tries, paths
<1> QED
  BY <1>1

\* The tool as it reports a result.
LEMMA HostEnds ==
  ASSUME NEW h \in Host, NEW r \in HostResults
  PROVE  LET next == [h EXCEPT !.pc = "idle", !.result = r]
         IN /\ next \in Host /\ next.pc = "idle" /\ next.path = h.path
            /\ next.n = h.n /\ next.got = h.got /\ next.result = r
<1> DEFINE tries == 0 .. Tries
<1> DEFINE paths == Paths \cup {""}
<1>1. Host = [pc : HostSteps, path : paths, n : Nat, got : Seq(Nat),
              tries : tries, result : HostResults]
  BY DEF Host, HostResults
<1>2. "idle" \in HostSteps
  BY DEF HostSteps
<1> HIDE DEF tries, paths
<1> QED
  BY <1>1, <1>2

\* The tool as a download is tried again.
LEMMA HostRetries ==
  ASSUME NEW h \in Host, h.tries < Tries, NEW got \in Seq(Nat)
  PROVE  LET next == [h EXCEPT !.pc = "getReady", !.got = got, !.tries = h.tries + 1]
         IN /\ next \in Host /\ next.pc = "getReady" /\ next.path = h.path
            /\ next.result = h.result
<1> DEFINE tries == 0 .. Tries
<1> DEFINE paths == Paths \cup {""}
<1> DEFINE more == h.tries + 1
<1>1. Host = [pc : HostSteps, path : paths, n : Nat, got : Seq(Nat),
              tries : tries, result : HostResults]
  BY DEF Host, HostResults
<1>2. more \in tries
  <2>1. h.tries \in 0 .. Tries /\ Tries \in Nat
    BY HostFields, Positive
  <2> QED BY <2>1
<1>3. "getReady" \in HostSteps
  BY DEF HostSteps
<1> HIDE DEF tries, paths, more
<1>4. LET next == [h EXCEPT !.pc = "getReady", !.got = got, !.tries = more]
      IN /\ next \in Host /\ next.pc = "getReady" /\ next.path = h.path
         /\ next.result = h.result
  BY <1>1, <1>2, <1>3
<1> QED
  BY <1>4 DEF more

\* As it is given a command.
LEMMA HostGiven ==
  ASSUME NEW pc \in HostSteps, NEW p \in Paths
  PROVE  LET h == [NoHost EXCEPT !.pc = pc, !.path = p, !.tries = 1]
         IN h \in Host /\ h.pc = pc /\ h.path = p /\ h.n = 0 /\ h.result = "none"
<1> DEFINE tries == 0 .. Tries
<1> DEFINE paths == Paths \cup {""}
<1>1. Host = [pc : HostSteps, path : paths, n : Nat, got : Seq(Nat),
              tries : tries, result : HostResults]
  BY DEF Host, HostResults
<1>2. p \in paths /\ 1 \in tries
  BY Positive
<1> HIDE DEF tries, paths
<1>3. NoHost \in Host /\ NoHost.n = 0 /\ NoHost.result = "none"
  BY AtRest
<1> QED
  BY <1>1, <1>2, <1>3

-----------------------------------------------------------------------------
(* The tool's steps.                                                       *)

\* The types the invariant is built on, for citing.
LEMMA Types ==
  ASSUME CableInv
  PROVE  /\ card \in [Paths -> Seq(Nat)] /\ torn \subseteq Paths \X Causes
         /\ host \in Host /\ dev \in Device
         /\ host.pc \in HostSteps /\ host.n \in Nat /\ host.got \in Seq(Nat)
         /\ host.result \in HostResults
         /\ dev.pc \in DevSteps
         /\ toDev \in Seq(Messages) /\ Len(toDev) \in Nat
         /\ toHost \in Seq(Messages) /\ Len(toHost) \in Nat
         /\ faults \in 0 .. MaxFaults /\ ops \in 0 .. MaxOps
<1>1. host \in Host /\ dev \in Device /\ toDev \in Seq(Messages) /\ toHost \in Seq(Messages)
  BY DEF CableInv, CableTyped
<1>2. Len(toDev) \in Nat /\ Len(toHost) \in Nat
  BY <1>1, LenProperties
<1>3. dev.pc \in DevSteps
  BY <1>1 DEF Device
<1>4. host.pc \in HostSteps /\ host.n \in Nat /\ host.got \in Seq(Nat) /\ host.result \in HostResults
  BY <1>1, HostFields
<1> QED
  BY <1>1, <1>2, <1>3, <1>4 DEF CableInv, CableTyped

\* The tool's steps touch neither the card nor the device.
LEMMA FilesStay ==
  ASSUME CableInv, card' = card, torn' = torn, dev' = dev
  PROVE  Midway' /\ WholeFiles'
BY DEF CableInv, Midway, WholeFiles, Torn

\* The tool takes an answer.
LEMMA AnswerTaken ==
  ASSUME CableInv, toHost # <<>>, toHost' = Tail(toHost)
  PROVE  /\ toHost' \in Seq(Messages) /\ Len(toHost) >= 1 /\ Len(toHost') = Len(toHost) - 1
         /\ Head(toHost) = toHost[1] /\ toHost[1] \in Messages
         /\ \A j \in 1 .. Len(toHost') : j + 1 \in 1 .. Len(toHost) /\ toHost'[j] = toHost[j + 1]
         /\ 1 \in 1 .. Len(toHost)
<1>1. toHost \in Seq(Messages) /\ Len(toHost) \in Nat
  BY Types
<1> QED
  BY <1>1, TakenFrom

\* The tool, or the link, adds something to what the device will hear.
LEMMA ToDevSent ==
  ASSUME CableInv, NEW m \in Messages, toDev' = Append(toDev, m)
  PROVE  /\ toDev' \in Seq(Messages) /\ Len(toDev') = Len(toDev) + 1
         /\ \A i \in 1 .. Len(toDev) : toDev'[i] = toDev[i]
         /\ toDev'[Len(toDev) + 1] = m
         /\ \A i \in 1 .. Len(toDev') : i \in 1 .. Len(toDev) \/ i = Len(toDev) + 1
<1>1. toDev \in Seq(Messages) /\ Len(toDev) \in Nat
  BY Types
<1> QED
  BY <1>1, SentOn

\* Asking for the status.
LEMMA PollKeeps ==
  ASSUME CableInv, Poll
  PROVE  CableInv'
<1> DEFINE none == <<>>
<1> DEFINE m == Message("S", none, none)
<1> DEFINE next == host.n + 1
<1>1. none \in Seq(Paths) /\ none \in Seq(Nat)
  BY EmptySeq
<1>2. /\ host.pc = "open" /\ host' = [host EXCEPT !.n = next]
      /\ toDev' = Append(toDev, m) /\ toHost' = <<>>
      /\ card' = card /\ torn' = torn /\ dev' = dev /\ faults' = faults /\ ops' = ops
  BY DEF Poll, Command, HostKeeps
<1> HIDE DEF none
<1>3. m \in Messages /\ m.k = "S"
  BY <1>1, MessageType DEF Kinds
<1>4. next \in Nat
  BY Types
<1> HIDE DEF m, next
<1>5. /\ host' \in Host /\ host'.pc = "open" /\ host'.path = host.path
      /\ host'.result = host.result /\ host'.got = host.got
  <2>1. host \in Host
    BY Types
  <2>2. /\ [host EXCEPT !.n = next] \in Host
        /\ [host EXCEPT !.n = next].pc = host.pc /\ [host EXCEPT !.n = next].path = host.path
        /\ [host EXCEPT !.n = next].got = host.got
        /\ [host EXCEPT !.n = next].result = host.result
    BY <1>4, <2>1, HostCounts, Zenon
  <2> QED BY <1>2, <2>2
<1>6. /\ toDev' \in Seq(Messages) /\ Len(toDev') = Len(toDev) + 1
      /\ toDev'[Len(toDev) + 1] = m
      /\ \A i \in 1 .. Len(toDev) : toDev'[i] = toDev[i]
      /\ \A i \in 1 .. Len(toDev') : i \in 1 .. Len(toDev) \/ i = Len(toDev) + 1
      /\ toHost' \in Seq(Messages) /\ Len(toHost') = 0
  BY <1>2, <1>3, ToDevSent, NothingOn
<1>7. CableTyped'
  BY <1>2, <1>5, <1>6 DEF CableInv, CableTyped
<1>8. WireSound'
  BY <1>3, <1>6, Types, SMTT(30) DEF CableInv, WireSound, Orders
<1>9. Midway' /\ WholeFiles'
  BY <1>2, FilesStay
<1>10. Ordered'
  BY <1>2, <1>3, <1>5, <1>6, Types DEF CableInv, Ordered, Orders
<1>11. Together' /\ Answered'
  BY <1>2, <1>5 DEF CableInv, Together, Answered, Sent, Fetching
<1>12. Reported'
  BY <1>2, <1>5 DEF CableInv, Reported, StoredWhole, ReceivedWhole
<1> QED
  BY <1>7, <1>8, <1>9, <1>10, <1>11, <1>12 DEF CableInv

\* While the tool is between commands, or opening the port, the device is in the
\* middle of nothing.
LEMMA NotMidway ==
  ASSUME CableInv, host.pc \in {"open", "idle"}
  PROVE  /\ dev.pc \in Idle
         /\ dev.pc # "away" => \A i \in 1 .. Len(toDev) : toDev[i].k \notin Orders
<1>1. dev.pc \in DevSteps
  BY Types
<1>2. dev.pc \notin {"recv", "crc", "send"}
  BY DEF CableInv, Together, Fetching
<1>3. ASSUME dev.pc # "away", NEW i \in 1 .. Len(toDev), toDev[i].k \in Orders
      PROVE  FALSE
  BY <1>3 DEF CableInv, Ordered, Orders
<1> QED
  BY <1>1, <1>2, <1>3 DEF DevSteps, Idle

\* The tool goes back to its prompt, with what it reports.
LEMMA BackAtPrompt ==
  ASSUME CableInv, card' = card, torn' = torn, dev' = dev, faults' = faults, ops' = ops,
         dev.pc \in Idle,
         dev.pc # "away" => \A i \in 1 .. Len(toDev) : toDev[i].k \notin Orders,
         toDev' = toDev, toHost' \in Seq(Messages),
         \A j \in 1 .. Len(toHost') : \E i \in 1 .. Len(toHost) : toHost'[j] = toHost[i],
         host' \in Host, host'.pc \in {"idle", "off"},
         host'.result \in {"stored", "got"} => host'.pc = "idle" /\ host'.path \in Paths,
         StoredWhole', ReceivedWhole'
  PROVE  CableInv'
<1>1. CableTyped'
  BY DEF CableInv, CableTyped
<1>2. WireSound'
  BY DEF CableInv, WireSound
<1>3. Midway' /\ WholeFiles'
  BY FilesStay
<1>4. Ordered' /\ Together'
  BY DEF Ordered, Together, Idle
<1>5. Answered'
  BY DEF Answered, Sent, Fetching
<1>6. Reported'
  BY DEF Reported
<1> QED
  BY <1>1, <1>2, <1>3, <1>4, <1>5, <1>6 DEF CableInv

\* The device is there, or it is not, or the tool is left.
LEMMA PortStepKeeps ==
  ASSUME CableInv, IsReady \/ NotReady \/ Quit
  PROVE  CableInv'
<1>1. /\ card' = card /\ torn' = torn /\ dev' = dev /\ faults' = faults /\ ops' = ops
      /\ toDev' = toDev /\ toHost \in Seq(Messages)
  BY Types DEF IsReady, NotReady, Quit, HostKeeps
<1>2. CASE IsReady
  <2>1. host.pc = "open" /\ toHost # <<>> /\ toHost' = Tail(toHost)
        /\ host' = [NoHost EXCEPT !.pc = "idle"]
    BY <1>2 DEF IsReady
  <2>2. NoHost \in Host /\ NoHost.result = "none" /\ "idle" \in HostSteps
    BY AtRest DEF HostSteps
  <2>3. /\ [NoHost EXCEPT !.pc = "idle"] \in Host /\ [NoHost EXCEPT !.pc = "idle"].pc = "idle"
        /\ [NoHost EXCEPT !.pc = "idle"].result = NoHost.result
    BY <2>2, HostMoves, Zenon
  <2>4. host' \in Host /\ host'.pc = "idle" /\ host'.result = "none"
    BY <2>1, <2>2, <2>3
  <2>5. /\ toHost' \in Seq(Messages)
        /\ \A j \in 1 .. Len(toHost') : \E i \in 1 .. Len(toHost) : toHost'[j] = toHost[i]
    BY <2>1, AnswerTaken
  <2>6. StoredWhole' /\ ReceivedWhole'
    BY <2>4 DEF StoredWhole, ReceivedWhole
  <2> QED BY <1>1, <2>1, <2>4, <2>5, <2>6, NotMidway, BackAtPrompt
<1>3. CASE NotReady
  <2>1. host.pc = "open" /\ toHost' = toHost /\ host' = NoHost
    BY <1>3 DEF NotReady
  <2>2. host' \in Host /\ host'.pc = "off" /\ host'.result = "none"
    BY <2>1, AtRest
  <2>3. StoredWhole' /\ ReceivedWhole'
    BY <2>2 DEF StoredWhole, ReceivedWhole
  <2> QED BY <1>1, <2>1, <2>2, <2>3, NotMidway, BackAtPrompt
<1>4. CASE Quit
  <2>1. host'.pc = "off" /\ host' \in Host /\ host'.result = "none" /\ toHost' = toHost
    BY <1>4, AtRest DEF Quit
  <2>2. CableTyped' /\ WireSound'
    BY <1>1, <2>1 DEF CableInv, CableTyped, WireSound
  <2>3. Midway' /\ WholeFiles'
    BY <1>1, FilesStay
  <2>4. Ordered' /\ Together' /\ Answered' /\ Reported'
    BY <2>1 DEF Ordered, Together, Answered, Sent, Reported, StoredWhole, ReceivedWhole, Fetching
  <2> QED BY <2>2, <2>3, <2>4 DEF CableInv
<1> QED
  BY <1>2, <1>3, <1>4

\* Nothing the device will hear is a command.
NonePending == dev.pc # "away" => \A i \in 1 .. Len(toDev) : toDev[i].k \notin Orders

\* The tool sends a command, at whose answer it waits.
LEMMA CommandKeeps ==
  ASSUME CableInv, NEW m \in Messages,
         card' = card, torn' = torn, dev' = dev, faults' = faults, ops' \in 0 .. MaxOps,
         toDev' = Append(toDev, m), toHost' = <<>>,
         dev.pc \in Idle, NonePending,
         host' \in Host, host'.path \in Paths, host'.result \notin {"stored", "got"},
         \/ m.k = "W" /\ host'.pc = "ready" /\ Len(m.v) = 1 /\ m.v[1] >= 1
         \/ m.k = "T" /\ host'.pc = "getReady"
         \/ m.k = "R" /\ host'.pc = "ok" /\ host'.n = 0
         \/ m.k = "N" /\ host'.pc = "ok" /\ host'.n = 0 /\ Len(m.p) = 2,
         Len(m.p) >= 1, m.p[1] = host'.path
  PROVE  CableInv'
<1>1. /\ toDev' \in Seq(Messages) /\ Len(toDev') = Len(toDev) + 1
      /\ toDev'[Len(toDev) + 1] = m
      /\ \A i \in 1 .. Len(toDev) : toDev'[i] = toDev[i]
      /\ \A i \in 1 .. Len(toDev') : i \in 1 .. Len(toDev) \/ i = Len(toDev) + 1
      /\ toHost' \in Seq(Messages) /\ Len(toHost') = 0
  BY ToDevSent, NothingOn
<1>2. CableTyped'
  BY <1>1 DEF CableInv, CableTyped
<1>3. WireSound'
  BY <1>1, Types DEF CableInv, WireSound, Orders
<1>4. Midway' /\ WholeFiles'
  BY FilesStay
<1>5. Ordered'
  <2> SUFFICES ASSUME dev.pc # "away", NEW i \in 1 .. Len(toDev'), toDev'[i].k \in Orders
               PROVE  /\ i = Len(toDev') /\ dev.pc = "idle"
                      /\ m.k = toDev'[i].k /\ m.p = toDev'[i].p
    BY <1>1 DEF Ordered, Orders
  <2>1. i = Len(toDev) + 1
    BY <1>1 DEF NonePending
  <2> QED BY <1>1, <2>1 DEF Idle
<1>6. Together' /\ Answered'
  BY <1>1 DEF Together, Answered, Sent, Idle, Fetching
<1>7. Reported'
  BY DEF Reported, StoredWhole, ReceivedWhole
<1> QED
  BY <1>2, <1>3, <1>4, <1>5, <1>6, <1>7 DEF CableInv

\* A command is typed at the prompt.
LEMMA GiveKeeps ==
  ASSUME CableInv, NEW step, NEW kind, NEW names \in Seq(Paths), NEW data \in Seq(Nat),
         \/ kind = "W" /\ step = "ready" /\ Len(data) = 1 /\ data[1] >= 1
         \/ kind = "T" /\ step = "getReady"
         \/ kind = "R" /\ step = "ok"
         \/ kind = "N" /\ step = "ok" /\ Len(names) = 2,
         Len(names) >= 1, Give(step, kind, names, data)
  PROVE  CableInv'
<1> DEFINE m == Message(kind, names, data)
<1> DEFINE p == names[1]
<1>1. m \in Messages /\ m.k = kind /\ m.p = names /\ m.v = data
  BY MessageType DEF Kinds
<1>2. p \in Paths
  <2>1. 1 \in 1 .. Len(names)
    BY LenProperties
  <2> QED BY <2>1, ElementOfSeq
<1>3. /\ host.pc = "idle" /\ host' = [NoHost EXCEPT !.pc = step, !.path = p, !.tries = 1]
      /\ toDev' = Append(toDev, m) /\ toHost' = <<>>
      /\ card' = card /\ torn' = torn /\ dev' = dev /\ faults' = faults
      /\ ops < MaxOps /\ ops' = ops + 1
  BY DEF Give, Command, HostKeeps
<1>4. step \in HostSteps
  BY DEF HostSteps
<1> HIDE DEF m, p
<1>5. LET h == [NoHost EXCEPT !.pc = step, !.path = p, !.tries = 1]
      IN h \in Host /\ h.pc = step /\ h.path = p /\ h.n = 0 /\ h.result = "none"
  BY <1>2, <1>4, HostGiven, Zenon
<1>6. host' \in Host /\ host'.pc = step /\ host'.path = p /\ host'.n = 0 /\ host'.result = "none"
  BY <1>3, <1>5
<1>7. ops' \in 0 .. MaxOps
  <2>1. ops \in 0 .. MaxOps
    BY Types
  <2>2. MaxOps \in Nat
    BY TransferAssumption
  <2> QED BY <1>3, <2>1, <2>2
<1>8. dev.pc \in Idle /\ NonePending
  BY <1>3, NotMidway DEF NonePending
<1>9. m.p[1] = p
  BY <1>1 DEF p
<1> QED
  BY <1>1, <1>2, <1>3, <1>6, <1>7, <1>8, <1>9, CommandKeeps

\* Each of them.
LEMMA CommandsKeep ==
  ASSUME CableInv,
         \E p, q \in Paths : Put(p) \/ Get(p) \/ Remove(p) \/ Rename(p, q)
  PROVE  CableInv'
<1>1. PICK p \in Paths, q \in Paths : Put(p) \/ Get(p) \/ Remove(p) \/ Rename(p, q)
  OBVIOUS
<1> DEFINE one == <<p>>
<1> DEFINE both == <<p, q>>
<1> DEFINE none == <<>>
<1> DEFINE data == <<Len(Source)>>
<1>2. /\ one \in Seq(Paths) /\ Len(one) = 1 /\ Len(one) >= 1
      /\ both \in Seq(Paths) /\ Len(both) = 2 /\ Len(both) >= 1
  OBVIOUS
<1>3. none \in Seq(Nat)
  BY EmptySeq
<1>4. data \in Seq(Nat) /\ Len(data) = 1 /\ data[1] >= 1
  BY Positive
<1>5. /\ Put(p) => Give("ready", "W", one, data)
      /\ Get(p) => Give("getReady", "T", one, none)
      /\ Remove(p) => Give("ok", "R", one, none)
      /\ Rename(p, q) => Give("ok", "N", both, none)
  BY DEF Put, Get, Remove, Rename
<1> HIDE DEF one, both, none, data
<1>6. CASE Put(p)
  BY <1>2, <1>4, <1>5, <1>6, GiveKeeps, Zenon
<1>7. CASE Get(p)
  BY <1>2, <1>3, <1>5, <1>7, GiveKeeps, Zenon
<1>8. CASE Remove(p)
  BY <1>2, <1>3, <1>5, <1>8, GiveKeeps, Zenon
<1>9. CASE Rename(p, q)
  BY <1>2, <1>3, <1>5, <1>9, GiveKeeps, Zenon
<1> QED
  BY <1>1, <1>6, <1>7, <1>8, <1>9

\* A command fails, or is tried again.
LEMMA FailsKeeps ==
  ASSUME CableInv, Fails, HostKeeps, UNCHANGED ops,
         host.pc \notin {"off", "open", "idle"}, dev.pc \in Idle, NonePending
  PROVE  CableInv'
<1>1. /\ card' = card /\ torn' = torn /\ dev' = dev /\ faults' = faults /\ ops' = ops
      /\ host \in Host /\ ops \in 0 .. MaxOps /\ toHost \in Seq(Messages)
      /\ host.path \in Paths /\ host.result \notin {"stored", "got"}
  BY Types DEF HostKeeps, CableInv, Answered, Sent, Reported
<1>2. CASE host.pc \in Fetching /\ host.tries < Tries
  <2> DEFINE none == <<>>
  <2> DEFINE names == <<host.path>>
  <2> DEFINE m == Message("T", names, none)
  <2> DEFINE more == host.tries + 1
  <2>1. none \in Seq(Nat)
    BY EmptySeq
  <2>2. names \in Seq(Paths) /\ Len(names) = 1 /\ names[1] = host.path
    BY <1>1
  <2>3. /\ host' = [host EXCEPT !.pc = "getReady", !.got = none, !.tries = host.tries + 1]
        /\ toDev' = Append(toDev, m) /\ toHost' = <<>>
    BY <1>2 DEF Fails, Fetching, Command
  <2> HIDE DEF none, names
  <2>4. m \in Messages /\ m.k = "T" /\ m.p = names
    BY <2>1, <2>2, MessageType DEF Kinds
  <2>5. host \in Host /\ host.tries < Tries
    BY <1>1, <1>2
  <2>6. LET next == [host EXCEPT !.pc = "getReady", !.got = none, !.tries = host.tries + 1]
        IN /\ next \in Host /\ next.pc = "getReady" /\ next.path = host.path
           /\ next.result = host.result
    BY <2>1, <2>5, HostRetries, Zenon
  <2>7. host' \in Host /\ host'.pc = "getReady" /\ host'.path = host.path /\ host'.result = host.result
    BY <2>3, <2>6, Zenon
  <2> HIDE DEF m
  <2> QED
    BY <1>1, <2>2, <2>3, <2>4, <2>7, CommandKeeps
<1>3. CASE ~(host.pc \in Fetching /\ host.tries < Tries)
  <2>1. /\ host' = [host EXCEPT !.pc = "idle", !.result = "failed"]
        /\ toHost' = <<>> /\ toDev' = toDev
    BY <1>3 DEF Fails, Fetching, Ends
  <2>2. LET next == [host EXCEPT !.pc = "idle", !.result = "failed"]
        IN /\ next \in Host /\ next.pc = "idle" /\ next.result = "failed"
    <3>1. host \in Host /\ "failed" \in HostResults
      BY <1>1 DEF HostResults
    <3> QED BY <3>1, HostEnds
  <2>3. host' \in Host /\ host'.pc = "idle" /\ host'.result = "failed"
    BY <2>1, <2>2
  <2>4. toHost' \in Seq(Messages) /\ Len(toHost') = 0
    BY <2>1, NothingOn
  <2>5. StoredWhole' /\ ReceivedWhole'
    BY <2>3 DEF StoredWhole, ReceivedWhole
  <2> QED
    BY <1>1, <2>1, <2>3, <2>4, <2>5, BackAtPrompt DEF NonePending
<1> QED
  BY <1>2, <1>3

\* An error from the device, a checksum that is not the file's, or no answer in time
\* from a device that waits for nothing.
LEMMA FailingKeeps ==
  ASSUME CableInv, Refused \/ HostTimeout
  PROVE  CableInv'
<1>1. /\ Fails /\ HostKeeps /\ UNCHANGED ops
      /\ host.pc \notin {"off", "open", "idle"}
  BY DEF Refused, HostTimeout, Listening
<1>2. CASE HostTimeout
  <2>1. dev.pc = "away" \/ (dev.pc = "idle" /\ toDev = <<>>)
    BY <1>2 DEF HostTimeout
  <2>2. toDev = <<>> => Len(toDev) = 0
    BY NothingOn
  <2>3. dev.pc \in Idle /\ NonePending
    BY <2>1, <2>2 DEF NonePending, Idle
  <2> QED BY <1>1, <2>3, FailsKeeps
<1>3. CASE Refused
  <2> DEFINE m == Head(toHost)
  <2>1. /\ toHost # <<>> /\ ~Expected(m)
        /\ \/ host.pc \in {"ready", "ok", "getReady"} /\ m.k = "ERR"
           \/ host.pc = "ack"
           \/ host.pc = "getCrc" /\ m.k = "crc"
    BY <1>3 DEF Refused, Listening
  <2>2. Len(toHost) >= 1 /\ 1 \in 1 .. Len(toHost) /\ m = toHost[1]
    <3>1. toHost \in Seq(Messages) /\ Len(toHost) \in Nat
      BY Types
    <3> QED BY <2>1, <3>1, TakenFrom
  <2> HIDE DEF m
  <2>3. host.pc = "ack" => m.k # "ack"
    BY <2>1 DEF Expected
  <2>4. host.pc # "off"
    BY <1>1
  <2>5. dev.pc \notin {"recv", "crc"}
    BY <2>1, <2>2, <2>3, <2>4 DEF CableInv, Together
  <2>6. dev.pc # "send"
    BY <2>1, <2>2, <2>4 DEF CableInv, Together, Fetching
  <2>7. dev.pc \in Idle
    BY <2>5, <2>6, Types DEF DevSteps, Idle
  <2>8. NonePending
    BY <2>1, <2>2, <2>4 DEF CableInv, Ordered, Orders, NonePending
  <2> QED BY <1>1, <2>7, <2>8, FailsKeeps
<1> QED
  BY <1>2, <1>3

\* What the tool takes and passes over, and what goes astray.
LEMMA PassedOverKeeps ==
  ASSUME CableInv, Skip \/ Misread
  PROVE  CableInv'
<1>1. /\ card' = card /\ torn' = torn /\ dev' = dev /\ faults' = faults /\ ops' = ops
      /\ toDev' = toDev /\ toHost # <<>> /\ toHost' = Tail(toHost)
      /\ host.pc \notin {"off", "open", "idle"}
      /\ host \in Host
  BY Types DEF Skip, Misread, HostKeeps, Listening
<1>2. /\ toHost' \in Seq(Messages) /\ Len(toHost) >= 1 /\ Len(toHost') = Len(toHost) - 1
      /\ \A j \in 1 .. Len(toHost') : j + 1 \in 1 .. Len(toHost) /\ toHost'[j] = toHost[j + 1]
      /\ Len(toHost) \in Nat
  BY <1>1, AnswerTaken, Types
<1>3. /\ host' \in Host /\ host'.path = host.path /\ host'.n = host.n /\ host'.got = host.got
      /\ host'.result = host.result
      /\ host'.pc = host.pc \/ (host'.pc = "astray" /\ host.pc \in Fetching \ {"getReady"})
  <2>1. CASE host' = host
    BY <1>1, <2>1
  <2>2. CASE host' = [host EXCEPT !.pc = "astray"] /\ host.pc \in {"getSize", "getChunk", "getCrc"}
    <3>1. "astray" \in HostSteps
      BY DEF HostSteps
    <3>2. LET next == [host EXCEPT !.pc = "astray"]
          IN /\ next \in Host /\ next.pc = "astray" /\ next.path = host.path
             /\ next.n = host.n /\ next.got = host.got /\ next.result = host.result
      BY <1>1, <3>1, HostMoves, Zenon
    <3> QED BY <2>2, <3>2 DEF Fetching
  <2> QED BY <2>1, <2>2 DEF Skip, Misread
<1>4. CableTyped'
  BY <1>1, <1>2, <1>3 DEF CableInv, CableTyped
<1>5. WireSound'
  BY <1>1, <1>2 DEF CableInv, WireSound
<1>6. Midway' /\ WholeFiles'
  BY <1>1, FilesStay
<1>7. Ordered'
  BY <1>1, <1>2, <1>3 DEF CableInv, Ordered, Orders, Fetching
<1>8. Together'
  <2> SUFFICES ASSUME dev.pc \in {"recv", "crc", "send"} PROVE Together'
    BY <1>1 DEF Together
  <2>1. CASE dev.pc \in {"recv", "crc"}
    <3>1. /\ host.pc \in {"ready", "ack", "ok"} /\ dev.path = host.path /\ host'.pc = host.pc
          /\ host.pc = "ready" =>
               /\ toDev = <<>>
               /\ \A j \in 1 .. Len(toHost) :
                    toHost[j].k = "STATUS" \/ (toHost[j].k = "READY" /\ j = Len(toHost))
          /\ host.pc = "ack" => \A i \in 1 .. Len(toDev) : toDev[i].k = "data"
          /\ host.pc = "ok" => host.n # 0
          /\ host.pc \in {"ack", "ok"} => \A j \in 1 .. Len(toHost) : toHost[j].k = "ack"
      BY <1>1, <1>3, <2>1 DEF CableInv, Together, Fetching
    <3>2. host.pc = "ready" =>
            \A j \in 1 .. Len(toHost') :
              toHost'[j].k = "STATUS" \/ (toHost'[j].k = "READY" /\ j = Len(toHost'))
      BY <1>2, <3>1
    <3> QED BY <1>1, <1>2, <1>3, <2>1, <3>1, <3>2, ZenonT(60) DEF Together
  <2>2. CASE dev.pc = "send"
    BY <1>1, <1>2, <1>3, <2>2 DEF CableInv, Together, Fetching
  <2> QED BY <2>1, <2>2
<1>9. Answered'
  BY <1>1, <1>2, <1>3 DEF CableInv, Answered, Sent, Fetching
<1>10. Reported'
  BY <1>1, <1>3 DEF CableInv, Reported, StoredWhole, ReceivedWhole, Fetching
<1> QED
  BY <1>4, <1>5, <1>6, <1>7, <1>8, <1>9, <1>10 DEF CableInv

\* The tool takes an answer it can use.
Took(next) ==
  /\ card' = card /\ torn' = torn /\ dev' = dev /\ faults' = faults /\ ops' = ops
  /\ toHost # <<>> /\ toHost' = Tail(toHost)
  /\ host' = next /\ next \in Host /\ next.path = host.path

\* What taking it leaves as it was.
LEMMA TookKeeps ==
  ASSUME CableInv, NEW next, Took(next), toDev' \in Seq(Messages)
  PROVE  CableTyped' /\ Midway' /\ WholeFiles'
<1>1. toHost' \in Seq(Messages)
  BY AnswerTaken DEF Took
<1>2. CableTyped'
  BY <1>1 DEF CableInv, CableTyped, Took
<1>3. Midway' /\ WholeFiles'
  BY FilesStay DEF Took
<1> QED
  BY <1>2, <1>3

\* READY: the first chunk goes.
LEMMA FirstChunkKeeps ==
  ASSUME CableInv, NEW m \in Messages, m.k = "data",
         host.pc = "ready", toHost[1].k = "READY", NEW next, Took(next),
         next.pc = "ack", next.n = 1, next.result = host.result,
         toDev' = Append(toDev, m)
  PROVE  CableInv'
<1>1. /\ toHost' \in Seq(Messages) /\ Len(toHost) >= 1 /\ Len(toHost') = Len(toHost) - 1
      /\ \A j \in 1 .. Len(toHost') : j + 1 \in 1 .. Len(toHost) /\ toHost'[j] = toHost[j + 1]
      /\ Len(toHost) \in Nat /\ 1 \in 1 .. Len(toHost) /\ Len(toDev) \in Nat
  BY AnswerTaken, Types DEF Took
<1>2. /\ toDev' \in Seq(Messages) /\ Len(toDev') = Len(toDev) + 1
      /\ toDev'[Len(toDev) + 1] = m
      /\ \A i \in 1 .. Len(toDev) : toDev'[i] = toDev[i]
      /\ \A i \in 1 .. Len(toDev') : i \in 1 .. Len(toDev) \/ i = Len(toDev) + 1
  BY ToDevSent
<1>3. CableTyped' /\ Midway' /\ WholeFiles'
  BY <1>2, TookKeeps
<1>4. WireSound'
  BY <1>1, <1>2 DEF CableInv, WireSound, Orders
<1>5. Ordered'
  <2>1. dev.pc # "away" => \A i \in 1 .. Len(toDev) : toDev[i].k \notin Orders
    BY <1>1 DEF CableInv, Ordered
  <2> QED BY <1>2, <2>1 DEF Ordered, Orders, Took
<1>6. Together'
  <2> SUFFICES ASSUME dev.pc \in {"recv", "crc", "send"} PROVE Together'
    BY DEF Together, Took
  <2>1. /\ dev.pc \in {"recv", "crc"} /\ dev.path = host.path /\ toDev = <<>>
        /\ 1 = Len(toHost)
    BY <1>1 DEF CableInv, Together, Fetching
  <2>2. Len(toDev) = 0 /\ Len(toHost') = 0
    BY <1>1, <2>1, NothingOn
  <2>3. \A i \in 1 .. Len(toDev') : toDev'[i].k = "data"
    BY <1>2, <2>2
  <2> QED BY <2>1, <2>2, <2>3 DEF Together, Took
<1>7. Answered'
  <2>1. 1 \in 1 .. Len(Source)
    BY Positive
  <2>2. host.path \in Paths /\ \A j \in 1 .. Len(toHost) : toHost[j].k # "OK"
    BY DEF CableInv, Answered, Sent
  <2>3. \A j \in 1 .. Len(toHost') : toHost'[j].k # "OK"
    BY <1>1, <2>2
  <2> QED BY <2>1, <2>2, <2>3 DEF Answered, Sent, Took, Fetching
<1>8. Reported'
  BY DEF CableInv, Reported, StoredWhole, ReceivedWhole, Took
<1> QED
  BY <1>3, <1>4, <1>5, <1>6, <1>7, <1>8 DEF CableInv

\* An acknowledgment: the next chunk goes, or the checksum of them all.
LEMMA NextChunkKeeps ==
  ASSUME CableInv, NEW m \in Messages,
         host.pc = "ack", toHost[1].k = "ack", NEW next, Took(next),
         next.result = host.result, next.n \in 1 .. Len(Source),
         \/ next.pc = "ack" /\ m.k = "data"
         \/ next.pc = "ok" /\ m.k = "crc" /\ m.v = Source,
         toDev' = Append(toDev, m)
  PROVE  CableInv'
<1>1. /\ toHost' \in Seq(Messages) /\ Len(toHost) >= 1 /\ Len(toHost') = Len(toHost) - 1
      /\ \A j \in 1 .. Len(toHost') : j + 1 \in 1 .. Len(toHost) /\ toHost'[j] = toHost[j + 1]
      /\ Len(toHost) \in Nat /\ 1 \in 1 .. Len(toHost) /\ Len(toDev) \in Nat
  BY AnswerTaken, Types DEF Took
<1>2. /\ toDev' \in Seq(Messages) /\ Len(toDev') = Len(toDev) + 1
      /\ toDev'[Len(toDev) + 1] = m
      /\ \A i \in 1 .. Len(toDev) : toDev'[i] = toDev[i]
      /\ \A i \in 1 .. Len(toDev') : i \in 1 .. Len(toDev) \/ i = Len(toDev) + 1
  BY ToDevSent
<1>3. CableTyped' /\ Midway' /\ WholeFiles'
  BY <1>2, TookKeeps
<1>4. WireSound'
  BY <1>1, <1>2, ZenonT(60) DEF CableInv, WireSound, Orders
<1>5. Ordered'
  <2>1. dev.pc # "away" => \A i \in 1 .. Len(toDev) : toDev[i].k \notin Orders
    BY <1>1 DEF CableInv, Ordered, Orders
  <2> QED BY <1>2, <2>1 DEF Ordered, Orders, Took
<1>6. Together'
  <2> SUFFICES ASSUME dev.pc \in {"recv", "crc", "send"} PROVE Together'
    BY DEF Together, Took
  <2>1. /\ dev.pc \in {"recv", "crc"} /\ dev.path = host.path
        /\ \A i \in 1 .. Len(toDev) : toDev[i].k = "data"
        /\ \A j \in 1 .. Len(toHost) : toHost[j].k = "ack"
    BY <1>1 DEF CableInv, Together, Fetching
  <2>2. next.n # 0
    BY Positive
  <2>3. /\ next.pc = "ack" => \A i \in 1 .. Len(toDev') : toDev'[i].k = "data"
        /\ \A j \in 1 .. Len(toHost') : toHost'[j].k = "ack"
    BY <1>1, <1>2, <2>1, ZenonT(60)
  <2> QED BY <2>1, <2>2, <2>3 DEF Together, Took
<1>7. Answered'
  <2>1. host.path \in Paths /\ \A j \in 1 .. Len(toHost) : toHost[j].k # "OK"
    BY DEF CableInv, Answered, Sent
  <2>2. \A j \in 1 .. Len(toHost') : toHost'[j].k # "OK"
    BY <1>1, <2>1
  <2> QED BY <2>1, <2>2 DEF Answered, Sent, Took, Fetching
<1>8. Reported'
  BY DEF CableInv, Reported, StoredWhole, ReceivedWhole, Took
<1> QED
  BY <1>3, <1>4, <1>5, <1>6, <1>7, <1>8 DEF CableInv

\* OK: the command is done, or the file stored.
LEMMA DoneKeeps ==
  ASSUME CableInv, host.pc = "ok", toHost[1].k = "OK", NEW next, Took(next),
         next.pc = "idle", next.result = (IF host.n = 0 THEN "done" ELSE "stored"),
         toDev' = toDev
  PROVE  CableInv'
<1>1. /\ toHost' \in Seq(Messages) /\ Len(toHost) >= 1 /\ Len(toHost') = Len(toHost) - 1
      /\ \A j \in 1 .. Len(toHost') : j + 1 \in 1 .. Len(toHost) /\ toHost'[j] = toHost[j + 1]
      /\ Len(toHost) \in Nat /\ 1 \in 1 .. Len(toHost)
  BY AnswerTaken, Types DEF Took
<1>2. dev.pc \notin {"recv", "crc", "send"}
  BY <1>1 DEF CableInv, Together, Fetching
<1>3. dev.pc \in Idle
  BY <1>2, Types DEF DevSteps, Idle
<1>4. dev.pc # "away" => \A i \in 1 .. Len(toDev) : toDev[i].k \notin Orders
  BY <1>1 DEF CableInv, Ordered, Orders
<1>5. host.path \in Paths /\ (host.n # 0 => Sent(host.path))
  BY <1>1 DEF CableInv, Answered, Sent
<1>6. StoredWhole' /\ ReceivedWhole'
  BY <1>5 DEF StoredWhole, ReceivedWhole, Took, Sent
<1> QED
  BY <1>1, <1>3, <1>4, <1>5, <1>6, BackAtPrompt DEF Took

\* The checksum of what was received: the file is what the card holds.
LEMMA FetchedKeeps ==
  ASSUME CableInv, host.pc = "getCrc", toHost[1].k = "crc", toHost[1].v = host.got,
         NEW next, Took(next),
         next.pc = "idle", next.result = "got", next.got = host.got,
         toDev' = toDev
  PROVE  CableInv'
<1>1. /\ toHost' \in Seq(Messages) /\ Len(toHost) >= 1 /\ Len(toHost') = Len(toHost) - 1
      /\ \A j \in 1 .. Len(toHost') : j + 1 \in 1 .. Len(toHost) /\ toHost'[j] = toHost[j + 1]
      /\ Len(toHost) \in Nat /\ 1 \in 1 .. Len(toHost)
  BY AnswerTaken, Types DEF Took
<1>2. dev.pc \notin {"recv", "crc", "send"}
  BY <1>1 DEF CableInv, Together, Fetching
<1>3. dev.pc \in Idle
  BY <1>2, Types DEF DevSteps, Idle
<1>4. dev.pc # "away" => \A i \in 1 .. Len(toDev) : toDev[i].k \notin Orders
  BY <1>1 DEF CableInv, Ordered, Orders
<1>5. host.path \in Paths /\ host.got = card[host.path]
  BY <1>1 DEF CableInv, Answered, Sent, Fetching
<1>6. StoredWhole' /\ ReceivedWhole'
  BY <1>5 DEF StoredWhole, ReceivedWhole, Took, Sent
<1> QED
  BY <1>1, <1>3, <1>4, <1>5, <1>6, BackAtPrompt DEF Took

\* The announcement of a file, its size or a chunk of it, which is acknowledged.
LEMMA FetchingKeeps ==
  ASSUME CableInv, host.pc \in Fetching, toHost[1].k # "STATUS", NEW next, Took(next),
         next.pc \in Fetching \ {"getReady"}, next.result = host.result,
         toDev' = toDev \/ \E m \in Messages : m.k = "ack" /\ toDev' = Append(toDev, m)
  PROVE  CableInv'
<1>1. /\ toHost' \in Seq(Messages) /\ Len(toHost) >= 1 /\ Len(toHost') = Len(toHost) - 1
      /\ \A j \in 1 .. Len(toHost') : j + 1 \in 1 .. Len(toHost) /\ toHost'[j] = toHost[j + 1]
      /\ Len(toHost) \in Nat /\ 1 \in 1 .. Len(toHost) /\ Len(toDev) \in Nat
  BY AnswerTaken, Types DEF Took
<1>2. /\ toDev' \in Seq(Messages)
      /\ \A i \in 1 .. Len(toDev') :
           \/ i \in 1 .. Len(toDev) /\ toDev'[i] = toDev[i]
           \/ toDev'[i].k = "ack"
  <2>1. CASE toDev' = toDev
    BY <2>1, Types
  <2>2. ASSUME NEW m \in Messages, m.k = "ack", toDev' = Append(toDev, m)
        PROVE  /\ toDev' \in Seq(Messages)
               /\ \A i \in 1 .. Len(toDev') :
                    \/ i \in 1 .. Len(toDev) /\ toDev'[i] = toDev[i]
                    \/ toDev'[i].k = "ack"
    BY <2>2, ToDevSent
  <2> QED BY <2>1, <2>2
<1>3. CableTyped' /\ Midway' /\ WholeFiles'
  BY <1>2, TookKeeps
<1>4. WireSound'
  BY <1>1, <1>2, ZenonT(60) DEF CableInv, WireSound, Orders
<1>5. Ordered'
  <2>1. dev.pc # "away" => \A i \in 1 .. Len(toDev) : toDev[i].k \notin Orders
    BY <1>1 DEF CableInv, Ordered, Orders, Fetching
  <2> QED BY <1>2, <2>1 DEF Ordered, Orders, Took
<1>6. Together'
  <2>1. dev.pc \notin {"recv", "crc"}
    BY DEF CableInv, Together, Fetching
  <2>2. dev.pc = "send" =>
          /\ dev.data = card[host.path]
          /\ \A j \in 1 .. Len(toHost) : toHost[j].k \notin {"ERR", "crc"}
    BY DEF CableInv, Together, Fetching
  <2>3. dev.pc = "send" => \A j \in 1 .. Len(toHost') : toHost'[j].k \notin {"ERR", "crc"}
    BY <1>1, <2>2
  <2> QED BY <2>1, <2>2, <2>3 DEF Together, Took
<1>7. Answered'
  <2>1. host.path \in Paths
        /\ \A j \in 1 .. Len(toHost) : toHost[j].k = "crc" => toHost[j].v = card[host.path]
    BY DEF CableInv, Answered, Sent, Fetching
  <2>2. \A j \in 1 .. Len(toHost') : toHost'[j].k = "crc" => toHost'[j].v = card[host.path]
    BY <1>1, <2>1
  <2> QED BY <2>1, <2>2 DEF Answered, Sent, Took, Fetching
<1>8. Reported'
  BY DEF CableInv, Reported, StoredWhole, ReceivedWhole, Took, Fetching
<1> QED
  BY <1>3, <1>4, <1>5, <1>6, <1>7, <1>8 DEF CableInv

\* Whatever the tool takes of what it waits for.
LEMMA ReceiveKeeps ==
  ASSUME CableInv, Receive
  PROVE  CableInv'
<1> DEFINE m == Head(toHost)
<1>1. /\ toHost # <<>> /\ toHost' = Tail(toHost) /\ Expected(m)
      /\ Uploading(m) \/ Downloading(m)
      /\ card' = card /\ torn' = torn /\ dev' = dev /\ faults' = faults /\ ops' = ops
      /\ host \in Host /\ host.n \in Nat /\ host.got \in Seq(Nat)
  BY Types DEF Receive, Listening, HostKeeps
<1>2. m = toHost[1] /\ m \in Messages /\ 1 \in 1 .. Len(toHost)
  <2>1. toHost \in Seq(Messages) /\ Len(toHost) \in Nat
    BY Types
  <2> QED BY <1>1, <2>1, TakenFrom
<1>3. m.v \in Seq(Nat)
  BY <1>2 DEF Messages
<1> HIDE DEF m
<1> DEFINE none == <<>>
<1>4. none \in Seq(Paths) /\ none \in Seq(Nat)
  BY EmptySeq
<1>5. Source \in Seq(Nat) /\ Len(Source) \in Nat /\ Len(Source) >= 1
  BY Positive
<1>6. \A kind \in {"data", "ack", "crc"}, data \in Seq(Nat) :
        LET sent == Message(kind, none, data)
        IN sent \in Messages /\ sent.k = kind /\ sent.v = data
  <2>1. {"data", "ack", "crc"} \subseteq Kinds
    BY DEF Kinds
  <2> HIDE DEF none
  <2> QED BY <1>4, <2>1, MessageType
<1>7. \A i \in 1 .. Len(Source) : <<Source[i]>> \in Seq(Nat)
  BY <1>5, ElementOfSeq
<1>8. CASE host.pc = "ready"
  <2> DEFINE data == <<Source[1]>>
  <2> DEFINE sent == Message("data", none, data)
  <2> DEFINE next == [host EXCEPT !.pc = "ack", !.n = 1]
  <2>1. m.k = "READY" /\ host' = next /\ toDev' = Append(toDev, sent)
    BY <1>1, <1>8 DEF Uploading, Downloading, Send
  <2>2. data \in Seq(Nat)
    BY <1>5, <1>7
  <2> HIDE DEF data
  <2>3. sent \in Messages /\ sent.k = "data"
    BY <1>6, <2>2
  <2>4. next \in Host /\ next.pc = "ack" /\ next.path = host.path /\ next.n = 1
        /\ next.result = host.result
    <3>1. PICK paths, tries : Host = HostOf(paths, tries)
      BY HostIs
    <3> QED BY <1>1, <3>1 DEF HostOf, HostSteps
  <2> HIDE DEF sent, next
  <2> QED BY <1>1, <1>2, <1>8, <2>1, <2>3, <2>4, FirstChunkKeeps DEF Took
<1>9. CASE host.pc = "ack" /\ host.n < Len(Source)
  <2>0. /\ m.k = "ack" /\ host' = [host EXCEPT !.n = @ + 1]
        /\ toDev' = Append(toDev, Message("data", <<>>, <<Source[host.n + 1]>>))
    <3>1. host.n # Len(Source)
      BY <1>1, <1>5, <1>9
    <3> QED BY <1>1, <1>9, <3>1, Zenon DEF Uploading, Downloading, Send
  <2> DEFINE n == host.n + 1
  <2> DEFINE data == <<Source[host.n + 1]>>
  <2> DEFINE sent == Message("data", none, data)
  <2> DEFINE next == [host EXCEPT !.n = host.n + 1]
  <2>1. m.k = "ack" /\ host' = next /\ toDev' = Append(toDev, sent)
    BY <2>0
  <2>2. data \in Seq(Nat) /\ n \in 1 .. Len(Source) /\ n \in Nat
    BY <1>1, <1>5, <1>7, <1>9
  <2>3. next = [host EXCEPT !.n = n]
    OBVIOUS
  <2> HIDE DEF data, n, next
  <2>4. sent \in Messages /\ sent.k = "data"
    BY <1>6, <2>2
  <2>5. next \in Host /\ next.pc = "ack" /\ next.path = host.path /\ next.n = n
        /\ next.result = host.result
    BY <1>1, <1>9, <2>2, <2>3, HostCounts
  <2> HIDE DEF sent
  <2> QED BY <1>1, <1>2, <1>9, <2>1, <2>2, <2>4, <2>5, NextChunkKeeps DEF Took
<1>10. CASE host.pc = "ack" /\ ~(host.n < Len(Source))
  <2> DEFINE sent == Message("crc", none, Source)
  <2> DEFINE next == [host EXCEPT !.pc = "ok"]
  <2>1. host.n = Len(Source)
    BY <1>1, <1>5, <1>10 DEF CableInv, Answered, Sent
  <2>2. m.k = "ack" /\ host' = next /\ toDev' = Append(toDev, sent)
    BY <1>1, <1>10, <2>1 DEF Uploading, Downloading, Send
  <2>3. sent \in Messages /\ sent.k = "crc" /\ sent.v = Source
    BY <1>5, <1>6
  <2>4. next \in Host /\ next.pc = "ok" /\ next.path = host.path /\ next.n = host.n
        /\ next.result = host.result
    BY <1>1, HostMoves DEF HostSteps
  <2>5. next.n \in 1 .. Len(Source)
    BY <1>5, <2>1, <2>4
  <2> HIDE DEF sent, next
  <2> QED BY <1>1, <1>2, <1>10, <2>2, <2>3, <2>4, <2>5, NextChunkKeeps DEF Took
<1>11. CASE host.pc = "ok"
  <2> DEFINE r == IF host.n = 0 THEN "done" ELSE "stored"
  <2> DEFINE next == [host EXCEPT !.pc = "idle", !.result = r]
  <2>1. m.k = "OK" /\ host' = next /\ toDev' = toDev
    BY <1>1, <1>11 DEF Uploading, Downloading, Ends
  <2>2. r \in HostResults /\ r = (IF host.n = 0 THEN "done" ELSE "stored")
    BY DEF HostResults
  <2> HIDE DEF r
  <2>3. next \in Host /\ next.pc = "idle" /\ next.path = host.path /\ next.result = r
    BY <1>1, <2>2, HostEnds
  <2> HIDE DEF next
  <2> QED BY <1>1, <1>2, <1>11, <2>1, <2>2, <2>3, DoneKeeps DEF Took
<1>12. CASE host.pc = "getReady"
  <2> DEFINE next == [host EXCEPT !.pc = "getSize"]
  <2>1. m.k = "READY" /\ host' = next /\ toDev' = toDev
    BY <1>1, <1>12 DEF Uploading, Downloading
  <2>2. next \in Host /\ next.pc = "getSize" /\ next.path = host.path /\ next.result = host.result
    BY <1>1, HostMoves DEF HostSteps
  <2> HIDE DEF next
  <2> QED BY <1>1, <1>2, <1>12, <2>1, <2>2, FetchingKeeps DEF Took, Fetching
<1>13. CASE host.pc = "getSize"
  <2> DEFINE n == m.v[1]
  <2> DEFINE pc == IF m.v[1] = 0 THEN "getCrc" ELSE "getChunk"
  <2> DEFINE next == [host EXCEPT !.n = n, !.pc = pc]
  <2>1. m.k = "size" /\ host' = next /\ toDev' = toDev
    BY <1>1, <1>13 DEF Uploading, Downloading
  <2>2. Len(m.v) = 1
    BY <1>2, <2>1 DEF CableInv, WireSound
  <2>3. n \in Nat
    BY <1>3, <2>2, ElementOfSeq
  <2>4. pc \in HostSteps /\ pc \in {"getCrc", "getChunk"}
    BY DEF HostSteps
  <2>5. next = [host EXCEPT !.pc = pc, !.n = n]
    <3> HIDE DEF n, pc
    <3> QED BY <1>1 DEF Host
  <2> HIDE DEF n, pc
  <2>6. next \in Host /\ next.pc = pc /\ next.path = host.path /\ next.result = host.result
    <3>1. PICK paths, tries : Host = HostOf(paths, tries)
      BY HostIs
    <3> QED BY <1>1, <2>3, <2>4, <2>5, <3>1 DEF HostOf, next
  <2> QED BY <1>1, <1>2, <1>13, <2>1, <2>4, <2>6, FetchingKeeps DEF Took, Fetching
<1>14. CASE host.pc = "getChunk"
  <2> DEFINE got == host.got \o m.v
  <2> DEFINE pc == IF Len(host.got) + 1 = host.n THEN "getCrc" ELSE host.pc
  <2> DEFINE next == [host EXCEPT !.got = got, !.pc = pc]
  <2> DEFINE sent == Message("ack", none, none)
  <2>1. m.k = "data" /\ host' = next /\ toDev' = Append(toDev, sent)
    BY <1>1, <1>14 DEF Uploading, Downloading, Send
  <2>2. got \in Seq(Nat)
    BY <1>1, <1>3, ConcatProperties
  <2>3. pc \in HostSteps /\ pc \in {"getCrc", "getChunk"}
    BY <1>14 DEF HostSteps
  <2> HIDE DEF got, pc
  <2>4. next \in Host /\ next.pc = pc /\ next.path = host.path /\ next.result = host.result
    <3>1. PICK paths, tries : Host = HostOf(paths, tries)
      BY HostIs
    <3> QED BY <1>1, <2>2, <2>3, <3>1 DEF HostOf
  <2>5. sent \in Messages /\ sent.k = "ack"
    BY <1>4, <1>6
  <2> HIDE DEF sent, next
  <2> QED BY <1>1, <1>2, <1>14, <2>1, <2>3, <2>4, <2>5, FetchingKeeps DEF Took, Fetching
<1>15. CASE host.pc = "getCrc"
  <2> DEFINE next == [host EXCEPT !.pc = "idle", !.result = "got"]
  <2>1. m.k = "crc" /\ m.v = host.got /\ host' = next /\ toDev' = toDev
    BY <1>1, <1>15 DEF Uploading, Downloading, Downloaded, Ends
  <2>2. next \in Host /\ next.pc = "idle" /\ next.path = host.path /\ next.result = "got"
        /\ next.got = host.got
    <3>1. "got" \in HostResults
      BY DEF HostResults
    <3> QED BY <1>1, <3>1, HostEnds
  <2> HIDE DEF next
  <2> QED BY <1>1, <1>2, <1>15, <2>1, <2>2, FetchedKeeps DEF Took
<1> QED
  BY <1>1, <1>8, <1>9, <1>10, <1>11, <1>12, <1>13, <1>14, <1>15 DEF Expected

-----------------------------------------------------------------------------
(* The device's steps.                                                     *)

DeviceOf(paths) ==
  [pc : DevSteps, path : paths, left : Nat, seen : Seq(Nat), buf : Seq(Nat), data : Seq(Nat)]

\* The device as a record, whatever its names are.
LEMMA DeviceIs ==
  \E paths : Paths \subseteq paths /\ Device = DeviceOf(paths)
BY DEF Device, DeviceOf

\* The device's fields.
LEMMA DeviceFields ==
  ASSUME CableInv
  PROVE  /\ dev.left \in Nat /\ dev.seen \in Seq(Nat) /\ dev.buf \in Seq(Nat)
         /\ dev.data \in Seq(Nat)
<1>1. PICK paths : Device = DeviceOf(paths)
  BY DeviceIs
<1> QED
  BY <1>1, Types DEF DeviceOf

\* A fault, or none.
LEMMA FaultCounted ==
  ASSUME CableInv, NoFault \/ \E kind : Fault(kind)
  PROVE  faults' \in 0 .. MaxFaults
<1>1. faults \in 0 .. MaxFaults /\ MaxFaults \in Nat
  BY Types, TransferAssumption
<1>2. faults' = faults \/ (faults < MaxFaults /\ faults' = faults + 1)
  BY DEF NoFault, Fault
<1> QED BY <1>1, <1>2

\* The device takes a message.
LEMMA MessageTaken ==
  ASSUME CableInv, toDev # <<>>, toDev' = Tail(toDev)
  PROVE  /\ toDev' \in Seq(Messages) /\ Len(toDev) >= 1 /\ Len(toDev') = Len(toDev) - 1
         /\ Head(toDev) = toDev[1] /\ toDev[1] \in Messages
         /\ \A j \in 1 .. Len(toDev') : j + 1 \in 1 .. Len(toDev) /\ toDev'[j] = toDev[j + 1]
         /\ 1 \in 1 .. Len(toDev) /\ Len(toDev) \in Nat
<1>1. toDev \in Seq(Messages) /\ Len(toDev) \in Nat
  BY Types
<1> QED
  BY <1>1, TakenFrom

\* The device answers.
LEMMA AnswerSent ==
  ASSUME CableInv, NEW m \in Messages, toHost' = Append(toHost, m)
  PROVE  /\ toHost' \in Seq(Messages) /\ Len(toHost') = Len(toHost) + 1
         /\ \A i \in 1 .. Len(toHost) : toHost'[i] = toHost[i]
         /\ toHost'[Len(toHost) + 1] = m
         /\ \A i \in 1 .. Len(toHost') : i \in 1 .. Len(toHost) \/ i = Len(toHost) + 1
         /\ Len(toHost) \in Nat
<1>1. toHost \in Seq(Messages) /\ Len(toHost) \in Nat
  BY Types
<1> QED
  BY <1>1, SentOn

\* Its status, and bytes it drops.
LEMMA IdleKeeps ==
  ASSUME CableInv, Status \/ DropBytes
  PROVE  CableInv'
<1>1. /\ dev.pc = "idle" /\ toDev # <<>> /\ toDev' = Tail(toDev)
      /\ card' = card /\ torn' = torn /\ dev' = dev /\ host' = host /\ ops' = ops
      /\ faults' = faults
      /\ toHost' = toHost \/ toHost' = Append(toHost, Line("STATUS"))
  BY DEF Status, DropBytes, Hears, Taken, DevKeeps, NoFault, Reply
<1>2. /\ toDev' \in Seq(Messages) /\ Len(toDev') = Len(toDev) - 1 /\ Len(toDev) \in Nat
      /\ \A j \in 1 .. Len(toDev') : j + 1 \in 1 .. Len(toDev) /\ toDev'[j] = toDev[j + 1]
  BY <1>1, MessageTaken
<1>3. Line("STATUS") \in Messages /\ Line("STATUS").k = "STATUS"
  BY LineType DEF Kinds
<1>4. /\ toHost' \in Seq(Messages)
      /\ \A j \in 1 .. Len(toHost') :
           \/ j \in 1 .. Len(toHost) /\ toHost'[j] = toHost[j]
           \/ toHost'[j].k = "STATUS"
  <2>1. CASE toHost' = toHost
    BY <2>1, Types
  <2>2. CASE toHost' = Append(toHost, Line("STATUS"))
    BY <1>3, <2>2, AnswerSent
  <2> QED BY <1>1, <2>1, <2>2
<1>5. CableTyped'
  BY <1>1, <1>2, <1>4 DEF CableInv, CableTyped
<1>6. WireSound'
  BY <1>2, <1>4, ZenonT(60) DEF CableInv, WireSound, Orders
<1>7. Midway' /\ WholeFiles'
  BY <1>1, FilesStay
<1>8. Ordered'
  <2>1. SUFFICES ASSUME host.pc # "off", NEW i \in 1 .. Len(toDev'), toDev'[i].k \in Orders
                 PROVE  /\ i = Len(toDev') /\ dev.pc = "idle"
                        /\ toDev'[i].k = "W" => host.pc = "ready" /\ toDev'[i].p[1] = host.path
                        /\ toDev'[i].k = "T" =>
                             host.pc = "getReady" /\ toDev'[i].p[1] = host.path
                        /\ toDev'[i].k \in {"R", "N"} => host.pc = "ok" /\ host.n = 0
                        /\ \A j \in 1 .. Len(toHost') : toHost'[j].k = "STATUS"
    BY <1>1 DEF Ordered
  <2>2. i + 1 \in 1 .. Len(toDev) /\ toDev'[i] = toDev[i + 1]
    BY <1>2
  <2>3. /\ i + 1 = Len(toDev)
        /\ toDev[i + 1].k = "W" => host.pc = "ready" /\ toDev[i + 1].p[1] = host.path
        /\ toDev[i + 1].k = "T" => host.pc = "getReady" /\ toDev[i + 1].p[1] = host.path
        /\ toDev[i + 1].k \in {"R", "N"} => host.pc = "ok" /\ host.n = 0
        /\ \A j \in 1 .. Len(toHost) : toHost[j].k = "STATUS"
    BY <1>1, <2>1, <2>2 DEF CableInv, Ordered
  <2>4. i = Len(toDev')
    BY <1>2, <2>1, <2>2, <2>3
  <2>5. \A j \in 1 .. Len(toHost') : toHost'[j].k = "STATUS"
    BY <1>4, <2>3
  <2> QED BY <1>1, <2>2, <2>3, <2>4, <2>5
<1>9. Together'
  BY <1>1 DEF Together
<1>10. Answered'
  BY <1>1, <1>4 DEF CableInv, Answered, Sent
<1>11. Reported'
  BY <1>1 DEF CableInv, Reported, StoredWhole, ReceivedWhole
<1> QED
  BY <1>5, <1>6, <1>7, <1>8, <1>9, <1>10, <1>11 DEF CableInv

\* The device carries out a command that changes the card: it was the last thing the
\* tool sent, unless the tool has been left.
LEMMA OrderTaken ==
  ASSUME CableInv, dev.pc = "idle", toDev # <<>>, toDev' = Tail(toDev),
         Head(toDev).k \in Orders
  PROVE  /\ toDev' \in Seq(Messages)
         /\ \A j \in 1 .. Len(toDev') : j + 1 \in 1 .. Len(toDev) /\ toDev'[j] = toDev[j + 1]
         /\ Head(toDev).p \in Seq(Paths) /\ Len(Head(toDev).p) >= 1
         /\ Named[1] \in Paths
         /\ Head(toDev).k = "N" => Named[2] \in Paths
         /\ Head(toDev).v \in Seq(Nat)
         /\ Head(toDev).k = "W" => Head(toDev).v[1] \in Nat /\ Head(toDev).v[1] >= 1
         /\ host.pc # "off" =>
              /\ toDev' = <<>> /\ Len(toDev') = 0
              /\ Head(toDev).k = "W" => host.pc = "ready" /\ Named[1] = host.path
              /\ Head(toDev).k = "T" => host.pc = "getReady" /\ Named[1] = host.path
              /\ Head(toDev).k \in {"R", "N"} => host.pc = "ok" /\ host.n = 0
              /\ \A j \in 1 .. Len(toHost) : toHost[j].k = "STATUS"
<1> DEFINE m == Head(toDev)
<1>1. /\ toDev' \in Seq(Messages) /\ Len(toDev) >= 1 /\ Len(toDev') = Len(toDev) - 1
      /\ m = toDev[1] /\ m \in Messages
      /\ \A j \in 1 .. Len(toDev') : j + 1 \in 1 .. Len(toDev) /\ toDev'[j] = toDev[j + 1]
      /\ 1 \in 1 .. Len(toDev) /\ Len(toDev) \in Nat
  BY MessageTaken
<1>2. m.k \in Orders /\ Named = m.p
  BY DEF Named
<1> HIDE DEF m
<1>3. m.p \in Seq(Paths) /\ m.v \in Seq(Nat)
  BY <1>1 DEF Messages
<1>4. /\ Len(m.p) >= 1
      /\ m.k = "N" => Len(m.p) = 2
      /\ m.k = "W" => Len(m.v) = 1 /\ m.v[1] >= 1
  BY <1>1, <1>2 DEF CableInv, WireSound
<1>5. Len(m.p) \in Nat
  BY <1>3, LenProperties
<1>6. m.p[1] \in Paths /\ (m.k = "N" => m.p[2] \in Paths) /\ (m.k = "W" => m.v[1] \in Nat)
  BY <1>3, <1>4, <1>5, ElementOfSeq
<1>7. ASSUME host.pc # "off"
      PROVE  /\ 1 = Len(toDev)
             /\ m.k = "W" => host.pc = "ready" /\ m.p[1] = host.path
             /\ m.k = "T" => host.pc = "getReady" /\ m.p[1] = host.path
             /\ m.k \in {"R", "N"} => host.pc = "ok" /\ host.n = 0
             /\ \A j \in 1 .. Len(toHost) : toHost[j].k = "STATUS"
  BY <1>1, <1>2, <1>7 DEF CableInv, Ordered
<1>8. host.pc # "off" => Len(toDev') = 0 /\ toDev' = <<>>
  BY <1>1, <1>7, EmptySeq
<1> QED
  BY <1>1, <1>2, <1>3, <1>4, <1>6, <1>7, <1>8 DEF m

\* Its answer is all there is to a command that is refused, or carried out at once.
LEMMA OrderAnswered ==
  ASSUME CableInv, dev.pc = "idle", toDev # <<>>, Head(toDev).k \in Orders,
         toDev' = Tail(toDev), host' = host, ops' = ops, dev' = dev, faults' \in 0 .. MaxFaults,
         NEW line \in {"OK", "ERR"}, line = "OK" => Head(toDev).k \in {"R", "N"},
         toHost' = Append(toHost, Line(line)),
         card' \in [Paths -> Seq(Nat)], torn' \subseteq Paths \X Causes, WholeFiles'
  PROVE  CableInv'
<1> DEFINE m == Head(toDev)
<1>1. /\ m.k \in Orders /\ (line = "OK" => m.k \in {"R", "N"})
      /\ toDev' \in Seq(Messages)
      /\ host.pc # "off" =>
           /\ Len(toDev') = 0
           /\ m.k = "W" => host.pc = "ready"
           /\ m.k = "T" => host.pc = "getReady"
           /\ m.k \in {"R", "N"} => host.pc = "ok" /\ host.n = 0
           /\ \A j \in 1 .. Len(toHost) : toHost[j].k = "STATUS"
  BY OrderTaken
<1>2. /\ toDev' \in Seq(Messages) /\ Len(toDev') = Len(toDev) - 1 /\ Len(toDev) \in Nat
      /\ \A j \in 1 .. Len(toDev') : j + 1 \in 1 .. Len(toDev) /\ toDev'[j] = toDev[j + 1]
  BY MessageTaken
<1> HIDE DEF m
<1>3. Line(line) \in Messages /\ Line(line).k = line
  BY LineType DEF Kinds
<1>4. /\ toHost' \in Seq(Messages) /\ Len(toHost) \in Nat
      /\ \A j \in 1 .. Len(toHost') :
           \/ j \in 1 .. Len(toHost) /\ toHost'[j] = toHost[j]
           \/ toHost'[j].k = line
  BY <1>3, AnswerSent
<1>5. /\ host \in Host /\ dev \in Device /\ ops \in 0 .. MaxOps
  BY Types
<1>6. CableTyped'
  BY <1>1, <1>4, <1>5 DEF CableTyped
<1>7. WireSound'
  BY <1>2, <1>4 DEF CableInv, WireSound, Orders
<1>8. Midway'
  BY DEF CableInv, Midway
<1>9. Ordered'
  BY <1>1 DEF Ordered
<1>10. Together'
  BY DEF Together
<1>11. host.pc \in {"off", "ready", "getReady", "ok"}
  BY <1>1 DEF Orders
<1>12. Answered'
  <2>1. host.pc \notin {"off", "open", "idle"} => host.path \in Paths
    BY DEF CableInv, Answered, Sent
  <2>2. ASSUME host.pc = "ready"
        PROVE  \A j \in 1 .. Len(toHost') : toHost'[j].k # "OK"
    <3>1. line # "OK" /\ \A j \in 1 .. Len(toHost) : toHost[j].k = "STATUS"
      BY <1>1, <2>2 DEF Orders
    <3> QED BY <1>4, <3>1
  <2>3. ASSUME host.pc = "getReady"
        PROVE  \A j \in 1 .. Len(toHost') : toHost'[j].k # "crc"
    <3>1. \A j \in 1 .. Len(toHost) : toHost[j].k = "STATUS"
      BY <1>1, <2>3
    <3> QED BY <1>4, <3>1
  <2>4. host.pc = "ok" => host.n = 0
    BY <1>1 DEF Orders
  <2> QED BY <1>11, <2>1, <2>2, <2>3, <2>4 DEF Answered, Sent, Fetching
<1>13. Reported'
  <2>1. host.result \notin {"stored", "got"}
    BY <1>11 DEF CableInv, Reported
  <2> QED BY <2>1 DEF Reported, StoredWhole, ReceivedWhole
<1> QED
  BY <1>6, <1>7, <1>8, <1>9, <1>10, <1>12, <1>13 DEF CableInv

\* No fault.
LEMMA NoFaultCounted ==
  ASSUME CableInv, NoFault
  PROVE  faults' \in 0 .. MaxFaults
BY Types DEF NoFault

\* With a name cleared, the others stay as they were.
LEMMA StillTorn ==
  ASSUME NEW p, torn' = TornBut(p)
  PROVE  Torn \ {p} \subseteq Torn'
BY DEF Torn, TornBut

\* A file is removed.
LEMMA RemoveFileKeeps ==
  ASSUME CableInv, RemoveFile
  PROVE  CableInv'
<1> DEFINE p == Named[1]
<1>1. /\ dev.pc = "idle" /\ toDev # <<>> /\ Head(toDev).k = "R" /\ toDev' = Tail(toDev)
      /\ host' = host /\ ops' = ops /\ dev' = dev /\ NoFault
      /\ \/ card[p] = Absent /\ toHost' = Append(toHost, Line("ERR")) /\ card' = card /\ torn' = torn
         \/ /\ toHost' = Append(toHost, Line("OK"))
            /\ card' = [card EXCEPT ![p] = Absent] /\ torn' = TornBut(p)
  BY DEF RemoveFile, Hears, Taken, DevKeeps, Reply
<1>2. p \in Paths
  BY <1>1, OrderTaken DEF Orders
<1>3. faults' \in 0 .. MaxFaults
  BY <1>1, NoFaultCounted
<1> HIDE DEF p
<1>4. card \in [Paths -> Seq(Nat)] /\ torn \subseteq Paths \X Causes /\ Absent \in Seq(Nat)
  BY Types, Positive
<1>5. card' \in [Paths -> Seq(Nat)] /\ torn' \subseteq Paths \X Causes
  BY <1>1, <1>2, <1>4 DEF TornBut
<1>6. WholeFiles'
  <2>1. \A x \in Paths \ Torn : card[x] \in {Source, Earlier, Absent}
    BY <1>1 DEF CableInv, WholeFiles
  <2>2. CASE card' = card /\ torn' = torn
    BY <2>1, <2>2 DEF WholeFiles, Torn
  <2>3. CASE card' = [card EXCEPT ![p] = Absent] /\ torn' = TornBut(p)
    <3>1. Torn \ {p} \subseteq Torn'
      BY <2>3, StillTorn
    <3>2. \A x \in Paths \ Torn' : card'[x] \in {Source, Earlier, Absent}
      BY <1>2, <1>4, <2>1, <2>3, <3>1
    <3> QED BY <3>2 DEF WholeFiles
  <2> QED BY <1>1, <2>2, <2>3
<1>7. Head(toDev).k \in Orders
  BY <1>1 DEF Orders
<1> QED
  BY <1>1, <1>3, <1>5, <1>6, <1>7, OrderAnswered

\* What is left under a name goes with the file that is given another.
Renamed(p, q) == {<<IF t[1] = p THEN q ELSE t[1], t[2]>> : t \in torn}

\* So the names with a part of a file are those they were, the new one for the old.
LEMMA TornRenamed ==
  ASSUME NEW p \in Paths, NEW q \in Paths, torn \subseteq Paths \X Causes, torn' = Renamed(p, q)
  PROVE  /\ torn' \subseteq Paths \X Causes
         /\ \A x \in Torn : x = p \/ x \in Torn'
         /\ p \in Torn => q \in Torn'
<1>1. ASSUME NEW t \in torn
      PROVE  LET u == <<IF t[1] = p THEN q ELSE t[1], t[2]>>
             IN u \in torn' /\ u \in Paths \X Causes /\ u[1] = IF t[1] = p THEN q ELSE t[1]
  BY DEF Renamed
<1>2. \A u \in torn' : \E t \in torn : u = <<IF t[1] = p THEN q ELSE t[1], t[2]>>
  BY DEF Renamed
<1> QED BY <1>1, <1>2, ZenonT(60) DEF Torn

\* A file is given another name.
LEMMA RenameFileKeeps ==
  ASSUME CableInv, RenameFile
  PROVE  CableInv'
<1> DEFINE p == Named[1]
<1> DEFINE q == Named[2]
<1>1. /\ dev.pc = "idle" /\ toDev # <<>> /\ Head(toDev).k = "N" /\ toDev' = Tail(toDev)
      /\ host' = host /\ ops' = ops /\ dev' = dev /\ NoFault
      /\ \/ toHost' = Append(toHost, Line("ERR")) /\ card' = card /\ torn' = torn
         \/ /\ toHost' = Append(toHost, Line("OK"))
            /\ card[p] # Absent /\ card[q] = Absent
            /\ card' = [card EXCEPT ![p] = Absent, ![q] = card[p]]
            /\ torn' = Renamed(p, q)
  BY DEF RenameFile, Hears, Taken, DevKeeps, Reply, Renamed
<1>2. p \in Paths /\ q \in Paths
  BY <1>1, OrderTaken DEF Orders
<1>3. faults' \in 0 .. MaxFaults
  BY <1>1, NoFaultCounted
<1> HIDE DEF p, q
<1>4. card \in [Paths -> Seq(Nat)] /\ torn \subseteq Paths \X Causes /\ Absent \in Seq(Nat)
  BY Types, Positive
<1>5. card' \in [Paths -> Seq(Nat)] /\ torn' \subseteq Paths \X Causes
  BY <1>1, <1>2, <1>4, TornRenamed
<1>6. WholeFiles'
  <2>1. \A x \in Paths \ Torn : card[x] \in {Source, Earlier, Absent}
    BY <1>1 DEF CableInv, WholeFiles
  <2>2. \A x \in Paths \ Torn' : card'[x] \in {Source, Earlier, Absent}
    <3>1. CASE card' = card /\ torn' = torn
      BY <2>1, <3>1 DEF Torn
    <3>2. CASE /\ card[p] # Absent /\ card[q] = Absent
               /\ card' = [card EXCEPT ![p] = Absent, ![q] = card[p]]
               /\ torn' = Renamed(p, q)
      <4> SUFFICES ASSUME NEW x \in Paths \ Torn'
                   PROVE  card'[x] \in {Source, Earlier, Absent}
        OBVIOUS
      <4>4. (x = p \/ x \notin Torn) /\ (x = q => p \notin Torn)
        BY <1>2, <1>4, <3>2, TornRenamed
      <4>1. CASE x = q
        BY <1>2, <1>4, <2>1, <3>2, <4>1, <4>4
      <4>2. CASE x = p
        BY <1>2, <1>4, <2>1, <3>2, <4>2
      <4>3. CASE x # p /\ x # q
        BY <1>2, <1>4, <2>1, <3>2, <4>3, <4>4
      <4> QED BY <4>1, <4>2, <4>3
    <3> QED BY <1>1, <3>1, <3>2
  <2> QED BY <2>2 DEF WholeFiles, Torn
<1>7. Head(toDev).k \in Orders
  BY <1>1 DEF Orders
<1> QED
  BY <1>1, <1>3, <1>5, <1>6, <1>7, OrderAnswered

\* The device at the start of a file.
LEMMA DeviceBegins ==
  ASSUME NEW p \in Paths, NEW left \in Nat
  PROVE  LET next == [NoTransfer EXCEPT !.pc = "recv", !.path = p, !.left = left]
         IN /\ next \in Device /\ next.pc = "recv" /\ next.path = p /\ next.left = left
            /\ next.seen = <<>> /\ next.buf = <<>>
<1>1. PICK paths : Paths \subseteq paths /\ Device = DeviceOf(paths)
  BY DeviceIs
<1> DEFINE none == <<>>
<1>2. NoTransfer \in Device /\ NoTransfer.buf = none /\ NoTransfer.seen = none
  BY AtRest
<1> HIDE DEF none
<1>3. "recv" \in DevSteps
  BY DEF DevSteps
<1>4. LET next == [NoTransfer EXCEPT !.pc = "recv", !.path = p, !.left = left]
      IN /\ next \in Device /\ next.pc = "recv" /\ next.path = p /\ next.left = left
         /\ next.seen = none /\ next.buf = none
  BY <1>1, <1>2, <1>3 DEF DeviceOf
<1> QED
  BY <1>4 DEF none

\* A file begins to arrive.
LEMMA BeginFileKeeps ==
  ASSUME CableInv, BeginFile
  PROVE  CableInv'
<1> DEFINE p == Named[1]
<1> DEFINE left == Head(toDev).v[1]
<1> DEFINE none == <<>>
<1>1. /\ dev.pc = "idle" /\ toDev # <<>> /\ Head(toDev).k = "W" /\ toDev' = Tail(toDev)
      /\ host' = host /\ ops' = ops
      /\ NoFault \/ Fault("create")
      /\ \/ /\ toHost' = Append(toHost, Line("READY"))
            /\ card' = [card EXCEPT ![p] = none] /\ torn' = TornBut(p)
            /\ dev' = [NoTransfer EXCEPT !.pc = "recv", !.path = p, !.left = left]
         \/ /\ toHost' = Append(toHost, Line("ERR"))
            /\ card' = card /\ torn' = torn /\ dev' = dev
  BY DEF BeginFile, Hears, Taken, DevKeeps, Reply
<1>2. /\ p \in Paths /\ left \in Nat /\ left >= 1 /\ toDev' \in Seq(Messages)
      /\ host.pc # "off" =>
           /\ toDev' = <<>> /\ Len(toDev') = 0 /\ host.pc = "ready" /\ p = host.path
           /\ \A j \in 1 .. Len(toHost) : toHost[j].k = "STATUS"
  BY <1>1, OrderTaken DEF Orders
<1>3. /\ Len(toDev') = Len(toDev) - 1 /\ Len(toDev) \in Nat
      /\ \A j \in 1 .. Len(toDev') : j + 1 \in 1 .. Len(toDev) /\ toDev'[j] = toDev[j + 1]
  BY <1>1, MessageTaken
<1>4. faults' \in 0 .. MaxFaults
  BY <1>1, FaultCounted
<1>5. Head(toDev).k \in Orders
  BY <1>1 DEF Orders
<1> HIDE DEF p, left
<1>6. CASE toHost' = Append(toHost, Line("ERR")) /\ card' = card /\ torn' = torn /\ dev' = dev
  <2>1. card' \in [Paths -> Seq(Nat)] /\ torn' \subseteq Paths \X Causes
    BY <1>6, Types
  <2>2. WholeFiles'
    BY <1>6, FilesStay
  <2> QED BY <1>1, <1>4, <1>5, <1>6, <2>1, <2>2, OrderAnswered
<1>7. CASE /\ toHost' = Append(toHost, Line("READY"))
           /\ card' = [card EXCEPT ![p] = none] /\ torn' = TornBut(p)
           /\ dev' = [NoTransfer EXCEPT !.pc = "recv", !.path = p, !.left = left]
  <2>1. none \in Seq(Nat) /\ none \o none = none /\ Len(none) = 0
    <3>1. <<>> \in Seq(Nat) /\ Len(<<>>) = 0
      BY EmptySeq
    <3> QED BY <3>1, ConcatEmptySeq
  <2>2. LET next == [NoTransfer EXCEPT !.pc = "recv", !.path = p, !.left = left]
        IN /\ next \in Device /\ next.pc = "recv" /\ next.path = p /\ next.left = left
           /\ next.seen = none /\ next.buf = none
    BY <1>2, DeviceBegins
  <2> HIDE DEF none
  <2>3. /\ dev' \in Device /\ dev'.pc = "recv" /\ dev'.path = p /\ dev'.left = left
        /\ dev'.seen = none /\ dev'.buf = none
    BY <1>7, <2>2
  <2>4. Line("READY") \in Messages /\ Line("READY").k = "READY"
    BY LineType DEF Kinds
  <2>5. /\ toHost' \in Seq(Messages) /\ Len(toHost') = Len(toHost) + 1 /\ Len(toHost) \in Nat
        /\ \A j \in 1 .. Len(toHost') :
             \/ j \in 1 .. Len(toHost) /\ toHost'[j] = toHost[j]
             \/ toHost'[j].k = "READY" /\ j = Len(toHost')
    BY <1>7, <2>4, AnswerSent
  <2>6. card \in [Paths -> Seq(Nat)] /\ torn \subseteq Paths \X Causes
    BY Types
  <2>7. card' \in [Paths -> Seq(Nat)] /\ torn' \subseteq Paths \X Causes /\ card'[p] = none
    BY <1>2, <1>7, <2>1, <2>6 DEF TornBut
  <2>8. CableTyped'
    <3>1. host \in Host /\ ops \in 0 .. MaxOps
      BY Types
    <3> QED BY <1>1, <1>2, <1>4, <2>3, <2>5, <2>7, <3>1 DEF CableTyped
  <2>9. WireSound'
    BY <1>3, <2>5, ZenonT(60) DEF CableInv, WireSound, Orders
  <2>10. Midway'
    BY <1>2, <2>1, <2>3, <2>7, Positive DEF Midway
  <2>11. WholeFiles'
    BY <1>1, <1>2, <1>7, <2>3, <2>6, StillTorn DEF CableInv, WholeFiles
  <2>12. Ordered'
    BY <1>1, <1>2 DEF Ordered
  <2>13. Together'
    BY <1>1, <1>2, <2>3, <2>5 DEF Together
  <2>14. Answered'
    BY <1>1, <1>2, <2>5 DEF CableInv, Answered, Sent, Fetching
  <2>15. Reported'
    BY <1>1, <1>2 DEF CableInv, Reported, StoredWhole, ReceivedWhole
  <2> QED
    BY <2>8, <2>9, <2>10, <2>11, <2>12, <2>13, <2>14, <2>15 DEF CableInv
<1> QED
  BY <1>1, <1>6, <1>7

\* While the device is in the middle of something no command is on its way to it.
LEMMA NoOrders ==
  ASSUME CableInv, host.pc # "off", dev.pc \notin Idle
  PROVE  \A i \in 1 .. Len(toDev) : toDev[i].k \notin Orders
BY DEF CableInv, Ordered, Idle

\* What is left of a file cut off.
LEMMA CutIsFile ==
  ASSUME NEW data \in Seq(Nat), NEW left \in CutOff(data)
  PROVE  left \in Seq(Nat)
<1>1. PICK n \in 0 .. Len(data) : left = SubSeq(data, 1, n)
  BY DEF CutOff
<1>2. n \in Int /\ Len(data) \in Nat
  BY <1>1, LenProperties
<1>3. \A i \in 1 .. n : data[i] \in Nat
  BY <1>1, <1>2, ElementOfSeq
<1>4. SubSeq(data, 1, n) \in Seq(Nat)
  BY <1>2, <1>3, SubSeqProperties
<1> QED BY <1>1, <1>4

\* With another name of which part may be left.
LEMMA TornGrows ==
  ASSUME NEW p \in Paths, NEW cause \in Causes, torn \subseteq Paths \X Causes,
         torn' = torn \cup {<<p, cause>>}
  PROVE  torn' \subseteq Paths \X Causes /\ Torn' = Torn \cup {p}
<1>1. <<p, cause>> \in Paths \X Causes /\ <<p, cause>>[1] = p
  OBVIOUS
<1>2. torn' \subseteq Paths \X Causes
  BY <1>1
<1>3. \A t \in torn' : t \in torn \/ t = <<p, cause>>
  OBVIOUS
<1>4. <<p, cause>> \in torn' /\ \A t \in torn : t \in torn'
  OBVIOUS
<1> DEFINE new == <<p, cause>>
<1>5. new[1] = p /\ new \in torn' /\ \A t \in torn' : t \in torn \/ t = new
  BY <1>1, <1>3, <1>4
<1> HIDE DEF new
<1>6. Torn' = Torn \cup {p}
  BY <1>4, <1>5 DEF Torn
<1> QED BY <1>2, <1>6

\* The device is done with a file: it is gone, or part of it may be left.
GoneOrPart(p) ==
  \/ card' = [card EXCEPT ![p] = Absent] /\ torn' = torn
  \/ /\ \E left \in Seq(Nat) : card' = [card EXCEPT ![p] = left]
     /\ torn' = torn \cup {<<p, "card">>}

\* Giving up a file ends in one of the two.
LEMMA Abandoned ==
  ASSUME CableInv, NEW data \in Seq(Nat),
         Abandon(NoFault, data) \/ Abandon(Fault("write"), data)
  PROVE  /\ GoneOrPart(dev.path) /\ dev' = NoTransfer /\ toHost' = Append(toHost, Line("ERR"))
         /\ NoFault \/ Fault("write") \/ Fault("remove")
<1>1. /\ \/ (NoFault \/ Fault("write")) /\ Discard(dev.path)
         \/ LeavePart("remove", data)
      /\ dev' = NoTransfer /\ toHost' = Append(toHost, Line("ERR"))
  BY DEF Abandon, Reply
<1>2. CASE (NoFault \/ Fault("write")) /\ Discard(dev.path)
  BY <1>1, <1>2 DEF Discard, GoneOrPart
<1>3. CASE LeavePart("remove", data)
  <2>1. PICK left \in CutOff(data) : card' = [card EXCEPT ![dev.path] = left]
    BY <1>3 DEF LeavePart
  <2>2. torn' = torn \cup {<<dev.path, "card">>} /\ Fault("remove")
    BY <1>3 DEF LeavePart
  <2> QED BY <1>1, <2>1, <2>2, CutIsFile DEF GoneOrPart
<1> QED BY <1>1, <1>2, <1>3

\* The files, when the device is done with one.
LEMMA GoneOrPartKeeps ==
  ASSUME CableInv, NEW p \in Paths, GoneOrPart(p)
  PROVE  /\ card' \in [Paths -> Seq(Nat)] /\ torn' \subseteq Paths \X Causes
         /\ \A x \in Paths \ Torn' :
              card'[x] = Absent \/ (x # p /\ x \notin Torn /\ card'[x] = card[x])
<1>1. card \in [Paths -> Seq(Nat)] /\ torn \subseteq Paths \X Causes /\ Absent \in Seq(Nat)
  BY Types, Positive
<1>2. CASE card' = [card EXCEPT ![p] = Absent] /\ torn' = torn
  BY <1>1, <1>2 DEF Torn
<1>3. CASE /\ \E left \in Seq(Nat) : card' = [card EXCEPT ![p] = left]
           /\ torn' = torn \cup {<<p, "card">>}
  <2>1. PICK left \in Seq(Nat) : card' = [card EXCEPT ![p] = left]
    BY <1>3
  <2>2. card' \in [Paths -> Seq(Nat)] /\ \A x \in Paths : x # p => card'[x] = card[x]
    BY <1>1, <2>1
  <2>3. torn' \subseteq Paths \X Causes /\ p \in Torn' /\ Torn \subseteq Torn'
    <3>1. "card" \in Causes
      BY DEF Causes
    <3> QED BY <1>1, <1>3, <3>1, TornGrows
  <2> QED BY <2>2, <2>3
<1> QED BY <1>2, <1>3 DEF GoneOrPart

\* The device gives up a file it was receiving.
LEMMA AbandonKeeps ==
  ASSUME CableInv, dev.pc \in {"recv", "crc"}, GoneOrPart(dev.path), dev' = NoTransfer,
         toHost' = Append(toHost, Line("ERR")),
         host' = host, ops' = ops, faults' \in 0 .. MaxFaults,
         toDev' \in Seq(Messages),
         \A i \in 1 .. Len(toDev') : \E j \in 1 .. Len(toDev) : toDev'[i] = toDev[j]
  PROVE  CableInv'
<1> DEFINE p == dev.path
<1>1. /\ GoneOrPart(p) /\ dev' = NoTransfer /\ toHost' = Append(toHost, Line("ERR"))
  OBVIOUS
<1>2. p \in Paths
  BY DEF CableInv, Midway
<1>3. /\ dev' \in Device /\ dev'.pc = "idle" /\ Len(dev'.buf) = 0
  <2>1. NoTransfer \in Device /\ NoTransfer.pc = "idle" /\ NoTransfer.buf = <<>>
    BY AtRest
  <2>2. Len(<<>>) = 0
    BY NothingOn
  <2> QED BY <1>1, <2>1, <2>2
<1>4. /\ toHost' \in Seq(Messages) /\ Len(toHost) \in Nat
      /\ \A j \in 1 .. Len(toHost') :
           \/ j \in 1 .. Len(toHost) /\ toHost'[j] = toHost[j]
           \/ toHost'[j].k = "ERR"
  <2>1. Line("ERR") \in Messages /\ Line("ERR").k = "ERR"
    BY LineType DEF Kinds
  <2> QED BY <1>1, <2>1, AnswerSent
<1>5. /\ host.pc # "off" =>
           /\ host.pc \in {"ready", "ack", "ok"}
           /\ \A j \in 1 .. Len(toHost) : toHost[j].k # "OK"
  BY DEF CableInv, Together
<1> HIDE DEF p
<1>6. /\ card' \in [Paths -> Seq(Nat)] /\ torn' \subseteq Paths \X Causes
      /\ \A x \in Paths \ Torn' :
           card'[x] = Absent \/ (x # p /\ x \notin Torn /\ card'[x] = card[x])
      /\ host \in Host /\ ops \in 0 .. MaxOps /\ dev.path = p
  BY <1>1, <1>2, GoneOrPartKeeps, Types DEF p
<1>7. CableTyped'
  BY <1>3, <1>4, <1>6 DEF CableTyped
<1>8. WireSound'
  BY <1>4, ZenonT(60) DEF CableInv, WireSound, Orders
<1>9. Midway'
  BY <1>3, Positive DEF Midway
<1>10. WholeFiles'
  BY <1>6 DEF CableInv, WholeFiles
<1>11. Ordered'
  <2>1. host.pc # "off" => \A i \in 1 .. Len(toDev) : toDev[i].k \notin Orders
    BY NoOrders DEF Idle
  <2> QED BY <2>1 DEF Ordered
<1>12. Together'
  BY <1>3 DEF Together
<1>13. Answered'
  BY <1>4, <1>5 DEF CableInv, Answered, Sent, Fetching
<1>14. Reported'
  BY <1>5 DEF CableInv, Reported, StoredWhole, ReceivedWhole
<1> QED
  BY <1>7, <1>8, <1>9, <1>10, <1>11, <1>12, <1>13, <1>14 DEF CableInv

\* The device with one more chunk.
Received(d, buf, seen, left, pc) ==
  [d EXCEPT !.buf = buf, !.seen = seen, !.left = left, !.pc = pc]

\* It is a device.
LEMMA DeviceReceives ==
  ASSUME NEW d \in Device, NEW kept \in Seq(Nat), NEW counted \in Seq(Nat), NEW ahead \in Nat,
         NEW step \in DevSteps
  PROVE  LET after == Received(d, kept, counted, ahead, step)
         IN /\ after \in Device /\ after.pc = step /\ after.path = d.path /\ after.left = ahead
            /\ after.seen = counted /\ after.buf = kept
<1>1. PICK paths : Paths \subseteq paths /\ Device = DeviceOf(paths)
  BY DeviceIs
<1> QED
  BY <1>1 DEF DeviceOf, Received

\* Three sequences of chunks in a row.
LEMMA Regroups ==
  ASSUME NEW a \in Seq(Nat), NEW b \in Seq(Nat), NEW c \in Seq(Nat)
  PROVE  (a \o b) \o c = a \o (b \o c)
BY ConcatAssociative

ChunkTaken(v, full) ==
  /\ card' = (IF full THEN [card EXCEPT ![dev.path] = @ \o (dev.buf \o v)] ELSE card)
  /\ dev' = Received(dev, IF full THEN <<>> ELSE dev.buf \o v, dev.seen \o v,
                     dev.left - 1, IF dev.left = 1 THEN "crc" ELSE dev.pc)

\* A chunk arrives: it is counted, and written with those gathered before it or kept.
LEMMA ChunkKept ==
  ASSUME CableInv, dev.pc = "recv", NEW v \in Seq(Nat), NEW full \in BOOLEAN,
         full <=> BufferFull(dev.buf \o v), ChunkTaken(v, full)
  PROVE  /\ card' \in [Paths -> Seq(Nat)] /\ dev' \in Device
         /\ dev'.pc \in {"recv", "crc"} /\ dev'.path = dev.path
         /\ Midway'
         /\ \A x \in Paths \ {dev.path} : card'[x] = card[x]
<1> DEFINE p == dev.path
<1> DEFINE none == <<>>
<1> DEFINE gathered == dev.buf \o v
<1> DEFINE buf == IF full THEN none ELSE gathered
<1> DEFINE seen == dev.seen \o v
<1> DEFINE left == dev.left - 1
<1> DEFINE pc == IF dev.left = 1 THEN "crc" ELSE dev.pc
<1> DEFINE more == card[p] \o gathered
<1>1. /\ p \in Paths /\ card[p] \o dev.buf = dev.seen /\ dev.left >= 1
  BY DEF CableInv, Midway
<1>2. card \in [Paths -> Seq(Nat)] /\ dev \in Device
      /\ dev.left \in Nat /\ dev.seen \in Seq(Nat) /\ dev.buf \in Seq(Nat)
  BY Types, DeviceFields
<1>3. card[p] \in Seq(Nat)
  BY <1>1, <1>2
<1>4. gathered \in Seq(Nat) /\ seen \in Seq(Nat)
  BY <1>2, ConcatProperties
<1>5. (card[p] \o dev.buf) \o v = card[p] \o (dev.buf \o v)
  <2> DEFINE held == card[p]
  <2> DEFINE had == dev.buf
  <2>1. held \in Seq(Nat) /\ had \in Seq(Nat) /\ v \in Seq(Nat)
    BY <1>2, <1>3
  <2> HIDE DEF held, had
  <2>2. (held \o had) \o v = held \o (had \o v)
    BY <2>1, Regroups
  <2> QED BY <2>2 DEF held, had
<1>6. more = seen
  BY <1>1, <1>5
<1>7. none \in Seq(Nat) /\ Len(none) = 0
  BY EmptySeq
<1>8. more \o none = more
  <2>1. more \in Seq(Nat)
    BY <1>4, <1>6
  <2> HIDE DEF more
  <2>2. more \o <<>> = more
    BY <2>1, ConcatEmptySeq
  <2> QED BY <2>2
<1>9. Len(gathered) \in Nat /\ (~full => Len(gathered) < Coalesce)
  <2>1. Len(gathered) \in Nat
    BY <1>4, LenProperties
  <2> QED BY <2>1, Positive DEF BufferFull
<1>10. left \in Nat
  BY <1>1, <1>2
<1>11. pc \in DevSteps /\ pc \in {"recv", "crc"} /\ (pc = "recv" => left >= 1)
  BY <1>1, <1>2 DEF DevSteps
<1>12. card' = (IF full THEN [card EXCEPT ![p] = more] ELSE card)
  BY DEF ChunkTaken
<1> DEFINE next == Received(dev, buf, seen, left, pc)
<1>18. dev' = next
  BY DEF ChunkTaken
<1> HIDE DEF pc, left, none, gathered, seen, more, p
<1>13. buf \in Seq(Nat) /\ Len(buf) < Coalesce
  BY <1>4, <1>7, <1>9, Positive
<1> HIDE DEF buf
<1>14. /\ dev' \in Device /\ dev'.pc = pc /\ dev'.path = p /\ dev'.left = left
       /\ dev'.seen = seen /\ dev'.buf = buf
  <2>1. /\ next \in Device /\ next.pc = pc /\ next.path = dev.path /\ next.left = left
        /\ next.seen = seen /\ next.buf = buf
    <3>1. dev \in Device /\ buf \in Seq(Nat) /\ seen \in Seq(Nat) /\ left \in Nat /\ pc \in DevSteps
      BY <1>2, <1>4, <1>10, <1>11, <1>13
    <3> QED BY <3>1, DeviceReceives, SMTT(30)
  <2> HIDE DEF next
  <2> QED BY <1>18, <2>1 DEF p
<1>15. card' \in [Paths -> Seq(Nat)] /\ \A x \in Paths \ {p} : card'[x] = card[x]
  BY <1>1, <1>2, <1>4, <1>6, <1>12
<1>16. card'[p] \o buf = seen
  <2>1. CASE full
    <3>1. card'[p] = more /\ buf = none
      BY <1>1, <1>2, <1>12, <2>1 DEF buf
    <3> QED BY <1>6, <1>8, <3>1
  <2>2. CASE ~full
    <3>1. card'[p] = card[p] /\ buf = gathered
      BY <1>12, <2>2 DEF buf
    <3> QED BY <1>6, <3>1 DEF more
  <2> QED BY <2>1, <2>2
<1>17. Midway'
  BY <1>1, <1>11, <1>13, <1>14, <1>16 DEF Midway
<1> QED
  BY <1>11, <1>14, <1>15, <1>17 DEF p

\* A chunk of a file arrives.
LEMMA ReceiveChunkKeeps ==
  ASSUME CableInv, ReceiveChunk
  PROVE  CableInv'
<1> DEFINE v == Head(toDev).v
<1> DEFINE full == BufferFull(dev.buf \o v)
<1>1. /\ dev.pc = "recv" /\ toDev # <<>> /\ Head(toDev).k = "data" /\ toDev' = Tail(toDev)
      /\ host' = host /\ ops' = ops
  BY DEF ReceiveChunk, Hears, Taken, DevKeeps
<1>2. /\ toDev' \in Seq(Messages) /\ Len(toDev) >= 1 /\ Len(toDev') = Len(toDev) - 1
      /\ Head(toDev) = toDev[1] /\ toDev[1] \in Messages
      /\ \A j \in 1 .. Len(toDev') : j + 1 \in 1 .. Len(toDev) /\ toDev'[j] = toDev[j + 1]
  BY <1>1, MessageTaken
<1>3. v \in Seq(Nat) /\ full \in BOOLEAN
  BY <1>2 DEF Messages, BufferFull
<1>4. \/ /\ ChunkTaken(v, full) /\ toHost' = Append(toHost, Line("ack")) /\ NoFault
         /\ torn' = torn
      \/ Abandon(Fault("write"), card[dev.path] \o (dev.buf \o v))
  BY DEF ReceiveChunk, Reply, Received, ChunkTaken
<1>5. full <=> BufferFull(dev.buf \o v)
  OBVIOUS
<1> HIDE DEF v, full
<1>7. CASE Abandon(Fault("write"), card[dev.path] \o (dev.buf \o v))
  <2>1. \A i \in 1 .. Len(toDev') : \E j \in 1 .. Len(toDev) : toDev'[i] = toDev[j]
    BY <1>2
  <2>2. card[dev.path] \o (dev.buf \o v) \in Seq(Nat)
    <3>1. dev.path \in Paths /\ card \in [Paths -> Seq(Nat)] /\ dev.buf \in Seq(Nat)
      BY <1>1, Types, DeviceFields DEF CableInv, Midway
    <3>2. card[dev.path] \in Seq(Nat) /\ dev.buf \o v \in Seq(Nat)
      BY <1>3, <3>1, ConcatProperties
    <3> QED BY <3>2, ConcatProperties
  <2>3. /\ GoneOrPart(dev.path) /\ dev' = NoTransfer /\ toHost' = Append(toHost, Line("ERR"))
        /\ NoFault \/ Fault("write") \/ Fault("remove")
    BY <1>7, <2>2, Abandoned
  <2>4. faults' \in 0 .. MaxFaults
    BY <2>3, FaultCounted
  <2> QED BY <1>1, <1>2, <2>1, <2>3, <2>4, AbandonKeeps
<1>8. CASE /\ ChunkTaken(v, full) /\ toHost' = Append(toHost, Line("ack")) /\ NoFault
           /\ torn' = torn
  <2>12. faults' \in 0 .. MaxFaults
    BY <1>8, FaultCounted
  <2>1. /\ card' \in [Paths -> Seq(Nat)] /\ dev' \in Device
        /\ dev'.pc \in {"recv", "crc"} /\ dev'.path = dev.path
        /\ Midway'
        /\ \A x \in Paths \ {dev.path} : card'[x] = card[x]
    BY <1>1, <1>3, <1>5, <1>8, ChunkKept
  <2>2. Line("ack") \in Messages /\ Line("ack").k = "ack"
    BY LineType DEF Kinds
  <2>3. /\ toHost' \in Seq(Messages) /\ Len(toHost) \in Nat
        /\ \A j \in 1 .. Len(toHost') :
             \/ j \in 1 .. Len(toHost) /\ toHost'[j] = toHost[j]
             \/ toHost'[j].k = "ack"
    BY <1>8, <2>2, AnswerSent
  <2>4. host.pc # "off" =>
          /\ host.pc \in {"ack", "ok"} /\ dev.path = host.path
          /\ host.pc = "ack" => \A i \in 1 .. Len(toDev) : toDev[i].k = "data"
          /\ host.pc = "ok" => host.n # 0
          /\ \A j \in 1 .. Len(toHost) : toHost[j].k = "ack"
    BY <1>1 DEF CableInv, Together
  <2>5. CableTyped'
    <3>1. host \in Host /\ ops \in 0 .. MaxOps /\ torn \subseteq Paths \X Causes
      BY Types
    <3> QED BY <1>1, <1>2, <1>8, <2>1, <2>3, <2>12, <3>1 DEF CableTyped
  <2>6. WireSound'
    BY <1>2, <2>3, ZenonT(60) DEF CableInv, WireSound, Orders
  <2>7. WholeFiles'
    BY <1>1, <1>8, <2>1 DEF CableInv, WholeFiles, Torn
  <2>8. Ordered'
    <3>1. host.pc # "off" => \A i \in 1 .. Len(toDev) : toDev[i].k \notin Orders
      BY <1>1, NoOrders DEF Idle
    <3> QED BY <1>1, <1>2, <3>1 DEF Ordered
  <2>9. Together'
    BY <1>1, <1>2, <2>1, <2>3, <2>4 DEF Together
  <2>10. Answered'
    BY <1>1, <1>8, <2>3, <2>4 DEF CableInv, Answered, Sent, Fetching
  <2>11. Reported'
    BY <1>1, <2>4 DEF CableInv, Reported, StoredWhole, ReceivedWhole
  <2> QED
    BY <2>1, <2>5, <2>6, <2>7, <2>8, <2>9, <2>10, <2>11 DEF CableInv
<1> QED
  BY <1>4, <1>7, <1>8

\* The checksum arrives.  It is of the file the tool sends: if it matches, what has been
\* counted is that file, and so is what is then on the card.
LEMMA EndFileKeeps ==
  ASSUME CableInv, EndFile
  PROVE  CableInv'
<1> DEFINE p == dev.path
<1>1. /\ dev.pc = "crc" /\ toDev # <<>> /\ Head(toDev).k = "crc" /\ toDev' = Tail(toDev)
      /\ host' = host /\ ops' = ops
  BY DEF EndFile, Hears, Taken, DevKeeps
<1>2. /\ toDev' \in Seq(Messages) /\ Len(toDev) >= 1 /\ Len(toDev') = Len(toDev) - 1
      /\ Head(toDev) = toDev[1] /\ 1 \in 1 .. Len(toDev)
      /\ \A j \in 1 .. Len(toDev') : j + 1 \in 1 .. Len(toDev) /\ toDev'[j] = toDev[j + 1]
  BY <1>1, MessageTaken
<1>3. Head(toDev).v = Source
  BY <1>1, <1>2 DEF CableInv, WireSound
<1>10. dev.path \in Paths /\ card[dev.path] \in Seq(Nat) /\ dev.buf \in Seq(Nat)
  BY <1>1, Types, DeviceFields DEF CableInv, Midway
<1>4. CASE ~ChecksumMatches
  <2>4. Abandon(NoFault, card[dev.path])
    BY <1>4 DEF EndFile
  <2>1. /\ GoneOrPart(dev.path) /\ dev' = NoTransfer /\ toHost' = Append(toHost, Line("ERR"))
        /\ NoFault \/ Fault("write") \/ Fault("remove")
    BY <1>10, <2>4, Abandoned
  <2>2. \A i \in 1 .. Len(toDev') : \E j \in 1 .. Len(toDev) : toDev'[i] = toDev[j]
    BY <1>2
  <2>3. faults' \in 0 .. MaxFaults
    BY <2>1, FaultCounted
  <2> QED BY <1>1, <1>2, <2>1, <2>2, <2>3, AbandonKeeps
<1>5. CASE ChecksumMatches
  <2>19. /\ \/ card' = [card EXCEPT ![p] = @ \o dev.buf] /\ NoFault /\ torn' = torn
            \/ Fault("flush") /\ card' = [card EXCEPT ![p] = Absent] /\ torn' = torn
            \/ LeavePart("remove", Flushed[p])
            \/ LeavePart("close", Flushed[p])
         /\ dev' = NoTransfer /\ toHost' = Append(toHost, Line("OK"))
    BY <1>5 DEF EndFile, Flushed, Reply, Discard
  <2>1. /\ \/ card' = [card EXCEPT ![p] = @ \o dev.buf] /\ torn' = torn
           \/ GoneOrPart(p)
        /\ dev' = NoTransfer /\ toHost' = Append(toHost, Line("OK"))
        /\ NoFault \/ Fault("flush") \/ Fault("remove") \/ Fault("close")
    <3>1. Flushed[p] \in Seq(Nat)
      <4>1. Flushed[p] = card[p] \o dev.buf
        BY <1>10, Types DEF Flushed
      <4> QED BY <1>10, <4>1, ConcatProperties
    <3>2. ASSUME LeavePart("remove", Flushed[p]) \/ LeavePart("close", Flushed[p])
          PROVE  GoneOrPart(p) /\ (Fault("remove") \/ Fault("close"))
      <4>1. PICK left \in CutOff(Flushed[p]) : card' = [card EXCEPT ![p] = left]
        BY <3>2 DEF LeavePart
      <4>2. torn' = torn \cup {<<p, "card">>} /\ (Fault("remove") \/ Fault("close"))
        BY <3>2 DEF LeavePart
      <4> QED BY <3>1, <4>1, <4>2, CutIsFile DEF GoneOrPart
    <3> QED BY <2>19, <3>2 DEF GoneOrPart
  <2>2. p \in Paths /\ card[p] \o dev.buf = Source
    BY <1>1, <1>3, <1>5 DEF CableInv, Midway, ChecksumMatches
  <2>3. faults' \in 0 .. MaxFaults
    BY <2>1, FaultCounted
  <2>4. /\ dev' \in Device /\ dev'.pc = "idle" /\ Len(dev'.buf) = 0
    <3>1. NoTransfer \in Device /\ NoTransfer.pc = "idle" /\ NoTransfer.buf = <<>>
      BY AtRest
    <3>2. Len(<<>>) = 0
      BY NothingOn
    <3> QED BY <2>1, <3>1, <3>2
  <2>5. Line("OK") \in Messages /\ Line("OK").k = "OK"
    BY LineType DEF Kinds
  <2>6. /\ toHost' \in Seq(Messages) /\ Len(toHost) \in Nat
        /\ \A j \in 1 .. Len(toHost') :
             \/ j \in 1 .. Len(toHost) /\ toHost'[j] = toHost[j]
             \/ toHost'[j].k = "OK"
    BY <2>1, <2>5, AnswerSent
  <2>7. host.pc # "off" => host.pc = "ok" /\ p = host.path
    BY <1>1, <1>2 DEF CableInv, Together
  <2>8. /\ card \in [Paths -> Seq(Nat)] /\ torn \subseteq Paths \X Causes /\ host \in Host
        /\ ops \in 0 .. MaxOps /\ Absent \in Seq(Nat) /\ Source \in Seq(Nat)
    BY Types, Positive
  <2>9. p = dev.path
    OBVIOUS
  <2> HIDE DEF p
  <2>10. /\ card' \in [Paths -> Seq(Nat)] /\ torn' \subseteq Paths \X Causes
         /\ card'[p] \in {Source, Absent} \/ <<p, "card">> \in torn'
         /\ \A x \in Paths \ Torn' :
              card'[x] \in {Source, Absent} \/ (x # p /\ x \notin Torn /\ card'[x] = card[x])
    <3>1. CASE card' = [card EXCEPT ![p] = @ \o dev.buf] /\ torn' = torn
      <4>1. card' = [card EXCEPT ![p] = Source]
        BY <2>2, <2>8, <3>1
      <4>2. card' \in [Paths -> Seq(Nat)] /\ \A x \in Paths : card'[x] = IF x = p THEN Source ELSE card[x]
        BY <2>2, <2>8, <4>1
      <4>3. Torn' = Torn
        BY <3>1 DEF Torn
      <4> QED BY <2>2, <2>8, <3>1, <4>2, <4>3
    <3>2. CASE GoneOrPart(p)
      <4>1. /\ card' \in [Paths -> Seq(Nat)] /\ torn' \subseteq Paths \X Causes
            /\ \A x \in Paths \ Torn' :
                 card'[x] = Absent \/ (x # p /\ x \notin Torn /\ card'[x] = card[x])
        BY <2>2, <3>2, GoneOrPartKeeps
      <4>2. card'[p] \in {Source, Absent} \/ <<p, "card">> \in torn'
        <5>1. CASE card' = [card EXCEPT ![p] = Absent]
          <6>1. card'[p] = Absent
            BY <2>2, <2>8, <5>1
          <6> QED BY <6>1
        <5>2. CASE torn' = torn \cup {<<p, "card">>}
          <6>1. <<p, "card">> \in torn'
            BY <5>2
          <6> QED BY <6>1
        <5> QED BY <3>2, <5>1, <5>2 DEF GoneOrPart
      <4> QED BY <4>1, <4>2
    <3> QED BY <2>1, <3>1, <3>2
  <2>11. CableTyped'
    BY <1>1, <1>2, <2>3, <2>4, <2>6, <2>8, <2>10 DEF CableTyped
  <2>12. WireSound'
    BY <1>2, <2>6, ZenonT(60) DEF CableInv, WireSound, Orders
  <2>13. Midway'
    BY <2>4, Positive DEF Midway
  <2>14. WholeFiles'
    BY <1>1, <2>9, <2>10 DEF CableInv, WholeFiles
  <2>15. Ordered'
    <3>1. host.pc # "off" => \A i \in 1 .. Len(toDev) : toDev[i].k \notin Orders
      BY <1>1, NoOrders DEF Idle
    <3> QED BY <1>1, <1>2, <3>1 DEF Ordered
  <2>16. Together'
    BY <2>4 DEF Together
  <2>17. Answered'
    BY <1>1, <2>4, <2>7, <2>10 DEF CableInv, Answered, Sent, Fetching, Idle
  <2>18. Reported'
    BY <1>1, <2>7 DEF CableInv, Reported, StoredWhole, ReceivedWhole
  <2> QED
    BY <2>11, <2>12, <2>13, <2>14, <2>15, <2>16, <2>17, <2>18 DEF CableInv
<1> QED
  BY <1>4, <1>5

\* A byte does not come.
LEMMA DevGivesUpKeeps ==
  ASSUME CableInv, DevGivesUp
  PROVE  CableInv'
<1>1. /\ toDev = <<>> /\ toDev' = toDev /\ host' = host /\ ops' = ops
      /\ \/ dev.pc \in {"recv", "crc"} /\ Abandon(NoFault, card[dev.path])
         \/ /\ dev.pc = "send" /\ dev' = NoTransfer /\ card' = card /\ torn' = torn
            /\ toHost' = toHost /\ NoFault
  BY DEF DevGivesUp, DevTimeout, DevKeeps
<1>2. toDev \in Seq(Messages) /\ Len(toDev) = 0
  BY <1>1, NothingOn
<1>4. CASE dev.pc \in {"recv", "crc"} /\ Abandon(NoFault, card[dev.path])
  <2>1. card[dev.path] \in Seq(Nat)
    BY <1>4, Types DEF CableInv, Midway
  <2>2. /\ GoneOrPart(dev.path) /\ dev' = NoTransfer /\ toHost' = Append(toHost, Line("ERR"))
        /\ NoFault \/ Fault("write") \/ Fault("remove")
    BY <1>4, <2>1, Abandoned
  <2>3. faults' \in 0 .. MaxFaults
    BY <2>2, FaultCounted
  <2> QED BY <1>1, <1>2, <1>4, <2>2, <2>3, AbandonKeeps
<1>5. CASE /\ dev.pc = "send" /\ dev' = NoTransfer /\ card' = card /\ torn' = torn
           /\ toHost' = toHost /\ NoFault
  <2>10. faults' \in 0 .. MaxFaults
    BY <1>5, NoFaultCounted
  <2>1. /\ dev' \in Device /\ dev'.pc = "idle" /\ Len(dev'.buf) = 0
    <3>1. NoTransfer \in Device /\ NoTransfer.pc = "idle" /\ NoTransfer.buf = <<>>
      BY AtRest
    <3>2. Len(<<>>) = 0
      BY NothingOn
    <3> QED BY <1>5, <3>1, <3>2
  <2>2. CableTyped'
    BY <1>1, <1>5, <2>1, <2>10 DEF CableInv, CableTyped
  <2>3. WireSound'
    BY <1>1, <1>5 DEF CableInv, WireSound
  <2>4. Midway'
    BY <2>1, Positive DEF Midway
  <2>5. WholeFiles'
    BY <1>1, <1>5 DEF CableInv, WholeFiles, Torn
  <2>6. Ordered'
    BY <1>1, <1>2 DEF Ordered
  <2>7. Together'
    BY <2>1 DEF Together
  <2>8. Answered'
    BY <1>1, <1>5 DEF CableInv, Answered, Sent, Together, Fetching
  <2>9. Reported'
    BY <1>1, <1>5 DEF CableInv, Reported, StoredWhole, ReceivedWhole
  <2> QED BY <2>2, <2>3, <2>4, <2>5, <2>6, <2>7, <2>8, <2>9 DEF CableInv
<1> QED
  BY <1>1, <1>4, <1>5

\* The start of a download: its size and what follows, a chunk or its checksum.
LEMMA StartSent ==
  ASSUME CableInv, NEW n \in Nat, NEW m \in Messages,
         toHost' = toHost \o Append(<<Line("READY"), Message("size", <<>>, <<n>>)>>, m)
  PROVE  /\ toHost' \in Seq(Messages) /\ Len(toHost) \in Nat
         /\ \A j \in 1 .. Len(toHost') :
              \/ j \in 1 .. Len(toHost) /\ toHost'[j] = toHost[j]
              \/ toHost'[j].k = "READY"
              \/ toHost'[j].k = "size" /\ Len(toHost'[j].v) = 1
              \/ toHost'[j] = m
<1> DEFINE a == Line("READY")
<1> DEFINE none == <<>>
<1> DEFINE one == <<n>>
<1> DEFINE b == Message("size", none, one)
<1> DEFINE two == <<a, b>>
<1> DEFINE q == Append(two, m)
<1>1. a \in Messages /\ a.k = "READY"
  BY LineType DEF Kinds
<1>2. none \in Seq(Paths) /\ one \in Seq(Nat) /\ Len(one) = 1
  BY EmptySeq
<1>3. toHost' = toHost \o q
  OBVIOUS
<1> HIDE DEF a, none, one
<1>4. b \in Messages /\ b.k = "size" /\ b.v = one
  BY <1>2, MessageType DEF Kinds
<1> HIDE DEF b
<1>5. two \in Seq(Messages) /\ Len(two) = 2 /\ two[1] = a /\ two[2] = b
  BY <1>1, <1>4
<1> HIDE DEF two
<1>6. q \in Seq(Messages) /\ Len(q) = 3 /\ q[1] = a /\ q[2] = b /\ q[3] = m
  <2>1. /\ Append(two, m) \in Seq(Messages) /\ Len(Append(two, m)) = Len(two) + 1
        /\ \A i \in 1 .. Len(two) : Append(two, m)[i] = two[i]
        /\ Append(two, m)[Len(two) + 1] = m
    BY <1>5, SentOn
  <2> QED BY <1>5, <2>1
<1> HIDE DEF q
<1>7. toHost \in Seq(Messages) /\ Len(toHost) \in Nat
  BY Types
<1>8. /\ toHost' \in Seq(Messages) /\ Len(toHost') = Len(toHost) + 3
      /\ \A j \in 1 .. Len(toHost) + 3 :
           toHost'[j] = IF j <= Len(toHost) THEN toHost[j] ELSE q[j - Len(toHost)]
  BY <1>3, <1>6, <1>7, ConcatProperties
<1>9. ASSUME NEW j \in 1 .. Len(toHost')
      PROVE  \/ j \in 1 .. Len(toHost) /\ toHost'[j] = toHost[j]
             \/ toHost'[j].k = "READY"
             \/ toHost'[j].k = "size" /\ Len(toHost'[j].v) = 1
             \/ toHost'[j] = m
  <2>1. \/ j <= Len(toHost)
        \/ j > Len(toHost) /\ j - Len(toHost) \in {1, 2, 3}
    BY <1>7, <1>8
  <2>2. CASE j <= Len(toHost)
    BY <1>7, <1>8, <2>2
  <2>3. CASE j > Len(toHost) /\ j - Len(toHost) \in {1, 2, 3}
    <3>1. toHost'[j] \in {a, b, m}
      BY <1>6, <1>7, <1>8, <2>3
    <3> QED BY <1>1, <1>2, <1>4, <3>1
  <2> QED BY <2>1, <2>2, <2>3
<1> QED
  BY <1>7, <1>8, <1>9

Sending(file, ahead) == [NoTransfer EXCEPT !.pc = "send", !.data = file, !.left = ahead]

\* The device at the start of a download.
LEMMA DeviceSends ==
  ASSUME NEW file \in Seq(Nat), NEW ahead \in Nat
  PROVE  LET after == Sending(file, ahead)
         IN /\ after \in Device /\ after.pc = "send" /\ after.data = file
            /\ after.left = ahead /\ Len(after.buf) = 0
<1>1. PICK paths : Paths \subseteq paths /\ Device = DeviceOf(paths)
  BY DeviceIs
<1> DEFINE none == <<>>
<1>2. NoTransfer \in Device /\ NoTransfer.buf = none
  BY AtRest
<1> HIDE DEF none
<1>3. "send" \in DevSteps
  BY DEF DevSteps
<1> DEFINE after == [NoTransfer EXCEPT !.pc = "send", !.data = file, !.left = ahead]
<1>4. /\ after \in Device /\ after.pc = "send" /\ after.data = file /\ after.left = ahead
      /\ after.buf = none
  BY <1>1, <1>2, <1>3 DEF DeviceOf
<1>5. Sending(file, ahead) = after
  BY DEF Sending
<1> HIDE DEF after
<1>6. Len(after.buf) = 0
  BY <1>4, NothingOn DEF none
<1> QED
  BY <1>4, <1>5, <1>6

\* A chunk of a file as a message.
LEMMA PieceType ==
  ASSUME NEW data \in Seq(Nat), NEW n \in 1 .. Len(data)
  PROVE  Piece(data, n) \in Messages /\ Piece(data, n).k = "data"
<1> DEFINE none == <<>>
<1> DEFINE one == <<data[n]>>
<1>1. data[n] \in Nat
  BY ElementOfSeq
<1>2. none \in Seq(Paths) /\ one \in Seq(Nat)
  BY <1>1, EmptySeq
<1>3. Piece(data, n) = Message("data", none, one)
  BY DEF Piece
<1> HIDE DEF none, one
<1> QED
  BY <1>2, <1>3, MessageType DEF Kinds

\* A file as the checksum over it.
LEMMA ChecksumType ==
  ASSUME NEW data \in Seq(Nat)
  PROVE  /\ Message("crc", <<>>, data) \in Messages
         /\ Message("crc", <<>>, data).k = "crc" /\ Message("crc", <<>>, data).v = data
<1> DEFINE none == <<>>
<1>1. none \in Seq(Paths)
  BY EmptySeq
<1> HIDE DEF none
<1>2. /\ Message("crc", none, data) \in Messages
      /\ Message("crc", none, data).k = "crc" /\ Message("crc", none, data).v = data
  BY <1>1, MessageType DEF Kinds
<1> QED
  BY <1>2 DEF none

\* A download begins.
LEMMA BeginReadKeeps ==
  ASSUME CableInv, BeginRead
  PROVE  CableInv'
<1> DEFINE p == Named[1]
<1> DEFINE data == card[p]
<1> DEFINE none == <<>>
<1>1. /\ dev.pc = "idle" /\ toDev # <<>> /\ Head(toDev).k = "T" /\ toDev' = Tail(toDev)
      /\ host' = host /\ ops' = ops /\ card' = card /\ torn' = torn /\ NoFault
  BY DEF BeginRead, Hears, Taken, DevKeeps
<1>2. \/ toHost' = Append(toHost, Line("ERR")) /\ dev' = dev
      \/ /\ data = none
         /\ toHost' = toHost \o Append(<<Line("READY"), Message("size", <<>>, <<Len(data)>>)>>,
                                       Message("crc", <<>>, none))
         /\ dev' = dev
      \/ /\ data # none
         /\ toHost' = toHost \o Append(<<Line("READY"), Message("size", <<>>, <<Len(data)>>)>>,
                                       Piece(data, 1))
         /\ dev' = [NoTransfer EXCEPT !.pc = "send", !.data = data, !.left = Len(data)]
  BY DEF BeginRead, Reply
<1>3. Head(toDev).k \in Orders
  BY <1>1 DEF Orders
<1>4. /\ p \in Paths /\ toDev' \in Seq(Messages)
      /\ host.pc # "off" =>
           /\ toDev' = <<>> /\ Len(toDev') = 0 /\ host.pc = "getReady" /\ p = host.path
           /\ \A j \in 1 .. Len(toHost) : toHost[j].k = "STATUS"
  BY <1>1, <1>3, OrderTaken
<1>5. /\ Len(toDev') = Len(toDev) - 1 /\ Len(toDev) \in Nat
      /\ \A j \in 1 .. Len(toDev') : j + 1 \in 1 .. Len(toDev) /\ toDev'[j] = toDev[j + 1]
  BY <1>1, MessageTaken
<1>6. faults' \in 0 .. MaxFaults
  BY <1>1, NoFaultCounted
<1> HIDE DEF p
<1>7. card \in [Paths -> Seq(Nat)] /\ torn \subseteq Paths \X Causes /\ host \in Host /\ dev \in Device
      /\ ops \in 0 .. MaxOps
  BY Types
<1>8. data \in Seq(Nat) /\ Len(data) \in Nat /\ none \in Seq(Nat)
      /\ (data # none => Len(data) >= 1)
  BY <1>4, <1>7, EmptySeq, LenProperties
<1>9. host.pc # "off" => data = card[host.path]
  BY <1>4
<1>10. ASSUME NEW m \in Messages,
              toHost' = toHost \o Append(<<Line("READY"), Message("size", <<>>, <<Len(data)>>)>>, m),
              m.k \in {"crc", "data"}, m.k = "crc" => m.v = data /\ dev' = dev,
              dev' \in Device, dev' = dev \/ dev'.pc = "send",
              dev'.pc = "send" => /\ dev'.left \in 1 .. Len(dev'.data) /\ dev'.data = data
                                  /\ Len(dev'.buf) = 0
       PROVE  CableInv'
  <2> HIDE DEF data, none
  <2>1. /\ toHost' \in Seq(Messages) /\ Len(toHost) \in Nat
        /\ \A j \in 1 .. Len(toHost') :
             \/ j \in 1 .. Len(toHost) /\ toHost'[j] = toHost[j]
             \/ toHost'[j].k = "READY"
             \/ toHost'[j].k = "size" /\ Len(toHost'[j].v) = 1
             \/ toHost'[j] = m
    BY <1>8, <1>10, StartSent
  <2>2. CableTyped'
    BY <1>1, <1>4, <1>6, <1>7, <1>10, <2>1 DEF CableTyped
  <2>3. WireSound'
    BY <1>5, <1>10, <2>1 DEF CableInv, WireSound, Orders
  <2>4. Midway'
    <3>1. CASE dev' = dev
      BY <1>1, <3>1, FilesStay
    <3>2. CASE dev'.pc = "send"
      BY <1>10, <3>2, Positive DEF Midway
    <3> QED BY <1>10, <3>1, <3>2
  <2>5. WholeFiles'
    BY <1>1 DEF CableInv, WholeFiles, Torn
  <2>6. Ordered'
    BY <1>1, <1>4 DEF Ordered
  <2>7. Together'
    <3>1. ASSUME host.pc # "off", dev'.pc = "send"
          PROVE  /\ host.pc = "getReady" /\ dev'.data = card[host.path]
                 /\ \A j \in 1 .. Len(toHost') : toHost'[j].k \notin {"ERR", "crc"}
      BY <1>1, <1>4, <1>9, <1>10, <2>1, <3>1
    <3>2. dev'.pc \notin {"recv", "crc"}
      BY <1>1, <1>10
    <3> QED BY <1>1, <3>1, <3>2 DEF Together, Fetching
  <2>8. Answered'
    <3>1. ASSUME host.pc # "off", NEW j \in 1 .. Len(toHost'), toHost'[j].k = "crc"
          PROVE  toHost'[j].v = card[host.path]
      BY <1>4, <1>9, <1>10, <2>1, <3>1
    <3> QED BY <1>1, <1>4, <3>1 DEF CableInv, Answered, Sent, Fetching
  <2>9. Reported'
    BY <1>1, <1>4 DEF CableInv, Reported, StoredWhole, ReceivedWhole
  <2> QED
    BY <2>2, <2>3, <2>4, <2>5, <2>6, <2>7, <2>8, <2>9 DEF CableInv
<1>11. CASE toHost' = Append(toHost, Line("ERR")) /\ dev' = dev
  <2>1. WholeFiles'
    BY <1>1, <1>11, FilesStay
  <2>2. card' \in [Paths -> Seq(Nat)] /\ torn' \subseteq Paths \X Causes
    BY <1>1, <1>7
  <2> QED
    BY <1>1, <1>3, <1>6, <1>11, <2>1, <2>2, OrderAnswered
<1>12. CASE /\ data = none
            /\ toHost' = toHost \o Append(<<Line("READY"), Message("size", <<>>, <<Len(data)>>)>>,
                                          Message("crc", <<>>, none))
            /\ dev' = dev
  <2> DEFINE m == Message("crc", <<>>, none)
  <2>1. m \in Messages /\ m.k = "crc" /\ m.v = data
    BY <1>8, <1>12, ChecksumType
  <2>2. toHost' = toHost \o Append(<<Line("READY"), Message("size", <<>>, <<Len(data)>>)>>, m)
    BY <1>12
  <2> HIDE DEF m, data, none
  <2>3. dev'.pc # "send" /\ dev' \in Device /\ dev' = dev
    BY <1>1, <1>7, <1>12
  <2> QED BY <1>10, <2>1, <2>2, <2>3
<1>13. CASE /\ data # none
            /\ toHost' = toHost \o Append(<<Line("READY"), Message("size", <<>>, <<Len(data)>>)>>,
                                          Piece(data, 1))
            /\ dev' = [NoTransfer EXCEPT !.pc = "send", !.data = data, !.left = Len(data)]
  <2> DEFINE m == Piece(data, 1)
  <2>1. 1 \in 1 .. Len(data)
    BY <1>8, <1>13
  <2>2. toHost' = toHost \o Append(<<Line("READY"), Message("size", <<>>, <<Len(data)>>)>>, m)
    BY <1>13
  <2> HIDE DEF data, none
  <2>3. m \in Messages /\ m.k = "data"
    BY <1>8, <2>1, PieceType
  <2> HIDE DEF m
  <2>4. dev' = Sending(data, Len(data))
    BY <1>13 DEF Sending
  <2>5. /\ dev' \in Device /\ dev'.pc = "send" /\ dev'.data = data /\ dev'.left = Len(data)
        /\ Len(dev'.buf) = 0
    BY <1>8, <2>4, DeviceSends
  <2>6. dev'.left \in 1 .. Len(dev'.data)
    BY <1>8, <2>1, <2>5
  <2> QED BY <1>10, <2>2, <2>3, <2>5, <2>6
<1> QED
  BY <1>2, <1>11, <1>12, <1>13

\* The device goes on with a download.
LEMMA SendingKeeps ==
  ASSUME CableInv, dev.pc = "send", toDev # <<>>, toDev' = Tail(toDev),
         host' = host, ops' = ops, card' = card, torn' = torn, faults' \in 0 .. MaxFaults,
         dev' \in Device, Len(dev'.buf) < Coalesce,
         \/ dev'.pc = "idle"
         \/ dev'.pc = "send" /\ dev'.data = dev.data /\ dev'.left \in 1 .. Len(dev.data),
         NEW m \in Messages, toHost' \in {toHost, Append(toHost, m)},
         \/ m.k = "data"
         \/ m.k = "crc" /\ m.v = dev.data /\ dev'.pc = "idle"
  PROVE  CableInv'
<1>1. /\ toDev' \in Seq(Messages) /\ Len(toDev') = Len(toDev) - 1 /\ Len(toDev) \in Nat
      /\ \A j \in 1 .. Len(toDev') : j + 1 \in 1 .. Len(toDev) /\ toDev'[j] = toDev[j + 1]
  BY MessageTaken
<1>2. /\ toHost' \in Seq(Messages) /\ Len(toHost) \in Nat
      /\ \A j \in 1 .. Len(toHost') :
           \/ j \in 1 .. Len(toHost) /\ toHost'[j] = toHost[j]
           \/ toHost'[j] = m
  <2>1. CASE toHost' = toHost
    BY <2>1, Types
  <2>2. CASE toHost' = Append(toHost, m)
    BY <2>2, AnswerSent
  <2> QED BY <2>1, <2>2
<1>3. host.pc # "off" =>
        /\ host.pc \in Fetching /\ dev.data = card[host.path]
        /\ \A j \in 1 .. Len(toHost) : toHost[j].k \notin {"ERR", "crc"}
  BY DEF CableInv, Together
<1>4. CableTyped'
  BY <1>1, <1>2 DEF CableInv, CableTyped
<1>5. WireSound'
  BY <1>1, <1>2 DEF CableInv, WireSound, Orders
<1>6. Midway'
  BY DEF CableInv, Midway
<1>7. WholeFiles'
  BY DEF CableInv, WholeFiles, Torn
<1>8. Ordered'
  <2>1. host.pc # "off" => \A i \in 1 .. Len(toDev) : toDev[i].k \notin Orders
    BY NoOrders DEF Idle
  <2> QED BY <1>1, <2>1 DEF Ordered
<1>9. Together'
  <2>1. ASSUME host.pc # "off", dev'.pc = "send"
        PROVE  \A j \in 1 .. Len(toHost') : toHost'[j].k \notin {"ERR", "crc"}
    BY <1>2, <1>3, <2>1
  <2> QED BY <1>3, <2>1 DEF Together
<1>10. Answered'
  <2>1. ASSUME host.pc # "off", NEW j \in 1 .. Len(toHost'), toHost'[j].k = "crc"
        PROVE  toHost'[j].v = card[host.path]
    BY <1>2, <1>3, <2>1
  <2> QED BY <1>3, <2>1 DEF CableInv, Answered, Sent, Fetching
<1>11. Reported'
  BY DEF CableInv, Reported, StoredWhole, ReceivedWhole
<1> QED
  BY <1>4, <1>5, <1>6, <1>7, <1>8, <1>9, <1>10, <1>11 DEF CableInv

\* The device with a chunk less to send.
LEMMA DeviceSent ==
  ASSUME NEW d \in Device, NEW left \in Nat
  PROVE  LET next == [d EXCEPT !.left = left]
         IN /\ next \in Device /\ next.pc = d.pc /\ next.data = d.data /\ next.left = left
            /\ next.buf = d.buf
<1>1. PICK paths : Paths \subseteq paths /\ Device = DeviceOf(paths)
  BY DeviceIs
<1> QED
  BY <1>1 DEF DeviceOf

\* A chunk was acknowledged.
LEMMA ReadChunkKeeps ==
  ASSUME CableInv, ReadChunk
  PROVE  CableInv'
<1> DEFINE data == dev.data
<1> DEFINE next == Len(data) - dev.left + 2
<1> DEFINE less == dev.left - 1
<1>1. /\ dev.pc = "send" /\ toDev # <<>> /\ toDev' = Tail(toDev)
      /\ host' = host /\ ops' = ops /\ card' = card /\ torn' = torn
      /\ NoFault \/ Fault("read")
  BY DEF ReadChunk, Hears, Taken, DevKeeps
<1>2. \/ /\ dev' = NoTransfer
         /\ toHost' \in {toHost, Append(toHost, Message("crc", <<>>, data))}
      \/ /\ dev.left # 1 /\ toHost' = Append(toHost, Piece(data, next))
         /\ dev' = [dev EXCEPT !.left = less]
  BY DEF ReadChunk
<1>3. faults' \in 0 .. MaxFaults
  BY <1>1, FaultCounted
<1>4. /\ data \in Seq(Nat) /\ dev.left \in Nat /\ Len(data) \in Nat /\ dev \in Device
      /\ dev.left \in 1 .. Len(data) /\ Len(dev.buf) < Coalesce
  BY <1>1, Types, DeviceFields, LenProperties DEF CableInv, Midway
<1>5. dev.left # 1 => next \in 1 .. Len(data) /\ less \in 1 .. Len(data) /\ less \in Nat
  <2> DEFINE l == Len(data)
             left == dev.left
  <2>1. l \in Nat /\ left \in 1 .. l
    BY <1>4
  <2> HIDE DEF l, left
  <2>2. left # 1 => l - left + 2 \in 1 .. l /\ left - 1 \in 1 .. l /\ left - 1 \in Nat
    BY <2>1
  <2> QED BY <2>2 DEF l, left, next, less
<1> HIDE DEF next, less
<1>6. CASE /\ dev' = NoTransfer
           /\ toHost' \in {toHost, Append(toHost, Message("crc", <<>>, data))}
  <2> DEFINE m == Message("crc", <<>>, data)
  <2>1. m \in Messages /\ m.k = "crc" /\ m.v = dev.data
    BY <1>4, ChecksumType
  <2>2. dev' \in Device /\ dev'.pc = "idle" /\ Len(dev'.buf) < Coalesce
    <3>1. NoTransfer \in Device /\ NoTransfer.pc = "idle" /\ NoTransfer.buf = <<>>
      BY AtRest
    <3>2. Len(<<>>) = 0 /\ 0 < Coalesce
      BY NothingOn, Positive
    <3> QED BY <1>6, <3>1, <3>2
  <2>3. toHost' \in {toHost, Append(toHost, m)}
    BY <1>6
  <2> HIDE DEF m
  <2> QED BY <1>1, <1>3, <2>1, <2>2, <2>3, SendingKeeps
<1>7. CASE /\ dev.left # 1 /\ toHost' = Append(toHost, Piece(data, next))
           /\ dev' = [dev EXCEPT !.left = less]
  <2> DEFINE m == Piece(data, next)
  <2>1. m \in Messages /\ m.k = "data"
    BY <1>4, <1>5, <1>7, PieceType
  <2>2. LET d == [dev EXCEPT !.left = less]
        IN /\ d \in Device /\ d.pc = dev.pc /\ d.data = dev.data /\ d.left = less
           /\ d.buf = dev.buf
    BY <1>4, <1>5, <1>7, DeviceSent
  <2>3. /\ dev' \in Device /\ dev'.pc = "send" /\ dev'.data = dev.data /\ dev'.left = less
        /\ dev'.buf = dev.buf
    BY <1>1, <1>7, <2>2
  <2>4. toHost' \in {toHost, Append(toHost, m)}
    BY <1>7
  <2> HIDE DEF m
  <2> QED BY <1>1, <1>3, <1>4, <1>5, <1>7, <2>1, <2>3, <2>4, SendingKeeps
<1> QED
  BY <1>2, <1>6, <1>7

-----------------------------------------------------------------------------
(* The link, the screen and resets.                                        *)

\* The link drops what is first on a wire, or spoils a chunk of a file: what is left
\* is as it was sent, but for the contents of chunks.
LEMMA LinkKeeps ==
  ASSUME CableInv, card' = card, torn' = torn, dev' = dev, host' = host, ops' = ops,
         faults' \in 0 .. MaxFaults,
         toDev' \in Seq(Messages), toHost' \in Seq(Messages),
         NEW a \in Nat, NEW b \in Nat, Len(toDev') = Len(toDev) - a,
         Len(toHost') = Len(toHost) - b,
         \A i \in 1 .. Len(toDev') :
           /\ toDev'[i].k = toDev[i + a].k /\ toDev'[i].p = toDev[i + a].p
           /\ toDev'[i].k # "data" => toDev'[i].v = toDev[i + a].v,
         \A i \in 1 .. Len(toHost') :
           /\ toHost'[i].k = toHost[i + b].k
           /\ toHost'[i].k # "data" => toHost'[i].v = toHost[i + b].v
  PROVE  CableInv'
<1>1. /\ Len(toDev) \in Nat /\ Len(toHost) \in Nat
      /\ Len(toDev') \in Nat /\ Len(toHost') \in Nat
  BY Types, LenProperties
<1>2. /\ \A i \in 1 .. Len(toDev') : i + a \in 1 .. Len(toDev)
      /\ \A i \in 1 .. Len(toHost') : i + b \in 1 .. Len(toHost)
  BY <1>1
<1>3. CableTyped'
  BY DEF CableInv, CableTyped
<1>4. WireSound'
  <2>1. ASSUME NEW i \in 1 .. Len(toDev')
        PROVE  /\ toDev'[i].k = "crc" => toDev'[i].v = Source
               /\ toDev'[i].k \in Orders => Len(toDev'[i].p) >= 1
               /\ toDev'[i].k = "N" => Len(toDev'[i].p) = 2
               /\ toDev'[i].k = "W" => Len(toDev'[i].v) = 1 /\ toDev'[i].v[1] >= 1
    BY <1>2, <2>1, ZenonT(60) DEF CableInv, WireSound
  <2>2. ASSUME NEW j \in 1 .. Len(toHost')
        PROVE  toHost'[j].k = "size" => Len(toHost'[j].v) = 1
    BY <1>2, <2>2 DEF CableInv, WireSound
  <2> QED BY <2>1, <2>2 DEF WireSound
<1>5. Midway' /\ WholeFiles'
  BY FilesStay
<1>6. Ordered'
  <2>1. SUFFICES ASSUME host.pc # "off", dev.pc # "away",
                        NEW i \in 1 .. Len(toDev'), toDev'[i].k \in Orders
                 PROVE  /\ i = Len(toDev') /\ dev.pc = "idle"
                        /\ toDev'[i].k = "W" => host.pc = "ready" /\ toDev'[i].p[1] = host.path
                        /\ toDev'[i].k = "T" =>
                             host.pc = "getReady" /\ toDev'[i].p[1] = host.path
                        /\ toDev'[i].k \in {"R", "N"} => host.pc = "ok" /\ host.n = 0
                        /\ \A j \in 1 .. Len(toHost') : toHost'[j].k = "STATUS"
    BY DEF Ordered
  <2> DEFINE m == toDev[i + a]
  <2>2. i + a \in 1 .. Len(toDev) /\ m.k \in Orders /\ m.k = toDev'[i].k /\ m.p = toDev'[i].p
    BY <1>2, <2>1
  <2>3. /\ i + a = Len(toDev) /\ dev.pc = "idle"
        /\ m.k = "W" => host.pc = "ready" /\ m.p[1] = host.path
        /\ m.k = "T" => host.pc = "getReady" /\ m.p[1] = host.path
        /\ m.k \in {"R", "N"} => host.pc = "ok" /\ host.n = 0
        /\ \A j \in 1 .. Len(toHost) : toHost[j].k = "STATUS"
    BY <2>1, <2>2 DEF CableInv, Ordered
  <2> HIDE DEF m
  <2>4. i = Len(toDev')
    BY <1>1, <2>1, <2>3
  <2>5. \A j \in 1 .. Len(toHost') : toHost'[j].k = "STATUS"
    BY <1>2, <2>3
  <2> QED BY <2>2, <2>3, <2>4, <2>5
<1>7. Together'
  <2>1. SUFFICES ASSUME host.pc # "off" PROVE Together'
    BY DEF Together
  <2>2. ASSUME dev.pc \in {"recv", "crc"}
        PROVE  /\ host.pc \in {"ready", "ack", "ok"} /\ dev.path = host.path
               /\ host.pc = "ready" =>
                    /\ toDev' = <<>>
                    /\ \A j \in 1 .. Len(toHost') :
                         toHost'[j].k = "STATUS"
                         \/ (toHost'[j].k = "READY" /\ j = Len(toHost'))
               /\ host.pc = "ack" => \A i \in 1 .. Len(toDev') : toDev'[i].k = "data"
               /\ host.pc = "ok" => host.n # 0
               /\ host.pc \in {"ack", "ok"} =>
                    \A j \in 1 .. Len(toHost') : toHost'[j].k = "ack"
    <3>1. /\ host.pc \in {"ready", "ack", "ok"} /\ dev.path = host.path
          /\ host.pc = "ready" =>
               /\ toDev = <<>>
               /\ \A j \in 1 .. Len(toHost) :
                    toHost[j].k = "STATUS" \/ (toHost[j].k = "READY" /\ j = Len(toHost))
          /\ host.pc = "ack" => \A i \in 1 .. Len(toDev) : toDev[i].k = "data"
          /\ host.pc = "ok" => host.n # 0
          /\ host.pc \in {"ack", "ok"} => \A j \in 1 .. Len(toHost) : toHost[j].k = "ack"
      BY <2>1, <2>2 DEF CableInv, Together
    <3>2. toDev = <<>> => toDev' = <<>>
      <4>1. toDev = <<>> => Len(toDev') = 0
        BY <1>1, NothingOn
      <4> QED BY <4>1, EmptySeq
    <3>3. ASSUME host.pc = "ready", NEW j \in 1 .. Len(toHost')
          PROVE  toHost'[j].k = "STATUS" \/ (toHost'[j].k = "READY" /\ j = Len(toHost'))
      <4>1. \/ toHost[j + b].k = "STATUS"
            \/ toHost[j + b].k = "READY" /\ j + b = Len(toHost)
        BY <1>2, <3>1, <3>3
      <4>2. j + b = Len(toHost) => j = Len(toHost')
        <5> DEFINE n == Len(toHost)
        <5> DEFINE k == Len(toHost')
        <5>1. n \in Nat /\ k \in Nat /\ k = n - b /\ j \in Nat
          BY <1>1, <3>3
        <5> HIDE DEF n, k
        <5>2. j + b = n => j = k
          BY <5>1
        <5> QED BY <5>2 DEF n, k
      <4>3. toHost'[j].k = toHost[j + b].k
        BY <3>3
      <4> QED BY <4>1, <4>2, <4>3
    <3>4. host.pc = "ack" => \A i \in 1 .. Len(toDev') : toDev'[i].k = "data"
      BY <1>2, <3>1
    <3>5. host.pc \in {"ack", "ok"} => \A j \in 1 .. Len(toHost') : toHost'[j].k = "ack"
      BY <1>2, <3>1
    <3> QED BY <3>1, <3>2, <3>3, <3>4, <3>5
  <2>3. ASSUME dev.pc = "send"
        PROVE  /\ host.pc \in Fetching /\ dev.data = card[host.path]
               /\ \A j \in 1 .. Len(toHost') : toHost'[j].k \notin {"ERR", "crc"}
    BY <1>2, <2>1, <2>3 DEF CableInv, Together
  <2> QED BY <2>2, <2>3 DEF Together
<1>8. Answered'
  <2>1. host.pc \in {"ready", "ack"} => \A j \in 1 .. Len(toHost') : toHost'[j].k # "OK"
    BY <1>2 DEF CableInv, Answered, Sent
  <2>2. host.pc = "ok" /\ host.n # 0 =>
          \A j \in 1 .. Len(toHost') :
            toHost'[j].k = "OK" => dev.pc \in Idle /\ Sent(host.path)
    BY <1>2 DEF CableInv, Answered, Sent
  <2>3. host.pc \in Fetching =>
          \A j \in 1 .. Len(toHost') : toHost'[j].k = "crc" => toHost'[j].v = card[host.path]
    BY <1>2 DEF CableInv, Answered, Sent
  <2> QED BY <2>1, <2>2, <2>3 DEF CableInv, Answered, Sent
<1>9. Reported'
  BY DEF CableInv, Reported, StoredWhole, ReceivedWhole
<1> QED
  BY <1>3, <1>4, <1>5, <1>6, <1>7, <1>8, <1>9 DEF CableInv

\* A wire whose first message is gone.
LEMMA OneLost ==
  ASSUME NEW q \in Seq(Messages), q # <<>>
  PROVE  /\ Tail(q) \in Seq(Messages) /\ Len(Tail(q)) = Len(q) - 1
         /\ \A i \in 1 .. Len(Tail(q)) : Tail(q)[i] = q[i + 1]
BY TakenFrom

\* A wire whose first message, a chunk, is spoiled.
LEMMA OneSpoiled ==
  ASSUME NEW q \in Seq(Messages), Spoil(q)
  PROVE  LET r == [q EXCEPT ![1].v = <<Spoiled>>]
         IN /\ r \in Seq(Messages) /\ Len(r) = Len(q)
            /\ \A i \in 1 .. Len(q) :
                 /\ r[i].k = q[i].k /\ r[i].p = q[i].p
                 /\ r[i].k # "data" => r[i].v = q[i].v
<1> DEFINE bad == <<Spoiled>>
<1> DEFINE m == [q[1] EXCEPT !.v = bad]
<1> DEFINE r == [q EXCEPT ![1] = m]
<1>1. q # <<>> /\ Head(q).k = "data"
  BY DEF Spoil
<1>2. Head(q) = q[1] /\ q[1] \in Messages /\ Len(q) >= 1 /\ Len(q) \in Nat
  BY <1>1, TakenFrom, LenProperties
<1>3. bad \in Seq(Nat)
  BY DEF Spoiled
<1> HIDE DEF bad
<1>4. m \in Messages /\ m.k = "data" /\ m.p = q[1].p
  BY <1>1, <1>2, <1>3 DEF Messages
<1> HIDE DEF m
<1>5. /\ r \in Seq(Messages) /\ Len(r) = Len(q)
      /\ \A i \in 1 .. Len(q) : r[i] = IF i = 1 THEN m ELSE q[i]
  BY <1>2, <1>4, ExceptSeq
<1>6. r = [q EXCEPT ![1].v = <<Spoiled>>]
  BY DEF m, bad
<1> HIDE DEF r
<1>7. \A i \in 1 .. Len(q) :
        /\ r[i].k = q[i].k /\ r[i].p = q[i].p
        /\ r[i].k # "data" => r[i].v = q[i].v
  BY <1>1, <1>2, <1>4, <1>5
<1> QED
  BY <1>5, <1>6, <1>7, Zenon

\* What the link does.
LEMMA LinkStepKeeps ==
  ASSUME CableInv, Lose \/ Garble
  PROVE  CableInv'
<1>1. /\ card' = card /\ torn' = torn /\ dev' = dev /\ host' = host /\ ops' = ops
      /\ Fault("lose") \/ Fault("garble")
  BY DEF Lose, Garble, DevKeeps
<1>2. faults' \in 0 .. MaxFaults
  BY <1>1, FaultCounted
<1>3. /\ toDev \in Seq(Messages) /\ toHost \in Seq(Messages)
      /\ Len(toDev) \in Nat /\ Len(toHost) \in Nat /\ 0 \in Nat /\ 1 \in Nat
  BY Types
<1>4. \/ toDev # <<>> /\ toDev' = Tail(toDev) /\ toHost' = toHost
      \/ toHost # <<>> /\ toHost' = Tail(toHost) /\ toDev' = toDev
      \/ Spoil(toDev) /\ toDev' = [toDev EXCEPT ![1].v = <<Spoiled>>] /\ toHost' = toHost
      \/ Spoil(toHost) /\ toHost' = [toHost EXCEPT ![1].v = <<Spoiled>>] /\ toDev' = toDev
  BY Zenon DEF Lose, Garble
<1>5. \E a, b \in Nat :
        /\ toDev' \in Seq(Messages) /\ toHost' \in Seq(Messages)
        /\ Len(toDev') = Len(toDev) - a /\ Len(toHost') = Len(toHost) - b
        /\ \A i \in 1 .. Len(toDev') :
             /\ toDev'[i].k = toDev[i + a].k /\ toDev'[i].p = toDev[i + a].p
             /\ toDev'[i].k # "data" => toDev'[i].v = toDev[i + a].v
        /\ \A i \in 1 .. Len(toHost') :
             /\ toHost'[i].k = toHost[i + b].k
             /\ toHost'[i].k # "data" => toHost'[i].v = toHost[i + b].v
  <2>1. CASE toDev # <<>> /\ toDev' = Tail(toDev) /\ toHost' = toHost
    <3>1. /\ toDev' \in Seq(Messages) /\ Len(toDev') = Len(toDev) - 1
          /\ \A i \in 1 .. Len(toDev') : toDev'[i] = toDev[i + 1]
      BY <1>3, <2>1, OneLost
    <3>2. Len(toHost') = Len(toHost) - 0 /\ \A i \in 1 .. Len(toHost') : toHost'[i] = toHost[i + 0]
      BY <1>3, <2>1
    <3> QED BY <1>3, <2>1, <3>1, <3>2
  <2>2. CASE toHost # <<>> /\ toHost' = Tail(toHost) /\ toDev' = toDev
    <3>1. /\ toHost' \in Seq(Messages) /\ Len(toHost') = Len(toHost) - 1
          /\ \A i \in 1 .. Len(toHost') : toHost'[i] = toHost[i + 1]
      BY <1>3, <2>2, OneLost
    <3>2. Len(toDev') = Len(toDev) - 0 /\ \A i \in 1 .. Len(toDev') : toDev'[i] = toDev[i + 0]
      BY <1>3, <2>2
    <3> QED BY <1>3, <2>2, <3>1, <3>2
  <2>3. CASE Spoil(toDev) /\ toDev' = [toDev EXCEPT ![1].v = <<Spoiled>>] /\ toHost' = toHost
    <3> DEFINE r == [toDev EXCEPT ![1].v = <<Spoiled>>]
    <3>1. /\ r \in Seq(Messages) /\ Len(r) = Len(toDev)
          /\ \A i \in 1 .. Len(toDev) :
               /\ r[i].k = toDev[i].k /\ r[i].p = toDev[i].p
               /\ r[i].k # "data" => r[i].v = toDev[i].v
      BY <1>3, <2>3, OneSpoiled
    <3>2. toDev' = r /\ toHost' = toHost
      BY <2>3
    <3> HIDE DEF r
    <3>3. /\ Len(toHost') = Len(toHost) - 0 /\ Len(toDev') = Len(toDev) - 0
          /\ \A i \in 1 .. Len(toHost') : toHost'[i] = toHost[i + 0]
          /\ \A i \in 1 .. Len(toDev') : i + 0 = i
      BY <1>3, <3>1, <3>2
    <3>4. /\ toDev' \in Seq(Messages) /\ toHost' \in Seq(Messages)
          /\ Len(toDev') = Len(toDev) - 0 /\ Len(toHost') = Len(toHost) - 0
      BY <1>3, <3>1, <3>2, <3>3
    <3>5. \A i \in 1 .. Len(toDev') :
            /\ toDev'[i].k = toDev[i + 0].k /\ toDev'[i].p = toDev[i + 0].p
            /\ toDev'[i].k # "data" => toDev'[i].v = toDev[i + 0].v
      BY <1>3, <3>1, <3>2, <3>3
    <3>6. \A i \in 1 .. Len(toHost') :
            /\ toHost'[i].k = toHost[i + 0].k
            /\ toHost'[i].k # "data" => toHost'[i].v = toHost[i + 0].v
      BY <1>3, <3>1, <3>2, <3>3
    <3> QED BY <1>3, <3>4, <3>5, <3>6, Zenon
  <2>4. CASE Spoil(toHost) /\ toHost' = [toHost EXCEPT ![1].v = <<Spoiled>>] /\ toDev' = toDev
    <3> DEFINE r == [toHost EXCEPT ![1].v = <<Spoiled>>]
    <3>1. /\ r \in Seq(Messages) /\ Len(r) = Len(toHost)
          /\ \A i \in 1 .. Len(toHost) :
               /\ r[i].k = toHost[i].k /\ r[i].p = toHost[i].p
               /\ r[i].k # "data" => r[i].v = toHost[i].v
      BY <1>3, <2>4, OneSpoiled
    <3>2. toHost' = r /\ toDev' = toDev
      BY <2>4
    <3> HIDE DEF r
    <3>3. /\ Len(toHost') = Len(toHost) - 0 /\ Len(toDev') = Len(toDev) - 0
          /\ \A i \in 1 .. Len(toDev') : toDev'[i] = toDev[i + 0]
          /\ \A i \in 1 .. Len(toHost') : i + 0 = i
      BY <1>3, <3>1, <3>2
    <3>4. /\ toDev' \in Seq(Messages) /\ toHost' \in Seq(Messages)
          /\ Len(toDev') = Len(toDev) - 0 /\ Len(toHost') = Len(toHost) - 0
      BY <1>3, <3>1, <3>2, <3>3
    <3>5. \A i \in 1 .. Len(toDev') :
            /\ toDev'[i].k = toDev[i + 0].k /\ toDev'[i].p = toDev[i + 0].p
            /\ toDev'[i].k # "data" => toDev'[i].v = toDev[i + 0].v
      BY <1>3, <3>1, <3>2, <3>3
    <3>6. \A i \in 1 .. Len(toHost') :
            /\ toHost'[i].k = toHost[i + 0].k
            /\ toHost'[i].k # "data" => toHost'[i].v = toHost[i + 0].v
      BY <1>3, <3>1, <3>2, <3>3
    <3> QED BY <1>3, <3>4, <3>5, <3>6, Zenon
  <2> QED BY <1>4, <2>1, <2>2, <2>3, <2>4
<1>6. PICK a \in Nat, b \in Nat :
        /\ toDev' \in Seq(Messages) /\ toHost' \in Seq(Messages)
        /\ Len(toDev') = Len(toDev) - a /\ Len(toHost') = Len(toHost) - b
        /\ \A i \in 1 .. Len(toDev') :
             /\ toDev'[i].k = toDev[i + a].k /\ toDev'[i].p = toDev[i + a].p
             /\ toDev'[i].k # "data" => toDev'[i].v = toDev[i + a].v
        /\ \A i \in 1 .. Len(toHost') :
             /\ toHost'[i].k = toHost[i + b].k
             /\ toHost'[i].k # "data" => toHost'[i].v = toHost[i + b].v
  BY <1>5
<1> QED
  BY <1>1, <1>2, <1>6, LinkKeeps

\* The device back at one of its screens.
LEMMA DeviceAt ==
  ASSUME NEW screen \in Idle
  PROVE  LET next == [NoTransfer EXCEPT !.pc = screen]
         IN next \in Device /\ next.pc = screen /\ Len(next.buf) = 0
<1>1. PICK paths : Paths \subseteq paths /\ Device = DeviceOf(paths)
  BY DeviceIs
<1> DEFINE none == <<>>
<1>2. NoTransfer \in Device /\ NoTransfer.buf = none /\ Len(none) = 0
  BY AtRest, NothingOn
<1> HIDE DEF none
<1>3. screen \in DevSteps
  BY DEF DevSteps, Idle
<1> QED
  BY <1>1, <1>2, <1>3 DEF DeviceOf

\* The device is somewhere else, waiting for nothing, and has nothing to read; a file it
\* was receiving is cut off.
LEMMA ElsewhereKeeps ==
  ASSUME CableInv, NEW screen \in Idle, dev' = [NoTransfer EXCEPT !.pc = screen],
         toDev' = <<>>, ops' = ops, faults' \in 0 .. MaxFaults,
         \/ card' = card /\ torn' = torn /\ dev.pc \notin {"recv", "crc"}
         \/ /\ dev.pc \in {"recv", "crc"}
            /\ \E left \in Seq(Nat) : card' = [card EXCEPT ![dev.path] = left]
            /\ torn' = torn \cup {<<dev.path, "reset">>},
         \/ host' = host /\ toHost' = toHost
         \/ host' \in Host /\ host'.pc = "open" /\ host'.result = "none" /\ toHost' = <<>>
  PROVE  CableInv'
<1>1. /\ dev' \in Device /\ dev'.pc \in Idle /\ Len(dev'.buf) = 0
  <2>1. LET next == [NoTransfer EXCEPT !.pc = screen]
        IN next \in Device /\ next.pc = screen /\ Len(next.buf) = 0
    BY DeviceAt
  <2> QED BY <2>1
<1>2. toDev' \in Seq(Messages) /\ Len(toDev') = 0
  BY NothingOn
<1>3. card \in [Paths -> Seq(Nat)] /\ torn \subseteq Paths \X Causes /\ host \in Host
      /\ ops \in 0 .. MaxOps /\ toHost \in Seq(Messages)
  BY Types
<1>4. dev.pc \in {"recv", "crc"} => dev.path \in Paths
  BY DEF CableInv, Midway
<1>5. /\ card' \in [Paths -> Seq(Nat)] /\ torn' \subseteq Paths \X Causes /\ torn \subseteq torn'
      /\ \A x \in Paths \ Torn' :
           x \notin Torn /\ card'[x] = card[x] /\ (dev.pc \in {"recv", "crc"} => x # dev.path)
  <2>1. CASE card' = card /\ torn' = torn /\ dev.pc \notin {"recv", "crc"}
    BY <1>3, <2>1 DEF Torn
  <2>2. CASE /\ dev.pc \in {"recv", "crc"}
             /\ \E left \in Seq(Nat) : card' = [card EXCEPT ![dev.path] = left]
             /\ torn' = torn \cup {<<dev.path, "reset">>}
    <3>1. PICK left \in Seq(Nat) : card' = [card EXCEPT ![dev.path] = left]
      BY <2>2
    <3>2. dev.path \in Paths /\ "reset" \in Causes
      BY <1>4, <2>2 DEF Causes
    <3>3. torn' \subseteq Paths \X Causes /\ Torn' = Torn \cup {dev.path}
      BY <1>3, <2>2, <3>2, TornGrows
    <3>4. card' \in [Paths -> Seq(Nat)] /\ \A x \in Paths : x # dev.path => card'[x] = card[x]
      BY <1>3, <3>1, <3>2
    <3> QED BY <2>2, <3>3, <3>4
  <2> QED BY <2>1, <2>2
<1>6. host' \in Host /\ toHost' \in Seq(Messages) /\ (toHost' = toHost \/ Len(toHost') = 0)
  BY <1>3, NothingOn
<1>7. CableTyped'
  BY <1>1, <1>2, <1>3, <1>5, <1>6 DEF CableTyped
<1>8. WireSound'
  BY <1>2, <1>6 DEF CableInv, WireSound
<1>9. Midway'
  <2>1. dev'.pc \notin {"recv", "crc", "send"}
    BY <1>1 DEF Idle
  <2>2. Len(dev'.buf) < Coalesce
    BY <1>1, Positive
  <2> QED BY <2>1, <2>2 DEF Midway
<1>10. WholeFiles'
  BY <1>5 DEF CableInv, WholeFiles
<1>11. Ordered'
  BY <1>2 DEF Ordered
<1>12. Together'
  BY <1>1 DEF Together, Idle
<1>13. CASE host' = host /\ toHost' = toHost
  <2>1. ASSUME dev.pc \in {"recv", "crc"}, host.pc # "off"
        PROVE  /\ host.pc \in {"ready", "ack", "ok"}
               /\ \A j \in 1 .. Len(toHost) : toHost[j].k # "OK"
    BY <2>1 DEF CableInv, Together
  <2>2. Answered'
    <3>1. CASE dev.pc \in {"recv", "crc"}
      BY <1>1, <1>13, <2>1, <3>1 DEF CableInv, Answered, Sent, Fetching
    <3>2. CASE dev.pc \notin {"recv", "crc"}
      BY <1>1, <1>13, <3>2 DEF CableInv, Answered, Sent
    <3> QED BY <3>1, <3>2
  <2>3. Reported'
    <3>1. CASE dev.pc \in {"recv", "crc"}
      BY <1>13, <2>1, <3>1 DEF CableInv, Reported, StoredWhole, ReceivedWhole
    <3>2. CASE dev.pc \notin {"recv", "crc"}
      BY <1>13, <3>2 DEF CableInv, Reported, StoredWhole, ReceivedWhole
    <3> QED BY <3>1, <3>2
  <2> QED
    BY <1>7, <1>8, <1>9, <1>10, <1>11, <1>12, <2>2, <2>3 DEF CableInv
<1>14. CASE host'.pc = "open" /\ host'.result = "none"
  <2>1. Answered' /\ Reported'
    BY <1>14 DEF Answered, Sent, Reported, StoredWhole, ReceivedWhole, Fetching
  <2> QED
    BY <1>7, <1>8, <1>9, <1>10, <1>11, <1>12, <2>1 DEF CableInv
<1> QED
  BY <1>13, <1>14

\* The screen is entered and left.
LEMMA ScreenKeeps ==
  ASSUME CableInv, ScreenStep
  PROVE  CableInv'
<1>1. /\ dev.pc \in Idle /\ toDev' = <<>> /\ ops' = ops /\ faults' = faults
      /\ card' = card /\ torn' = torn /\ host' = host /\ toHost' = toHost
  BY DEF ScreenStep, EnterScreen, LeaveScreen, Idle
<1>2. \/ dev' = NoTransfer
      \/ dev' = [NoTransfer EXCEPT !.pc = "away"]
  BY DEF ScreenStep, EnterScreen, LeaveScreen
<1>3. NoTransfer = [NoTransfer EXCEPT !.pc = "idle"]
  <2>1. PICK paths : Paths \subseteq paths /\ Device = DeviceOf(paths)
    BY DeviceIs
  <2>2. NoTransfer \in Device /\ NoTransfer.pc = "idle"
    BY AtRest
  <2> QED BY <2>1, <2>2 DEF DeviceOf
<1>4. faults' \in 0 .. MaxFaults
  BY <1>1, Types
<1>5. CASE dev' = NoTransfer
  <2>1. "idle" \in Idle /\ dev' = [NoTransfer EXCEPT !.pc = "idle"]
    BY <1>3, <1>5 DEF Idle
  <2> QED BY <1>1, <1>4, <2>1, ElsewhereKeeps DEF Idle
<1>6. CASE dev' = [NoTransfer EXCEPT !.pc = "away"]
  <2>1. "away" \in Idle
    BY DEF Idle
  <2> QED BY <1>1, <1>4, <1>6, <2>1, ElsewhereKeeps DEF Idle
<1> QED
  BY <1>2, <1>5, <1>6

\* What a reset does to the file being received.
LEMMA ResetCutsOff ==
  ASSUME CableInv, NEW screen, ResetDevice(screen)
  PROVE  /\ dev' = [NoTransfer EXCEPT !.pc = screen] /\ toDev' = <<>>
         /\ \/ card' = card /\ torn' = torn /\ dev.pc \notin {"recv", "crc"}
            \/ /\ dev.pc \in {"recv", "crc"}
               /\ \E left \in Seq(Nat) : card' = [card EXCEPT ![dev.path] = left]
               /\ torn' = torn \cup {<<dev.path, "reset">>}
<1>1. dev' = [NoTransfer EXCEPT !.pc = screen] /\ toDev' = <<>>
  BY DEF ResetDevice
<1>2. CASE dev.pc \in {"recv", "crc"}
  <2>1. PICK left \in CutOff(card[dev.path]) : card' = [card EXCEPT ![dev.path] = left]
    BY <1>2 DEF ResetDevice
  <2>2. torn' = torn \cup {<<dev.path, "reset">>}
    BY <1>2 DEF ResetDevice
  <2>3. card[dev.path] \in Seq(Nat)
    BY <1>2, Types DEF CableInv, Midway
  <2>6. left \in Seq(Nat)
    BY <2>1, <2>3, CutIsFile
  <2> QED BY <1>1, <1>2, <2>1, <2>2, <2>6
<1>3. CASE dev.pc \notin {"recv", "crc"}
  BY <1>1, <1>3 DEF ResetDevice
<1> QED
  BY <1>2, <1>3

\* Opening the port, and a loss of power.
LEMMA ResetKeeps ==
  ASSUME CableInv, Open \/ PowerCut
  PROVE  CableInv'
<1>1. CASE Open
  <2> DEFINE screen == IF dev.pc = "away" THEN "away" ELSE "idle"
  <2>1. /\ ResetDevice(screen) /\ toHost' = <<>> /\ faults' = faults /\ ops' = ops
        /\ host' = [NoHost EXCEPT !.pc = "open"]
    BY <1>1 DEF Open
  <2>2. screen \in Idle
    BY DEF Idle
  <2> HIDE DEF screen
  <2>3. NoHost \in Host /\ NoHost.result = "none" /\ "open" \in HostSteps
    BY AtRest DEF HostSteps
  <2>4. /\ [NoHost EXCEPT !.pc = "open"] \in Host /\ [NoHost EXCEPT !.pc = "open"].pc = "open"
        /\ [NoHost EXCEPT !.pc = "open"].result = NoHost.result
    BY <2>3, HostMoves, Zenon
  <2>5. host' \in Host /\ host'.pc = "open" /\ host'.result = "none"
    BY <2>1, <2>3, <2>4
  <2>6. /\ dev' = [NoTransfer EXCEPT !.pc = screen] /\ toDev' = <<>>
        /\ \/ card' = card /\ torn' = torn /\ dev.pc \notin {"recv", "crc"}
           \/ /\ dev.pc \in {"recv", "crc"}
              /\ \E left \in Seq(Nat) : card' = [card EXCEPT ![dev.path] = left]
              /\ torn' = torn \cup {<<dev.path, "reset">>}
    BY <2>1, ResetCutsOff, Zenon
  <2>7. faults' \in 0 .. MaxFaults
    BY <2>1, Types
  <2> QED BY <2>1, <2>2, <2>5, <2>6, <2>7, ElsewhereKeeps, Zenon
<1>2. CASE PowerCut
  <2>1. /\ ResetDevice("away") /\ toHost' = toHost /\ ops' = ops /\ host' = host
        /\ Fault("power")
    BY <1>2 DEF PowerCut
  <2>2. "away" \in Idle
    BY DEF Idle
  <2>3. /\ dev' = [NoTransfer EXCEPT !.pc = "away"] /\ toDev' = <<>>
        /\ \/ card' = card /\ torn' = torn /\ dev.pc \notin {"recv", "crc"}
           \/ /\ dev.pc \in {"recv", "crc"}
              /\ \E left \in Seq(Nat) : card' = [card EXCEPT ![dev.path] = left]
              /\ torn' = torn \cup {<<dev.path, "reset">>}
    BY <2>1, ResetCutsOff, Zenon
  <2>4. faults' \in 0 .. MaxFaults
    BY <2>1, FaultCounted, Zenon
  <2> QED BY <2>1, <2>2, <2>3, <2>4, ElsewhereKeeps, Zenon
<1> QED
  BY <1>1, <1>2

\* An update reads the card and changes none of it.
LEMMA CardUntouched ==
  ASSUME FirmwareStep
  PROVE  card' = card
BY DEF FirmwareStep, ConfirmImage, RefuseFile, FlashFile, FlashChunk, FlashFails, FlashDone,
   BeginInstall, StreamChunk, WrongDevice, StreamFails, StreamDone, EraseEntry, WriteEntry,
   Restart, SelectsNothing

\* Steps that count a command and change nothing else here.
LEMMA CountedKeeps ==
  ASSUME CableInv, UNCHANGED <<card, torn, host, dev, toDev, toHost, faults>>,
         ops' \in 0 .. MaxOps
  PROVE  CableInv'
<1>1. CableTyped'
  BY DEF CableInv, CableTyped
<1>2. WireSound' /\ Ordered' /\ Together'
  BY DEF CableInv, WireSound, Ordered, Together
<1>3. Midway' /\ WholeFiles'
  BY FilesStay
<1>4. Answered' /\ Reported'
  BY DEF CableInv, Answered, Sent, Reported, StoredWhole, ReceivedWhole
<1> QED
  BY <1>1, <1>2, <1>3, <1>4 DEF CableInv

\* A device as it comes, with the tool not yet started.
LEMMA InitCable == Init => CableInv
<1> SUFFICES ASSUME Init PROVE CableInv
  OBVIOUS
<1>1. /\ card \in [Paths -> {Absent, Earlier}] /\ torn = {} /\ host = NoHost
      /\ dev = [NoTransfer EXCEPT !.pc = "away"] /\ toDev = <<>> /\ toHost = <<>>
      /\ faults = 0 /\ ops = 0
  BY DEF Init, TransferInit
<1>2. dev \in Device /\ dev.pc = "away" /\ Len(dev.buf) = 0
  <2>1. "away" \in Idle
    BY DEF Idle
  <2>2. LET next == [NoTransfer EXCEPT !.pc = "away"]
        IN next \in Device /\ next.pc = "away" /\ Len(next.buf) = 0
    BY <2>1, DeviceAt
  <2> QED BY <1>1, <2>2
<1>3. host \in Host /\ host.pc = "off" /\ host.result = "none"
  BY <1>1, AtRest
<1>4. toDev \in Seq(Messages) /\ toHost \in Seq(Messages) /\ Len(toDev) = 0 /\ Len(toHost) = 0
  BY <1>1, NothingOn
<1>5. MaxFaults \in Nat /\ MaxOps \in Nat
  BY TransferAssumption
<1>6. card \in [Paths -> Seq(Nat)]
  BY <1>1, Positive
<1>7. CableTyped
  BY <1>1, <1>2, <1>3, <1>4, <1>5, <1>6 DEF CableTyped
<1>8. WireSound /\ Ordered
  BY <1>4 DEF WireSound, Ordered
<1>9. Midway
  BY <1>2, Positive DEF Midway
<1>10. WholeFiles
  BY <1>1 DEF WholeFiles, Torn
<1>11. Together /\ Answered /\ Reported
  BY <1>3 DEF Together, Answered, Sent, Reported, StoredWhole, ReceivedWhole, Fetching
<1> QED
  BY <1>7, <1>8, <1>9, <1>10, <1>11 DEF CableInv

\* Every step.
LEMMA StepCable ==
  ASSUME CableInv, [Next]_vars
  PROVE  CableInv'
<1>1. CASE OnCable
  <2>1. CASE HostStep
    BY <2>1, PollKeeps, PortStepKeeps, ReceiveKeeps, PassedOverKeeps, FailingKeeps DEF HostStep
  <2>2. CASE UserStep
    <3>1. CASE Quit
      BY <3>1, PortStepKeeps
    <3>2. CASE \E p, q \in Paths : Put(p) \/ Get(p) \/ Remove(p) \/ Rename(p, q)
      BY <3>2, CommandsKeep
    <3> QED BY <2>2, <3>1, <3>2 DEF UserStep
  <2>3. CASE Lose \/ Garble
    BY <2>3, LinkStepKeeps
  <2> QED BY <1>1, <2>1, <2>2, <2>3 DEF OnCable, CableStep
<1>2. CASE OnScreen
  <2>1. CASE DevStep
    BY <2>1, IdleKeeps, RemoveFileKeeps, RenameFileKeeps, BeginFileKeeps, ReceiveChunkKeeps,
       EndFileKeeps, DevGivesUpKeeps, BeginReadKeeps, ReadChunkKeeps DEF DevStep
  <2> QED BY <1>2, <2>1, ScreenKeeps DEF OnScreen
<1>3. CASE Updating
  <2>1. UNCHANGED <<card, torn, host, dev, toDev, toHost, faults>>
    BY <1>3, CardUntouched DEF Updating
  <2>2. ops' = ops \/ (ops < MaxOps /\ ops' = ops + 1)
    BY <1>3 DEF Updating
  <2>3. ops \in 0 .. MaxOps /\ MaxOps \in Nat
    BY Types, TransferAssumption
  <2>4. ops' \in 0 .. MaxOps
    BY <2>2, <2>3
  <2> QED BY <2>1, <2>4, CountedKeeps
<1>4. CASE PortOpened \/ PowerCut
  BY <1>4, ResetKeeps DEF PortOpened
<1>5. CASE UNCHANGED vars
  <2>1. UNCHANGED <<card, torn, host, dev, toDev, toHost, faults, ops>>
    BY <1>5 DEF vars
  <2>2. ops' \in 0 .. MaxOps
    BY <2>1, Types
  <2> QED BY <2>1, <2>2, CountedKeeps
<1> QED
  BY <1>1, <1>2, <1>3, <1>4, <1>5 DEF Next

\* The invariant of the cable.
LEMMA CableInvariant == Spec => []CableInv
BY InitCable, StepCable, PTL DEF Spec

\* Whatever the link drops or spoils, whatever the card fails at and wherever the
\* device is reset, a file the tool reports sent is on the card as it was sent, or is
\* not there, unless the card failed to close it or to remove it.
THEOREM SentIsStored == Spec => []StoredWhole
<1>1. CableInv => StoredWhole
  BY DEF CableInv, Reported
<1> QED
  BY <1>1, CableInvariant, PTL

\* And a file it reports received is the one on the card.
THEOREM ReceivedIsTheFile == Spec => []ReceivedWhole
<1>1. CableInv => ReceivedWhole
  BY DEF CableInv, Reported
<1> QED
  BY <1>1, CableInvariant, PTL

\* Between messages no name holds part of a file, but one whose writing a reset cut short
\* or which the card failed to close or to remove.
THEOREM NothingHalfWritten == Spec => []NoPartLeft
<1>1. CableInv => NoPartLeft
  BY DEF CableInv, WholeFiles, Torn, NoPartLeft
<1> QED
  BY <1>1, CableInvariant, PTL

-----------------------------------------------------------------------------
(* The types of both.                                                      *)

SelectEntries == [{0, 1} -> SelectEntry]

\* An update starts below the bound on the sequence numbers, and what it writes is
\* at most two above.
FirmTyped ==
  /\ part \in [Partitions -> Seq(Nat)] /\ otadata \in SelectEntries
  /\ running \in Partitions /\ fresh \subseteq Partitions
  /\ fw \in Update /\ fw.entry \in SelectEntry
  /\ fw.pc \in {"flash", "stream", "erase"} => ActiveSeq(otadata) < MaxSeq

\* A select entry is one whatever its state and whether it is sound.
LEMMA SelectEntryTypes ==
  /\ SelectEntry \subseteq Entry /\ SelectEntries \subseteq Entries
  /\ Erased \in SelectEntry
  /\ \A e \in SelectEntry : /\ \A s \in EntryStates : [e EXCEPT !.state = s] \in SelectEntry
                            /\ [e EXCEPT !.sound = FALSE] \in SelectEntry
  /\ \A n \in Nat, s \in EntryStates :
       n <= MaxSeq + 2 => [seq |-> n, sound |-> TRUE, state |-> s] \in SelectEntry
<1> DEFINE nums == 0 .. MaxSeq + 2
<1>1. /\ nums \subseteq Nat /\ 0 \in nums
      /\ \A n \in Nat : n <= MaxSeq + 2 => n \in nums
  BY FirmwareAssumption
<1>2. SelectEntry = [seq : nums, sound : BOOLEAN, state : EntryStates]
  BY DEF SelectEntry
<1> HIDE DEF nums
<1>3. SelectEntry \subseteq Entry
  BY <1>1, <1>2 DEF Entry
<1>4. SelectEntries \subseteq Entries
  BY <1>3 DEF SelectEntries, Entries
<1>5. "valid" \in EntryStates
  BY DEF EntryStates
<1>6. Erased \in SelectEntry
  BY <1>1, <1>2, <1>5 DEF Erased
<1>7. \A e \in SelectEntry : /\ \A s \in EntryStates : [e EXCEPT !.state = s] \in SelectEntry
                             /\ [e EXCEPT !.sound = FALSE] \in SelectEntry
  BY <1>2
<1>8. \A n \in Nat, s \in EntryStates :
        n <= MaxSeq + 2 => [seq |-> n, sound |-> TRUE, state |-> s] \in SelectEntry
  BY <1>1, <1>2
<1> QED
  BY <1>3, <1>4, <1>6, <1>7, <1>8

\* The active entry is one of the two, if there is one.
LEMMA ActiveTyped ==
  ASSUME NEW od \in Entries
  PROVE  /\ ActiveEntry(od) \in {0, 1, NoEntry} /\ ActiveSeq(od) \in Nat
         /\ Selected(od) \in {0, 1}
<1>1. Usable(od) \subseteq {0, 1} /\ \A i \in {0, 1} : od[i].seq \in Nat
  BY DEF Usable, Entries, Entry
<1>2. ActiveEntry(od) \in {0, 1, NoEntry}
  <2>1. CASE Usable(od) # {}
    <3>1. \E i \in Usable(od) : \A j \in Usable(od) : od[j].seq <= od[i].seq
      BY <1>1, <2>1
    <3>2. ActiveEntry(od) \in Usable(od)
      BY <2>1, <3>1 DEF ActiveEntry
    <3> QED BY <1>1, <3>2
  <2> QED BY <2>1 DEF ActiveEntry
<1>3. ActiveSeq(od) \in Nat
  BY <1>1, <1>2 DEF ActiveSeq, NoEntry
<1>4. Selected(od) \in {0, 1}
  <2>1. ((ActiveSeq(od) - 1) % 2) \in {0, 1}
    BY <1>3
  <2> QED BY <2>1 DEF Selected
<1> QED
  BY <1>2, <1>3, <1>4

\* Another state in one entry.
LEMMA MarkTyped ==
  ASSUME NEW o \in SelectEntries, NEW k \in {0, 1}, NEW s \in EntryStates
  PROVE  [o EXCEPT ![k].state = s] \in SelectEntries
<1>1. o[k] \in SelectEntry
  BY DEF SelectEntries
<1> DEFINE e == [o[k] EXCEPT !.state = s]
<1>2. e \in SelectEntry
  BY <1>1, SelectEntryTypes
<1>3. [o EXCEPT ![k].state = s] = [o EXCEPT ![k] = e]
  OBVIOUS
<1> HIDE DEF e
<1>4. [o EXCEPT ![k] = e] \in SelectEntries
  BY <1>2 DEF SelectEntries
<1> QED BY <1>3, <1>4

\* What the bootloader makes of the entries, and where it goes.
LEMMA TrialTyped ==
  ASSUME NEW od \in SelectEntries
  PROVE  OnTrial(od) \in SelectEntries /\ Starts(OnTrial(od)) \in {0, 1}
<1> DEFINE i == ActiveEntry(od)
<1> DEFINE given == IF i # NoEntry /\ od[i].state = "pending"
                    THEN [od EXCEPT ![i].state = "aborted"] ELSE od
<1>2. i \in {0, 1, NoEntry} /\ "aborted" \in EntryStates /\ "pending" \in EntryStates
  BY SelectEntryTypes, ActiveTyped DEF EntryStates
<1> HIDE DEF i
<1>3. given \in SelectEntries
  <2>1. CASE i # NoEntry /\ od[i].state = "pending"
    <3>1. given = [od EXCEPT ![i].state = "aborted"]
      BY <2>1
    <3> HIDE DEF given
    <3>2. i \in {0, 1}
      BY <1>2, <2>1
    <3> QED BY MarkTyped, <1>2, <3>1, <3>2, Zenon
  <2>2. CASE ~(i # NoEntry /\ od[i].state = "pending")
    BY <2>2
  <2> QED BY <2>1, <2>2
<1> DEFINE j == ActiveEntry(given)
<1>4. OnTrial(od) = IF j # NoEntry /\ given[j].state = "new"
                    THEN [given EXCEPT ![j].state = "pending"] ELSE given
  BY DEF OnTrial, i
<1> HIDE DEF given
<1>5. j \in {0, 1, NoEntry}
  BY <1>3, SelectEntryTypes, ActiveTyped
<1> HIDE DEF j
<1>6. OnTrial(od) \in SelectEntries
  <2>1. CASE j # NoEntry /\ given[j].state = "new"
    <3>1. OnTrial(od) = [given EXCEPT ![j].state = "pending"]
      BY <1>4, <2>1
    <3>2. j \in {0, 1}
      BY <1>5, <2>1
    <3>3. "pending" \in EntryStates
      BY <1>2
    <3>4. [given EXCEPT ![j].state = "pending"] \in SelectEntries
      BY <1>3, <3>2, <3>3, MarkTyped
    <3> QED BY <3>1, <3>4
  <2>2. CASE ~(j # NoEntry /\ given[j].state = "new")
    BY <1>3, <1>4, <2>2
  <2> QED BY <2>1, <2>2
<1>7. Starts(OnTrial(od)) \in {0, 1}
  <2>1. Selected(OnTrial(od)) \in {0, 1}
    BY <1>6, SelectEntryTypes, ActiveTyped
  <2> QED BY <2>1 DEF Starts
<1> QED
  BY <1>6, <1>7

\* An update that is over.
LEMMA StopTyped ==
  ASSUME NEW r \in Results
  PROVE  LET u == [NoUpdate EXCEPT !.result = r]
         IN u \in Update /\ u.pc = "idle" /\ u.entry = Erased
<1>1. NoUpdate \in Update /\ NoUpdate.entry = Erased /\ NoUpdate.pc = "idle"
  BY NoUpdateTyped DEF NoUpdate
<1> QED
  BY <1>1 DEF Update

\* The device as it comes.
LEMMA InitFirm == Init => FirmTyped
<1> SUFFICES ASSUME Init PROVE FirmTyped
  OBVIOUS
<1>1. FlashInv
  BY InitFlash
<1>2. /\ part \in [Partitions -> Seq(Nat)] /\ running \in Partitions /\ fresh \subseteq Partitions
      /\ fw \in Update
  BY <1>1 DEF FlashInv, Typed
<1>3. fw = NoUpdate /\ fw.pc = "idle" /\ fw.entry = Erased
  BY DEF Init, FirmwareInit, NoUpdate
<1>4. otadata \in SelectEntries
  <2> DEFINE first == [seq |-> 1, sound |-> TRUE, state |-> "valid"]
  <2>1. /\ MaxSeq \in Nat
        /\ otadata \in {[i \in {0, 1} |-> Erased],
                        [i \in {0, 1} |-> IF i = 0 THEN first ELSE Erased]}
    BY FirmwareAssumption DEF Init, FirmwareInit
  <2>2. 1 <= MaxSeq + 2 /\ "valid" \in EntryStates
    BY <2>1 DEF EntryStates
  <2>3. first \in SelectEntry /\ Erased \in SelectEntry
    BY <2>2, SelectEntryTypes
  <2> HIDE DEF first
  <2> QED BY <2>1, <2>3 DEF SelectEntries
<1> QED
  BY <1>2, <1>3, <1>4, SelectEntryTypes DEF FirmTyped

\* A start.
LEMMA StartTyped ==
  ASSUME FirmTyped, NEW left, left \subseteq SelectEntries, Start(left)
  PROVE  FirmTyped'
<1>1. PICK od \in left : /\ otadata' = OnTrial(od) /\ running' = Starts(OnTrial(od))
                         /\ fw' = Booting /\ fresh' = {} /\ part' = part
  BY DEF Start
<1>2. otadata' \in SelectEntries /\ running' \in Partitions
  BY <1>1, TrialTyped DEF Partitions
<1>3. fw' \in Update /\ fw'.pc = "boot" /\ fw'.entry = Erased
  <2>1. Booting.entry = Erased
    BY DEF Booting, NoUpdate
  <2> QED BY <1>1, <2>1, NoUpdateTyped
<1> QED
  BY <1>1, <1>2, <1>3, SelectEntryTypes DEF FirmTyped

\* A write of the entry that is cut short, or not.
LEMMA CutShortTyped ==
  ASSUME FirmTyped
  PROVE  CutShort \subseteq SelectEntries /\ HalfWritten \subseteq SelectEntries
         /\ [otadata EXCEPT ![fw.slot] = fw.entry] \in SelectEntries
<1>1. otadata \in SelectEntries /\ fw.entry \in SelectEntry /\ fw.slot \in {0, 1}
  BY DEF FirmTyped, Update
<1>2. \A e \in SelectEntry : [otadata EXCEPT ![fw.slot] = e] \in SelectEntries
  BY <1>1 DEF SelectEntries
<1>3. [fw.entry EXCEPT !.sound = FALSE] \in SelectEntry /\ Erased \in SelectEntry
  BY <1>1, SelectEntryTypes
<1>4. HalfWritten \subseteq SelectEntries
  BY <1>2, <1>3 DEF HalfWritten
<1> QED
  BY <1>1, <1>2, <1>4 DEF CutShort

\* Power is lost.
LEMMA PowerLostTyped ==
  ASSUME FirmTyped, PowerLost
  PROVE  FirmTyped'
<1> DEFINE left == IF fw.pc = "write" THEN CutShort ELSE {otadata}
<1>1. Start(left)
  BY DEF PowerLost
<1>2. left \subseteq SelectEntries
  BY CutShortTyped DEF FirmTyped
<1> HIDE DEF left
<1> QED
  BY <1>1, <1>2, StartTyped

\* An update ends.
LEMMA StopsTyped ==
  ASSUME FirmTyped, NEW r \in Results, Stop(r), UNCHANGED <<running, fresh>>,
         otadata' \in SelectEntries, part' \in [Partitions -> Seq(Nat)]
  PROVE  FirmTyped'
<1>1. fw' \in Update /\ fw'.pc = "idle" /\ fw'.entry = Erased
  BY StopTyped DEF Stop
<1> QED
  BY <1>1, SelectEntryTypes DEF FirmTyped

\* The steps that end an update, or confirm one.
LEMMA EndingsTyped ==
  ASSUME FirmTyped,
         ConfirmImage \/ (\E p \in Paths : RefuseFile(p)) \/ FlashFails \/ WrongDevice \/ StreamFails
  PROVE  FirmTyped'
<1>1. "refused" \in Results /\ "failed" \in Results /\ "wrongDevice" \in Results
  BY DEF Results
<1>2. otadata \in SelectEntries /\ part \in [Partitions -> Seq(Nat)]
  BY DEF FirmTyped
<1>3. CASE ConfirmImage
  <2> DEFINE i == ActiveEntry(otadata)
  <2>1. /\ otadata' = Confirmed(otadata) /\ fw' = NoUpdate /\ UNCHANGED <<part, running, fresh>>
    BY <1>3 DEF ConfirmImage
  <2>2. i \in {0, 1, NoEntry} /\ "valid" \in EntryStates
    BY <1>2, SelectEntryTypes, ActiveTyped DEF EntryStates
  <2>3. Confirmed(otadata) \in {otadata, [otadata EXCEPT ![i].state = "valid"]}
        /\ (i \notin {0, 1} => Confirmed(otadata) = otadata)
    BY <2>2 DEF Confirmed
  <2> HIDE DEF i
  <2>4. otadata' \in SelectEntries
    <3>1. CASE i \in {0, 1}
      <4> DEFINE e == [otadata[i] EXCEPT !.state = "valid"]
      <4>1. otadata[i] \in SelectEntry
        BY <1>2, <3>1 DEF SelectEntries
      <4>2. e \in SelectEntry
        BY <2>2, <4>1, SelectEntryTypes
      <4>3. [otadata EXCEPT ![i].state = "valid"] = [otadata EXCEPT ![i] = e]
        OBVIOUS
      <4> HIDE DEF e
      <4>4. [otadata EXCEPT ![i] = e] \in SelectEntries
        BY <1>2, <4>2 DEF SelectEntries
      <4> QED BY <1>2, <2>1, <2>3, <4>3, <4>4
    <3> QED BY <1>2, <2>1, <2>3, <3>1
  <2>5. fw' \in Update /\ fw'.pc = "idle" /\ fw'.entry = Erased
    BY <2>1, NoUpdateTyped DEF NoUpdate
  <2> QED BY <2>1, <2>4, <2>5, SelectEntryTypes DEF FirmTyped
<1>4. CASE \E p \in Paths : RefuseFile(p)
  BY <1>1, <1>2, <1>4, StopsTyped DEF RefuseFile, SelectsNothing
<1>5. CASE FlashFails
  <2>1. /\ fw.pc = "flash" /\ fw.n < Len(fw.image) /\ Stop("failed")
        /\ part' \in {part, [part EXCEPT ![fw.dest] = SubSeq(fw.image, 1, fw.n)]}
        /\ UNCHANGED <<running, otadata, fresh>>
    BY <1>5 DEF FlashFails, SelectsNothing
  <2>2. fw.dest \in Partitions /\ fw.n \in Nat /\ fw.image \in Seq(Nat)
    BY DEF FirmTyped, Update
  <2>3. SubSeq(fw.image, 1, fw.n) \in Seq(Nat)
    <3>1. Len(fw.image) \in Nat
      BY <2>2, LenProperties
    <3> QED BY <2>1, <2>2, <3>1, PrefixGrows
  <2>4. part' \in [Partitions -> Seq(Nat)]
    BY <1>2, <2>1, <2>2, <2>3
  <2> QED BY <1>1, <1>2, <2>1, <2>4, StopsTyped
<1>6. CASE WrongDevice \/ StreamFails
  <2>1. Stop("wrongDevice") \/ Stop("failed")
    BY <1>6 DEF WrongDevice, StreamFails
  <2>2. UNCHANGED <<part, running, otadata, fresh>>
    BY <1>6 DEF WrongDevice, StreamFails, SelectsNothing
  <2> QED BY <1>1, <1>2, <2>1, <2>2, StopsTyped
<1> QED
  BY <1>3, <1>4, <1>5, <1>6

\* The steps that start an update, or write an image.
LEMMA WritingTyped ==
  ASSUME FirmTyped,
         \/ \E p \in Paths : FlashFile(p)
         \/ FlashChunk \/ FlashDone
         \/ \E release \in Releases : BeginInstall(release)
         \/ StreamChunk \/ StreamDone
  PROVE  FirmTyped'
<1>1. /\ part \in [Partitions -> Seq(Nat)] /\ otadata \in SelectEntries /\ running \in Partitions
      /\ fw \in Update /\ fw.entry \in SelectEntry /\ fw.dest \in Partitions /\ fw.n \in Nat
      /\ fw.image \in Seq(Nat) /\ fresh \subseteq Partitions
  BY DEF FirmTyped, Update
<1>2. Dest \in Partitions
  BY <1>1 DEF Dest, Partitions
<1>3. ASSUME NEW step \in Steps, NEW image \in Seq(Nat),
             fw' = [NoUpdate EXCEPT !.pc = step, !.dest = Dest, !.image = image]
      PROVE  fw' \in Update /\ fw'.pc = step /\ fw'.entry \in SelectEntry
  <2> DEFINE d == Dest
  <2>1. d \in Partitions
    BY <1>2
  <2>2. fw' = [NoUpdate EXCEPT !.pc = step, !.dest = d, !.image = image]
    BY <1>3
  <2> HIDE DEF d
  <2>3. NoUpdate \in Update /\ NoUpdate.entry = Erased /\ Erased \in SelectEntry
    BY NoUpdateTyped, SelectEntryTypes DEF NoUpdate
  <2> QED BY <2>1, <2>2, <2>3 DEF Update
<1>4. "flash" \in Steps /\ "stream" \in Steps /\ "erase" \in Steps
  BY DEF Steps
<1>5. CASE \E p \in Paths : FlashFile(p)
  <2>1. PICK p \in Paths : FlashFile(p)
    BY <1>5
  <2>2. /\ fw' = [NoUpdate EXCEPT !.pc = "flash", !.dest = Dest, !.image = card[p]]
        /\ fresh' = {Dest} /\ UNCHANGED <<part, running, otadata>>
        /\ card[p] \in Seq(Nat) /\ ActiveSeq(otadata) < MaxSeq
    BY <2>1, FirmwareAssumption DEF FlashFile, SelectsNothing, Acceptable, Whole, MayStart
  <2>3. fw' \in Update /\ fw'.pc = "flash" /\ fw'.entry \in SelectEntry
    BY <1>3, <1>4, <2>2
  <2> QED BY <1>1, <1>2, <2>2, <2>3 DEF FirmTyped
<1>6. CASE \E release \in Releases : BeginInstall(release)
  <2>1. PICK release \in Releases : BeginInstall(release)
    BY <1>6
  <2> DEFINE none == <<>>
  <2>2. /\ fw' = [NoUpdate EXCEPT !.pc = "stream", !.dest = Dest, !.image = release]
        /\ fresh' = {Dest} /\ UNCHANGED <<running, otadata>>
        /\ part' = [part EXCEPT ![Dest] = none]
        /\ release \in Seq(Nat) /\ ActiveSeq(otadata) < MaxSeq
    BY <2>1, FirmwareAssumption DEF BeginInstall, SelectsNothing, MayStart
  <2>3. none \in Seq(Nat)
    BY EmptySeq
  <2> HIDE DEF none
  <2>4. fw' \in Update /\ fw'.pc = "stream" /\ fw'.entry \in SelectEntry
    BY <1>3, <1>4, <2>2
  <2> QED BY <1>1, <1>2, <2>2, <2>3, <2>4 DEF FirmTyped
<1>7. CASE FlashChunk
  <2>1. /\ fw.pc = "flash" /\ fw.n < Len(fw.image)
        /\ part' = [part EXCEPT ![fw.dest] = SubSeq(fw.image, 1, fw.n + 1)]
        /\ fw' = [fw EXCEPT !.n = @ + 1] /\ UNCHANGED <<running, otadata, fresh>>
    BY <1>7 DEF FlashChunk, SelectsNothing
  <2>2. SubSeq(fw.image, 1, fw.n + 1) \in Seq(Nat)
    <3>1. Len(fw.image) \in Nat
      BY <1>1, LenProperties
    <3> QED BY <1>1, <2>1, <3>1, PrefixGrows, SMTT(30)
  <2>3. fw' \in Update /\ fw'.pc = fw.pc /\ fw'.entry = fw.entry
    <3>1. fw.n + 1 \in Nat
      BY <1>1
    <3> QED BY <1>1, <2>1, <3>1 DEF Update
  <2> QED BY <1>1, <2>1, <2>2, <2>3 DEF FirmTyped
<1>8. CASE StreamChunk
  <2>1. /\ fw.pc = "stream" /\ fw.n < Len(fw.image)
        /\ part' = [part EXCEPT ![fw.dest] = Append(part[fw.dest], fw.image[fw.n + 1])]
        /\ fw' = [fw EXCEPT !.n = @ + 1] /\ UNCHANGED <<running, otadata, fresh>>
    BY <1>8 DEF StreamChunk, Streaming, TheChunk, SelectsNothing
  <2>2. fw.image[fw.n + 1] \in Nat
    <3>1. Len(fw.image) \in Nat
      BY <1>1, LenProperties
    <3>2. fw.n + 1 \in 1 .. Len(fw.image)
      BY <1>1, <2>1, <3>1
    <3> QED BY <1>1, <3>2, ElementOfSeq
  <2>3. Append(part[fw.dest], fw.image[fw.n + 1]) \in Seq(Nat)
    <3>1. part[fw.dest] \in Seq(Nat)
      BY <1>1
    <3> QED BY <2>2, <3>1, AppendProperties
  <2>4. fw' \in Update /\ fw'.pc = fw.pc /\ fw'.entry = fw.entry
    <3>1. fw.n + 1 \in Nat
      BY <1>1
    <3> QED BY <1>1, <2>1, <3>1 DEF Update
  <2> QED BY <1>1, <2>1, <2>3, <2>4 DEF FirmTyped
<1>9. CASE FlashDone
  <2>1. /\ fw.pc = "flash" /\ fw' = [fw EXCEPT !.pc = "erase"]
        /\ UNCHANGED <<part, running, otadata, fresh>>
    BY <1>9 DEF FlashDone, SelectsNothing
  <2>2. fw' \in Update /\ fw'.pc = "erase" /\ fw'.entry = fw.entry
    BY <1>1, <1>4, <2>1 DEF Update
  <2> QED BY <1>1, <2>1, <2>2 DEF FirmTyped
<1>10. CASE StreamDone
  <2>1. PICK state \in {"new", "valid"} : fw' = [fw EXCEPT !.pc = "erase", !.state = state]
    BY <1>10 DEF StreamDone
  <2>2. fw.pc = "stream" /\ UNCHANGED <<part, running, otadata, fresh>>
    BY <1>10 DEF StreamDone, SelectsNothing
  <2>3. fw' \in Update /\ fw'.pc = "erase" /\ fw'.entry = fw.entry
    BY <1>1, <1>4, <2>1 DEF Update
  <2> QED BY <1>1, <2>2, <2>3 DEF FirmTyped
<1> QED
  BY <1>5, <1>6, <1>7, <1>8, <1>9, <1>10

\* The steps on the select entry.
LEMMA SelectingTyped ==
  ASSUME FirmTyped, EraseEntry \/ WriteEntry \/ Restart
  PROVE  FirmTyped'
<1>1. /\ part \in [Partitions -> Seq(Nat)] /\ otadata \in SelectEntries
      /\ fw \in Update /\ fw.entry \in SelectEntry /\ fw.dest \in Partitions
      /\ fw.state \in {"new", "valid"} /\ "failed" \in Results
  BY DEF FirmTyped, Update, Results
<1>2. CASE EraseEntry
  <2> DEFINE slot == TargetSlot(otadata)
  <2> DEFINE left == [otadata EXCEPT ![slot] = Erased]
  <2> DEFINE entry == TheEntry
  <2>1. /\ fw.pc = "erase" /\ UNCHANGED <<part, running, fresh>>
        /\ \/ otadata' = left /\ fw' = [fw EXCEPT !.pc = "write", !.slot = slot, !.entry = entry]
           \/ otadata' \in {otadata, left} /\ Stop("failed")
    BY <1>2 DEF EraseEntry
  <2>2. slot \in {0, 1}
    BY DEF TargetSlot
  <2>3. left \in SelectEntries
    <3>1. Erased \in SelectEntry
      BY SelectEntryTypes
    <3> HIDE DEF slot
    <3> QED BY <1>1, <2>2, <3>1 DEF SelectEntries
  <2>4. entry \in SelectEntry
    <3> DEFINE n == NewSeq(otadata, fw.dest)
    <3>1. ActiveSeq(otadata) \in Nat /\ ActiveSeq(otadata) < MaxSeq /\ MaxSeq \in Nat
      BY <1>1, <2>1, ActiveTyped, SelectEntryTypes, FirmwareAssumption DEF FirmTyped
    <3>2. n \in Nat /\ n <= MaxSeq + 2
      BY <3>1 DEF NewSeq
    <3>3. entry = [seq |-> n, sound |-> TRUE, state |-> fw.state]
      BY DEF TheEntry
    <3> HIDE DEF n, entry
    <3>4. fw.state \in EntryStates
      BY <1>1 DEF EntryStates
    <3> QED BY <3>2, <3>3, <3>4, SelectEntryTypes
  <2>5. entry \in Entry
    BY <2>4, SelectEntryTypes
  <2> HIDE DEF slot, left, entry
  <2>6. CASE otadata' = left /\ fw' = [fw EXCEPT !.pc = "write", !.slot = slot, !.entry = entry]
    <3>1. fw' \in Update /\ fw'.pc = "write" /\ fw'.entry = entry
      BY <1>1, <2>2, <2>5, <2>6 DEF Update, Steps
    <3> QED BY <2>1, <2>3, <2>4, <2>6, <3>1 DEF FirmTyped
  <2>7. CASE otadata' \in {otadata, left} /\ Stop("failed")
    BY <1>1, <2>1, <2>3, <2>7, StopsTyped
  <2> QED BY <2>1, <2>6, <2>7
<1>3. CASE WriteEntry
  <2>1. /\ fw.pc = "write" /\ UNCHANGED <<part, running, fresh>>
        /\ \/ /\ otadata' = [otadata EXCEPT ![fw.slot] = fw.entry]
              /\ fw' = [fw EXCEPT !.pc = "restart"]
           \/ otadata' \in HalfWritten /\ Stop("failed")
    BY <1>3 DEF WriteEntry
  <2>2. CASE /\ otadata' = [otadata EXCEPT ![fw.slot] = fw.entry]
             /\ fw' = [fw EXCEPT !.pc = "restart"]
    <3>1. fw' \in Update /\ fw'.pc = "restart" /\ fw'.entry = fw.entry
      BY <1>1, <2>2 DEF Update, Steps
    <3>2. otadata' \in SelectEntries
      BY <2>2, CutShortTyped
    <3> QED BY <1>1, <2>1, <3>1, <3>2 DEF FirmTyped
  <2>3. CASE otadata' \in HalfWritten /\ Stop("failed")
    <3>1. otadata' \in SelectEntries /\ part' \in [Partitions -> Seq(Nat)]
      BY <1>1, <2>1, <2>3, CutShortTyped
    <3> QED BY <1>1, <2>1, <2>3, <3>1, StopsTyped
  <2> QED BY <2>1, <2>2, <2>3
<1>4. CASE Restart
  <2>1. Start({otadata}) /\ {otadata} \subseteq SelectEntries
    BY <1>1, <1>4 DEF Restart
  <2> QED BY <2>1, StartTyped
<1> QED
  BY <1>2, <1>3, <1>4

\* Every step.
LEMMA StepFirm ==
  ASSUME FirmTyped, [Next]_vars
  PROVE  FirmTyped'
<1>1. ASSUME UNCHANGED updateVars PROVE FirmTyped'
  BY <1>1 DEF updateVars, FirmTyped
<1>2. CASE OnCable \/ OnScreen
  BY <1>1, <1>2 DEF OnCable, OnScreen
<1>3. CASE Updating
  BY <1>3, EndingsTyped, WritingTyped, SelectingTyped DEF Updating, FirmwareStep
<1>4. CASE PortOpened \/ PowerCut
  BY <1>4, PowerLostTyped DEF PortOpened, PowerCut
<1>5. CASE UNCHANGED vars
  BY <1>1, <1>5 DEF vars, updateVars
<1> QED
  BY <1>2, <1>3, <1>4, <1>5 DEF Next

\* The state keeps its types, whatever the server states of what it sends, and the
\* sequence numbers their bound.
THEOREM UpdateTypes == Spec => []TypeOK
<1>1. CableInv => TransferTypeOK
  <2> SUFFICES ASSUME CableInv PROVE TransferTypeOK
    OBVIOUS
  <2>1. host.tries \in 0 .. Tries
    BY Types, HostFields
  <2>2. dev.seen \in Seq(Nat) /\ Len(dev.buf) < Coalesce
    BY DeviceFields DEF CableInv, Midway
  <2>3. Wire = Seq(Messages)
    BY DEF Wire, Messages
  <2> QED BY <2>1, <2>2, <2>3, Types DEF TransferTypeOK, Causes
<1>2. FirmTyped => FirmwareTypeOK
  BY DEF FirmTyped, FirmwareTypeOK, SelectEntries, Update, Steps
<1>3. Spec => []FirmTyped
  BY InitFirm, StepFirm, PTL DEF Spec
<1> QED
  BY <1>1, <1>2, <1>3, CableInvariant, PTL DEF TypeOK

=============================================================================
