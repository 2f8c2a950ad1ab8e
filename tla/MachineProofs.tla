--------------------------- MODULE MachineProofs ---------------------------
(***************************************************************************)
(* Proofs about the two components that work the machine itself: the flash *)
(* of an update (Ota), and the interrupt mask and spin locks of the cores  *)
(* (Locks).                                                                *)
(*                                                                         *)
(* Ota, for slots of any size, any images and any bound on the sequence    *)
(* numbers.  The safety of the otadata is not inductive: that replacing a  *)
(* copy is harmless depends on which copy the shell chose and which number *)
(* it computed some steps ago, while sys_ota_state may have changed the    *)
(* other copy since.  JobSound records that both are still what the        *)
(* otadata call for, and that an update in progress is aimed at the slot   *)
(* that does not boot and has erased what it will program.                 *)
(*                                                                         *)
(* Locks, for any number of cores.  Its invariant needs to know which      *)
(* mutexes a core holds at each place of a section, that the guards of a   *)
(* frame are those, and that an interrupt comes upon a core that holds     *)
(* none.                                                                   *)
(***************************************************************************)
EXTENDS Ota, Locks, SequenceTheorems, TLAPS

Entry == [seq : 0 .. MaxSeq, state : States]
Jobs == [at : {"idle", "erase", "mark", "erase_copy", "write_copy"}, slot : Slot, image : Seq(Piece),
         erased : 0 .. SlotSectors, from : Slot, copy : 0 .. 1, seq : 0 .. MaxSeq]

Contents == [Slot -> [1 .. SlotSectors -> Piece \cup {Blank}]]

Types ==
    /\ slots \in Contents
    /\ otadata \in [0 .. 1 -> Entry]
    /\ running \in Slot
    /\ rx = NoImage \/ (rx \in Seq(Piece) /\ Len(rx) <= SlotSectors)
    /\ sender \in [v : Versions, sent : 0 .. SlotSectors + 1] \/ sender = NoSender
    /\ job \in Jobs /\ Len(job.image) <= SlotSectors /\ job.erased <= Len(job.image)

Distinct(d) == IsValid(d[0]) /\ IsValid(d[1]) => d[0].seq # d[1].seq

Replacing == job.at \in {"erase_copy", "write_copy"}

JobSound ==
    /\ job.at = "erase" =>
        /\ job.slot = OtherSlot(ActiveSlot(otadata))
        /\ \A i \in 1 .. job.erased : slots[job.slot][i] = Blank
    /\ Replacing =>
        /\ job.copy = WriteCopy(otadata)
        /\ job.from = ActiveSlot(otadata)
        /\ job.seq = NextSeqForIndex(CurrentMax(otadata), Index(job.slot))
    /\ job.at = "write_copy" => otadata[job.copy] = NoEntry

OtaIInv == Types /\ Distinct(otadata) /\ JobSound /\ MarkedAsReceived

Agree(d, e) ==
    /\ SelectActiveIndex(e) = SelectActiveIndex(d)
    /\ ActiveSlot(e) = ActiveSlot(d)
    /\ CurrentMax(e) = CurrentMax(d)
    /\ WriteCopy(e) = WriteCopy(d)
-----------------------------------------------------------------------------
(* What otadata that type-check select.                                    *)
LEMMA SelectFacts ==
    ASSUME NEW d \in [0 .. 1 -> Entry]
    PROVE  /\ SelectActiveIndex(d) \in 0 .. 2
           /\ ActiveSlot(d) \in Slot
           /\ CurrentMax(d) \in 0 .. MaxSeq
           /\ WriteCopy(d) \in 0 .. 1
           /\ SelectActiveIndex(d) # WriteCopy(d)
           /\ SelectActiveIndex(d) # 2 => SelectActiveIndex(d) = 1 - WriteCopy(d) /\ IsValid(d[SelectActiveIndex(d)])
<1>1. SelectActiveIndex(d) \in 0 .. 2 /\ (SelectActiveIndex(d) # 2 => IsValid(d[SelectActiveIndex(d)]))
  BY DEF SelectActiveIndex
<1>2. CurrentMax(d) \in 0 .. MaxSeq
  <2>1. CASE SelectActiveIndex(d) = 2
    BY <2>1, OtaConstants DEF CurrentMax
  <2>2. CASE SelectActiveIndex(d) \in 0 .. 1
    BY <2>2 DEF CurrentMax, Entry
  <2> QED BY <1>1, <2>1, <2>2
<1>3. ActiveSlot(d) \in Slot
  BY Zenon DEF ActiveSlot, SlotFromSeq, Slot
<1> QED BY <1>1, <1>2, <1>3 DEF WriteCopy

(* next_seq_for_index: above the number that counts, and of the parity     *)
(* that names the slot.                                                    *)
LEMMA NextSeqFacts ==
    ASSUME NEW max \in Nat, NEW s \in Slot
    PROVE  /\ NextSeqForIndex(max, Index(s)) \in Nat
           /\ NextSeqForIndex(max, Index(s)) > max
           /\ SlotFromSeq(NextSeqForIndex(max, Index(s))) = s
<1>1. CASE s = "factory"
  BY <1>1 DEF NextSeqForIndex, SlotFromSeq, Index
<1>2. CASE s = "ota0"
  BY <1>2 DEF NextSeqForIndex, SlotFromSeq, Index
<1> QED BY <1>1, <1>2, Zenon DEF Slot

(* Whatever happens to the copy that does not count, short of becoming     *)
(* valid, changes nothing for the bootloader.                              *)
LEMMA Demoted ==
    ASSUME NEW d \in [0 .. 1 -> Entry], NEW e \in [0 .. 1 -> Entry],
           e[1 - WriteCopy(d)] = d[1 - WriteCopy(d)], ~IsValid(e[WriteCopy(d)])
    PROVE  Agree(d, e) /\ Distinct(e)
<1>1. SelectActiveIndex(e) = SelectActiveIndex(d)
  BY DEF SelectActiveIndex, WriteCopy
<1>2. SelectActiveIndex(d) # 2 => e[SelectActiveIndex(d)] = d[SelectActiveIndex(d)]
  BY SelectFacts, Zenon
<1>3. Distinct(e)
  BY SelectFacts DEF Distinct
<1> QED BY <1>1, <1>2, <1>3 DEF Agree, ActiveSlot, CurrentMax, WriteCopy

(* A copy written with a higher number becomes the one that counts.        *)
LEMMA Promoted ==
    ASSUME NEW d \in [0 .. 1 -> Entry], NEW e \in [0 .. 1 -> Entry],
           e[1 - WriteCopy(d)] = d[1 - WriteCopy(d)],
           IsValid(e[WriteCopy(d)]), e[WriteCopy(d)].seq > CurrentMax(d)
    PROVE  /\ SelectActiveIndex(e) = WriteCopy(d)
           /\ ActiveSlot(e) = SlotFromSeq(e[WriteCopy(d)].seq)
           /\ Distinct(e)
<1>0. \A j \in 0 .. 1 : d[j].seq \in Nat /\ e[j].seq \in Nat
  BY DEF Entry
<1>1. CASE SelectActiveIndex(d) = 0
  BY <1>0, <1>1 DEF SelectActiveIndex, WriteCopy, CurrentMax, Distinct, ActiveSlot
<1>2. CASE SelectActiveIndex(d) = 1
  BY <1>0, <1>2 DEF SelectActiveIndex, WriteCopy, CurrentMax, Distinct, ActiveSlot
<1>3. CASE SelectActiveIndex(d) = 2
  BY <1>0, <1>3 DEF SelectActiveIndex, WriteCopy, CurrentMax, Distinct, ActiveSlot
<1> QED BY <1>1, <1>2, <1>3, SelectFacts

(* sys_ota_state with a state other than invalid leaves the choice alone.  *)
LEMMA Restated ==
    ASSUME NEW d \in [0 .. 1 -> Entry], Distinct(d), NEW e \in [0 .. 1 -> Entry],
           NEW i \in 0 .. 1, i = SelectActiveIndex(d),
           e[1 - i] = d[1 - i], e[i].seq = d[i].seq, e[i].state # "invalid"
    PROVE  Agree(d, e) /\ Distinct(e) /\ e[WriteCopy(d)] = d[WriteCopy(d)]
<1>1. IsValid(d[i]) /\ IsValid(e[i]) /\ i # WriteCopy(d) /\ WriteCopy(d) \in 0 .. 1
  BY SelectFacts DEF IsValid
<1>2. SelectActiveIndex(e) = i
  BY <1>1 DEF SelectActiveIndex, Entry
<1>3. Agree(d, e)
  BY <1>1, <1>2, Zenon DEF Agree, ActiveSlot, CurrentMax, WriteCopy
<1>4. Distinct(e)
  BY <1>1, <1>2, SMTT(30) DEF Distinct, SelectActiveIndex, Entry, IsValid
<1> QED BY <1>1, <1>3, <1>4
-----------------------------------------------------------------------------
(* Programming writes to the sectors of one slot only.                     *)
LEMMA ProgrammedFacts ==
    ASSUME Types, NEW n \in 0 .. Len(job.image)
    PROVE  Programmed(slots[job.slot], job.image, n) \in [1 .. SlotSectors -> Piece \cup {Blank}]
<1> DEFINE c == slots[job.slot]
<1>1. c \in [1 .. SlotSectors -> Piece \cup {Blank}]
  BY Zenon DEF Types, Contents, Jobs
<1>2. Len(job.image) \in Nat /\ \A k \in 1 .. Len(job.image) : job.image[k] \in Piece
  BY DEF Types, Jobs
<1> HIDE DEF c
<1>3. ASSUME NEW k \in 1 .. SlotSectors
      PROVE  (IF k > n THEN c[k] ELSE IF c[k] = Blank THEN job.image[k] ELSE Blank) \in Piece \cup {Blank}
  <2>1. CASE k > n
    BY <1>1, <2>1, Zenon
  <2>2. CASE ~(k > n)
    <3>1. k \in 1 .. Len(job.image)
      BY <1>2, <2>2, OtaConstants
    <3> QED BY <1>2, <2>2, <3>1, Zenon
  <2> QED BY <2>1, <2>2, Zenon
<1> QED BY <1>3, Zenon DEF Programmed, c

(* The slot an update writes to is not the one that boots.                 *)
LEMMA AimedAway ==
    ASSUME OtaIInv, job.at = "erase",
           NEW c \in [1 .. SlotSectors -> Piece \cup {Blank}]
    PROVE  LET z == [slots EXCEPT ![job.slot] = c]
           IN  z \in Contents /\ z[ActiveSlot(otadata)] = slots[ActiveSlot(otadata)] /\ z[job.slot] = c
<1>1. job.slot \in Slot /\ job.slot # ActiveSlot(otadata) /\ ActiveSlot(otadata) \in Slot
  BY SelectFacts, Zenon DEF OtaIInv, Types, JobSound, Jobs, OtherSlot, Slot
<1>2. slots \in Contents
  BY Zenon DEF OtaIInv, Types
<1> QED BY <1>1, <1>2, Zenon DEF Contents

(* An erased sector.                                                       *)
LEMMA EraseFacts ==
    ASSUME OtaIInv, job.at = "erase", EraseSectors(job)
    PROVE  LET z == [slots EXCEPT ![job.slot][job.erased + 1] = Blank]
           IN  /\ z \in Contents
               /\ z[ActiveSlot(otadata)] = slots[ActiveSlot(otadata)]
               /\ \A k \in 1 .. job.erased + 1 : z[job.slot][k] = Blank
<1> DEFINE e == job.erased
           c == [slots[job.slot] EXCEPT ![e + 1] = Blank]
<1>1. e \in Nat /\ e + 1 \in 1 .. SlotSectors /\ slots[job.slot] \in [1 .. SlotSectors -> Piece \cup {Blank}]
  BY OtaConstants DEF OtaIInv, Types, Contents, Jobs, EraseSectors
<1>2. c \in [1 .. SlotSectors -> Piece \cup {Blank}]
  BY <1>1, Zenon
<1>3. \A k \in 1 .. e : slots[job.slot][k] = Blank
  BY Zenon DEF OtaIInv, JobSound
<1>4. \A k \in 1 .. e + 1 : c[k] = Blank
  BY <1>1, <1>3, OtaConstants
<1>5. [slots EXCEPT ![job.slot][e + 1] = Blank] = [slots EXCEPT ![job.slot] = c]
  BY Zenon
<1> HIDE DEF c
<1> QED BY <1>2, <1>4, <1>5, AimedAway, Zenon

(* What a flash operation that was cut short leaves boots the same slot    *)
(* with the same image.                                                    *)
LEMMA TornFacts ==
    ASSUME OtaIInv
    PROVE  /\ \A z \in TornSlots : z \in Contents /\ z[ActiveSlot(otadata)] = slots[ActiveSlot(otadata)]
           /\ \A d \in TornData : d \in [0 .. 1 -> Entry] /\ Agree(otadata, d) /\ Distinct(d)
<1>1. ASSUME NEW z \in TornSlots
      PROVE  z \in Contents /\ z[ActiveSlot(otadata)] = slots[ActiveSlot(otadata)]
  <2>1. CASE z = slots
    BY <2>1, Zenon DEF OtaIInv, Types
  <2>2. CASE job.at = "erase" /\ EraseSectors(job) /\ z = [slots EXCEPT ![job.slot][job.erased + 1] = Blank]
    BY <2>2, EraseFacts, Zenon
  <2>3. CASE job.at = "erase" /\ \E n \in 1 .. Len(job.image) : z = [slots EXCEPT ![job.slot] = Programmed(@, job.image, n)]
    <3>1. PICK n \in 1 .. Len(job.image) : z = [slots EXCEPT ![job.slot] = Programmed(slots[job.slot], job.image, n)]
      BY <2>3, Zenon
    <3>2. Programmed(slots[job.slot], job.image, n) \in [1 .. SlotSectors -> Piece \cup {Blank}]
      BY ProgrammedFacts DEF OtaIInv
    <3> QED BY <2>3, <3>1, <3>2, AimedAway, Zenon
  <2> QED BY <2>1, <2>2, <2>3, Zenon DEF TornSlots
<1>2. ASSUME NEW d \in TornData
      PROVE  d \in [0 .. 1 -> Entry] /\ Agree(otadata, d) /\ Distinct(d)
  <2>1. CASE d = otadata
    BY <2>1, Zenon DEF OtaIInv, Types, Agree
  <2>2. CASE Replacing /\ d = [otadata EXCEPT ![job.copy] = NoEntry]
    <3>1. job.copy = WriteCopy(otadata) /\ otadata \in [0 .. 1 -> Entry] /\ WriteCopy(otadata) \in 0 .. 1
      BY <2>2, SelectFacts, Zenon DEF OtaIInv, JobSound, Types
    <3>2. NoEntry \in Entry /\ ~IsValid(NoEntry)
      BY OtaConstants DEF NoEntry, Entry, States, IsValid
    <3>3. d \in [0 .. 1 -> Entry] /\ d[WriteCopy(otadata)] = NoEntry /\ d[1 - WriteCopy(otadata)] = otadata[1 - WriteCopy(otadata)]
      BY <2>2, <3>1, <3>2
    <3> QED BY <3>1, <3>2, <3>3, Demoted, Zenon
  <2> QED BY <2>1, <2>2, Zenon DEF TornData, Replacing
<1> QED BY <1>1, <1>2, Zenon

(* A reboot forgets the job and everything received.                       *)
LEMMA BootFacts ==
    ASSUME NEW d \in [0 .. 1 -> Entry], Distinct(d), Boot(d), slots' \in Contents
    PROVE  OtaIInv'
<1>1. NoJob \in Jobs /\ Len(NoJob.image) = 0 /\ NoJob.erased = 0 /\ NoJob.at = "idle"
  BY OtaConstants DEF NoJob, Jobs, Slot
<1>2. Types'
  BY <1>1, SelectFacts, OtaConstants DEF Boot, Types
<1>3. JobSound' /\ MarkedAsReceived'
  BY <1>1, Zenon DEF Boot, JobSound, Replacing, MarkedAsReceived
<1> QED BY <1>2, <1>3, Zenon DEF OtaIInv, Boot
-----------------------------------------------------------------------------
(* The device as flashed.                                                  *)
LEMMA OtaInitInv == OtaInit => OtaIInv
<1> SUFFICES ASSUME OtaInit PROVE OtaIInv
  BY Zenon
<1>1. slots \in Contents
  <2>1. PICK v \in Versions : slots = [s \in Slot |->
            IF s = "factory" THEN Whole(v) ELSE [n \in 1 .. SlotSectors |-> Blank]]
    BY Zenon DEF OtaInit
  <2>2. Whole(v) \in [1 .. SlotSectors -> Piece \cup {Blank}]
    BY OtaConstants DEF Whole, Piece
  <2> QED BY <2>1, <2>2, Zenon DEF Contents
<1>2. NoEntry \in Entry /\ ~IsValid(NoEntry)
  BY OtaConstants DEF NoEntry, Entry, States, IsValid
<1>3. NoJob \in Jobs /\ Len(NoJob.image) = 0 /\ NoJob.erased = 0 /\ NoJob.at = "idle"
  BY OtaConstants DEF NoJob, Jobs, Slot
<1>4. Types
  BY <1>1, <1>2, <1>3, OtaConstants DEF OtaInit, Types, Slot
<1>5. Distinct(otadata)
  BY <1>2 DEF OtaInit, Distinct
<1>6. JobSound /\ MarkedAsReceived
  BY <1>3, Zenon DEF OtaInit, JobSound, Replacing, MarkedAsReceived
<1> QED BY <1>4, <1>5, <1>6, Zenon DEF OtaIInv

(* The network task touches neither flash nor the shell's job.             *)
LEMMA ReceiveKeeps ==
    ASSUME OtaIInv, UNCHANGED <<slots, otadata, running, job>>,
           rx' = NoImage \/ (rx' \in Seq(Piece) /\ Len(rx') <= SlotSectors),
           sender' \in [v : Versions, sent : 0 .. SlotSectors + 1] \/ sender' = NoSender
    PROVE  OtaIInv'
<1>1. Types'
  BY Zenon DEF OtaIInv, Types
<1>2. Distinct(otadata)' /\ JobSound' /\ MarkedAsReceived'
  BY Zenon DEF OtaIInv, Distinct, JobSound, Replacing, MarkedAsReceived
<1> QED BY <1>1, <1>2, Zenon DEF OtaIInv

(* Every step of the update keeps the invariant.                           *)
LEMMA OtaStep == OtaIInv /\ [OtaNext]_otaVars => OtaIInv'
<1> SUFFICES ASSUME OtaIInv, [OtaNext]_otaVars PROVE OtaIInv'
  BY Zenon
<1> USE OtaConstants
<1>0. Types /\ otadata \in [0 .. 1 -> Entry] /\ job \in Jobs /\ slots \in Contents
  BY Zenon DEF OtaIInv, Types
<1>n. NoJob \in Jobs /\ Len(NoJob.image) = 0 /\ NoJob.erased = 0 /\ NoJob.at = "idle" /\ NoJob.image = << >>
  BY DEF NoJob, Jobs, Slot
<1>1. CASE RxBegin
  BY <1>1, ReceiveKeeps DEF RxBegin
<1>2. CASE RxPush
  <2> DEFINE b == IF rx = NoImage THEN << >> ELSE rx
  <2>1. b \in Seq(Piece) /\ Len(b) < SlotSectors
    BY <1>0, <1>2 DEF RxPush, Types
  <2>2. sender \in [v : Versions, sent : 0 .. SlotSectors + 1] /\ sender.sent <= SlotSectors
    BY <1>0, <1>2, Zenon DEF RxPush, Types
  <2>3. [v |-> sender.v, n |-> sender.sent + 1] \in Piece
    BY <2>2 DEF Piece
  <2>4. rx' = Append(b, [v |-> sender.v, n |-> sender.sent + 1])
    BY <1>2, Zenon DEF RxPush
  <2> HIDE DEF b
  <2>5. rx' \in Seq(Piece) /\ Len(rx') <= SlotSectors
    BY <2>1, <2>3, <2>4
  <2>6. sender' \in [v : Versions, sent : 0 .. SlotSectors + 1]
    BY <1>2, <2>2 DEF RxPush
  <2> QED BY <1>2, <2>5, <2>6, ReceiveKeeps, Zenon DEF RxPush
<1>3. CASE RxFails
  BY <1>3, ReceiveKeeps, Zenon DEF RxFails
<1>4. CASE RxClose
  BY <1>0, <1>4, ReceiveKeeps, Zenon DEF RxClose, Types
<1>5. CASE ApplyImage
  <2>1. UNCHANGED <<slots, otadata, running, sender>> /\ rx' = NoImage
    BY <1>5, Zenon DEF ApplyImage
  <2>2. CASE ValidateHeader(rx)
    <3>1. rx \in Seq(Piece) /\ Len(rx) <= SlotSectors /\ Len(rx) \in Nat
      BY <1>0, <1>5 DEF ApplyImage, Types
    <3>2. OtherSlot(ActiveSlot(otadata)) \in Slot
      BY Zenon DEF OtherSlot, Slot
    <3>3. job' = [NoJob EXCEPT !.at = "erase", !.image = rx, !.slot = OtherSlot(ActiveSlot(otadata))]
      BY <1>5, <2>2, Zenon DEF ApplyImage
    <3>4. /\ job' \in Jobs /\ job'.image = rx /\ job'.erased = 0 /\ job'.at = "erase"
          /\ job'.slot = OtherSlot(ActiveSlot(otadata))
      BY <3>1, <3>2, <3>3, <1>n, Zenon DEF Jobs
    <3>5. Types'
      BY <1>0, <2>1, <3>1, <3>4 DEF Types
    <3>6. JobSound' /\ MarkedAsReceived'
      BY <2>1, <3>4 DEF JobSound, Replacing, MarkedAsReceived
    <3> QED BY <2>1, <3>5, <3>6, Zenon DEF OtaIInv, Distinct
  <2>3. CASE ~ValidateHeader(rx)
    <3>1. job' = NoJob
      BY <1>5, <2>3, Zenon DEF ApplyImage
    <3> QED BY <1>0, <1>n, <2>1, <3>1 DEF OtaIInv, Types, Distinct, JobSound, Replacing, MarkedAsReceived
  <2> QED BY <2>2, <2>3, Zenon
<1>6. CASE Erase
  <2>1. job.at = "erase" /\ EraseSectors(job) /\ UNCHANGED <<otadata, running, rx, sender>>
    BY <1>6, Zenon DEF Erase
  <2>2. slots' \in Contents /\ \A k \in 1 .. job.erased + 1 : slots'[job.slot][k] = Blank
    BY <1>6, <2>1, EraseFacts, Zenon DEF Erase
  <2>3. /\ job' \in Jobs /\ job'.at = "erase" /\ job'.slot = job.slot /\ job'.erased = job.erased + 1
        /\ job'.image = job.image /\ job'.erased <= Len(job.image)
    BY <1>0, <1>6 DEF Erase, Types, Jobs, EraseSectors
  <2>4. Types'
    BY <1>0, <2>1, <2>2, <2>3, Zenon DEF Types
  <2>5. JobSound' /\ MarkedAsReceived'
    BY <2>1, <2>2, <2>3, Zenon DEF OtaIInv, JobSound, Replacing, MarkedAsReceived
  <2> QED BY <2>1, <2>4, <2>5, Zenon DEF OtaIInv, Distinct
<1>7. CASE Write
  <2> DEFINE w == Programmed(slots[job.slot], job.image, Len(job.image))
  <2>1. job.at = "erase" /\ ~EraseSectors(job) /\ UNCHANGED <<otadata, running, rx, sender>>
    BY <1>7, Zenon DEF Write
  <2>2. slots' \in Contents /\ slots'[job.slot] = w
    <3>1. w \in [1 .. SlotSectors -> Piece \cup {Blank}]
      BY <1>0, ProgrammedFacts DEF Types, Jobs
    <3>2. slots' = [slots EXCEPT ![job.slot] = w]
      BY <1>7, Zenon DEF Write
    <3> HIDE DEF w
    <3> QED BY <2>1, <3>1, <3>2, AimedAway, Zenon
  <2>3. job' \in Jobs /\ job'.at = "mark" /\ job'.slot = job.slot /\ job'.erased = job.erased /\ job'.image = job.image
    BY <1>0, <1>7, Zenon DEF Write, Jobs
  <2>4. \A k \in DOMAIN job.image : w[k] = job.image[k]
    <3>1. job.erased = Len(job.image) /\ Len(job.image) \in 0 .. SlotSectors /\ DOMAIN job.image = 1 .. Len(job.image)
      BY <1>0, <2>1 DEF Types, Jobs, EraseSectors
    <3>2. \A k \in 1 .. Len(job.image) : slots[job.slot][k] = Blank
      BY <2>1, <3>1, Zenon DEF OtaIInv, JobSound
    <3> QED BY <3>1, <3>2 DEF Programmed
  <2>5. Types'
    BY <1>0, <2>1, <2>2, <2>3, Zenon DEF Types
  <2>6. JobSound' /\ MarkedAsReceived'
    BY <2>2, <2>3, <2>4, Zenon DEF JobSound, Replacing, MarkedAsReceived
  <2> QED BY <2>1, <2>5, <2>6, Zenon DEF OtaIInv, Distinct
<1>8. CASE SetCommand
  <2>1. PICK s \in Slot : job' = [NoJob EXCEPT !.at = "mark", !.slot = s]
    BY <1>8, Zenon DEF SetCommand
  <2>2. job' \in Jobs /\ job'.at = "mark" /\ job'.image = << >> /\ job'.erased = 0
    BY <1>n, <2>1, Zenon DEF Jobs
  <2>3. UNCHANGED <<slots, otadata, running, rx, sender>>
    BY <1>8, Zenon DEF SetCommand
  <2>4. Types'
    BY <1>0, <2>2, <2>3 DEF Types
  <2>5. JobSound' /\ MarkedAsReceived'
    BY <2>2 DEF JobSound, Replacing, MarkedAsReceived
  <2> QED BY <2>3, <2>4, <2>5, Zenon DEF OtaIInv, Distinct
<1>9. CASE SetBootSlot
  <2> DEFINE q == NextSeqForIndex(CurrentMax(otadata), Index(job.slot))
  <2>1. job.at = "mark" /\ q <= MaxSeq /\ UNCHANGED <<slots, otadata, running, rx, sender>>
    BY <1>9, Zenon DEF SetBootSlot
  <2>2. q \in 0 .. MaxSeq /\ WriteCopy(otadata) \in 0 .. 1 /\ ActiveSlot(otadata) \in Slot
    <3>1. CurrentMax(otadata) \in Nat /\ job.slot \in Slot
      BY <1>0, SelectFacts DEF Jobs
    <3> QED BY <1>0, <2>1, <3>1, SelectFacts, NextSeqFacts
  <2>3. job' = [job EXCEPT !.at = "erase_copy", !.seq = q, !.copy = WriteCopy(otadata), !.from = ActiveSlot(otadata)]
    BY <1>9, Zenon DEF SetBootSlot
  <2>q. q = NextSeqForIndex(CurrentMax(otadata), Index(job.slot))
    BY Zenon
  <2> HIDE DEF q
  <2>4. /\ job' \in Jobs /\ job'.at = "erase_copy" /\ job'.slot = job.slot /\ job'.image = job.image
        /\ job'.erased = job.erased /\ job'.seq = q /\ job'.copy = WriteCopy(otadata) /\ job'.from = ActiveSlot(otadata)
    BY <1>0, <2>2, <2>3, Zenon DEF Jobs
  <2>5. Types'
    BY <1>0, <2>1, <2>4, Zenon DEF Types
  <2>6. JobSound'
    BY <2>1, <2>4, <2>q, Zenon DEF JobSound
  <2>7. MarkedAsReceived'
    BY <2>1, <2>4, Zenon DEF OtaIInv, MarkedAsReceived
  <2> QED BY <2>1, <2>5, <2>6, <2>7, Zenon DEF OtaIInv, Distinct
<1>10. CASE EraseCopy
  <2>1. job.at = "erase_copy" /\ Replacing /\ UNCHANGED <<slots, running, rx, sender>> /\ otadata' = [otadata EXCEPT ![job.copy] = NoEntry]
    BY <1>10, Zenon DEF EraseCopy, Replacing
  <2>2. otadata' \in TornData
    BY <2>1, Zenon DEF TornData, Replacing
  <2>3. otadata' \in [0 .. 1 -> Entry] /\ Agree(otadata, otadata') /\ Distinct(otadata')
    BY <2>2, TornFacts, Zenon
  <2>4. /\ job' \in Jobs /\ job'.at = "write_copy" /\ job'.slot = job.slot /\ job'.image = job.image
        /\ job'.erased = job.erased /\ job'.seq = job.seq /\ job'.copy = job.copy /\ job'.from = job.from
    BY <1>0, <1>10, Zenon DEF EraseCopy, Jobs
  <2>5. Types'
    BY <1>0, <2>1, <2>3, <2>4, Zenon DEF Types
  <2>6. otadata'[job.copy] = NoEntry
    BY <1>0, <2>1, Zenon DEF Jobs
  <2>7. JobSound'
    BY <2>1, <2>3, <2>4, <2>6, Zenon DEF OtaIInv, JobSound, Agree
  <2>8. MarkedAsReceived'
    BY <2>1, <2>4, Zenon DEF OtaIInv, MarkedAsReceived
  <2> QED BY <2>3, <2>5, <2>7, <2>8, Zenon DEF OtaIInv
<1>11. CASE WriteEntry
  <2>1. /\ job.at = "write_copy" /\ Replacing /\ UNCHANGED <<slots, running, rx, sender>> /\ job' = NoJob
        /\ otadata' = [otadata EXCEPT ![job.copy] = [seq |-> job.seq, state |-> "pending"]]
    BY <1>11, Zenon DEF WriteEntry, Replacing
  <2>2. job.copy = WriteCopy(otadata) /\ job.copy \in 0 .. 1 /\ job.seq \in 0 .. MaxSeq /\ job.seq > CurrentMax(otadata) /\ CurrentMax(otadata) \in Nat
    <3>1. CurrentMax(otadata) \in Nat /\ job.slot \in Slot
      BY <1>0, SelectFacts DEF Jobs
    <3> QED BY <1>0, <2>1, <3>1, NextSeqFacts DEF OtaIInv, JobSound, Jobs
  <2>3. otadata' \in [0 .. 1 -> Entry] /\ otadata'[job.copy] = [seq |-> job.seq, state |-> "pending"] /\ otadata'[1 - job.copy] = otadata[1 - job.copy]
    BY <1>0, <2>1, <2>2 DEF Entry, States
  <2>4. IsValid(otadata'[job.copy]) /\ otadata'[job.copy].seq = job.seq
    BY <2>2, <2>3 DEF IsValid
  <2>5. Distinct(otadata')
    BY <1>0, <2>2, <2>3, <2>4, Promoted, Zenon
  <2>6. Types'
    BY <1>0, <1>n, <2>1, <2>3 DEF Types
  <2>7. JobSound' /\ MarkedAsReceived'
    BY <1>n, <2>1, Zenon DEF JobSound, Replacing, MarkedAsReceived
  <2> QED BY <2>5, <2>6, <2>7, Zenon DEF OtaIInv
<1>12. CASE UpdateFails
  <2>1. slots' \in Contents /\ otadata' \in [0 .. 1 -> Entry] /\ Distinct(otadata')
    BY <1>12, TornFacts, Zenon DEF UpdateFails
  <2>2. job' = NoJob /\ UNCHANGED <<running, rx, sender>>
    BY <1>12, Zenon DEF UpdateFails
  <2>3. Types'
    BY <1>0, <1>n, <2>1, <2>2 DEF Types
  <2>4. JobSound' /\ MarkedAsReceived'
    BY <1>n, <2>2, Zenon DEF JobSound, Replacing, MarkedAsReceived
  <2> QED BY <2>1, <2>3, <2>4, Zenon DEF OtaIInv
<1>13. CASE SetState
  <2> DEFINE i == SelectActiveIndex(otadata)
  <2>1. PICK s \in States :
          IF s = "invalid" THEN Boot([otadata EXCEPT ![i] = [seq |-> @.seq, state |-> s]]) /\ UNCHANGED slots
          ELSE otadata' = [otadata EXCEPT ![i] = [seq |-> @.seq, state |-> s]] /\ UNCHANGED <<slots, running, rx, sender, job>>
    BY <1>13, Zenon DEF SetState
  <2>2. i \in 0 .. 1 /\ Distinct(otadata)
    BY <1>0, <1>13, SelectFacts DEF SetState, OtaIInv
  <2>3. CASE s = "invalid"
    <3> DEFINE d == [otadata EXCEPT ![i] = [seq |-> @.seq, state |-> s]]
    <3>1. d \in [0 .. 1 -> Entry] /\ ~IsValid(d[i])
      BY <1>0, <2>2, <2>3, Zenon DEF Entry, IsValid
    <3>2. Distinct(d)
      BY <2>2, <3>1 DEF Distinct
    <3>3. Boot(d) /\ slots' \in Contents
      BY <1>0, <2>1, <2>3, Zenon
    <3> HIDE DEF d
    <3> QED BY <3>1, <3>2, <3>3, BootFacts, Zenon
  <2>4. CASE s # "invalid"
    <3>1. otadata' = [otadata EXCEPT ![i] = [seq |-> @.seq, state |-> s]] /\ UNCHANGED <<slots, running, rx, sender, job>>
      BY <2>1, <2>4, Zenon
    <3>2. /\ otadata' \in [0 .. 1 -> Entry] /\ Agree(otadata, otadata') /\ Distinct(otadata')
          /\ otadata'[WriteCopy(otadata)] = otadata[WriteCopy(otadata)]
      <4>1. /\ otadata' \in [0 .. 1 -> Entry] /\ otadata'[1 - i] = otadata[1 - i]
            /\ otadata'[i].seq = otadata[i].seq /\ otadata'[i].state # "invalid"
        BY <1>0, <2>2, <2>4, <3>1 DEF Entry
      <4> QED BY <1>0, <2>2, <4>1, Restated, Zenon
    <3>3. Types'
      BY <1>0, <3>1, <3>2, Zenon DEF Types
    <3>4. JobSound'
      BY <3>1, <3>2, Zenon DEF OtaIInv, JobSound, Replacing, Agree
    <3>5. MarkedAsReceived'
      BY <3>1, Zenon DEF OtaIInv, MarkedAsReceived
    <3> QED BY <3>2, <3>3, <3>4, <3>5, Zenon DEF OtaIInv
  <2> QED BY <2>3, <2>4, Zenon
<1>14. CASE SetStateStops
  <2> DEFINE i == SelectActiveIndex(otadata)
             d == [otadata EXCEPT ![i] = NoEntry]
  <2>1. i \in 0 .. 1
    BY <1>0, <1>14, SelectFacts DEF SetStateStops
  <2>2. NoEntry \in Entry /\ ~IsValid(NoEntry)
    BY DEF NoEntry, Entry, States, IsValid
  <2>3. d \in [0 .. 1 -> Entry] /\ Distinct(d)
    BY <1>0, <2>1, <2>2 DEF Distinct
  <2>4. Boot(d) /\ slots' \in Contents
    BY <1>0, <1>14, Zenon DEF SetStateStops
  <2> HIDE DEF d
  <2> QED BY <2>3, <2>4, BootFacts, Zenon
<1>15. CASE Stop
  <2>1. PICK d \in TornData : Boot(d)
    BY <1>15, Zenon DEF Stop
  <2>2. d \in [0 .. 1 -> Entry] /\ Distinct(d) /\ slots' \in Contents
    BY <1>15, TornFacts, Zenon DEF Stop
  <2> QED BY <2>1, <2>2, BootFacts, Zenon
<1>16. CASE UNCHANGED otaVars
  BY <1>16, Zenon DEF otaVars, OtaIInv, Types, Distinct, JobSound, Replacing, MarkedAsReceived
<1> QED BY <1>1, <1>2, <1>3, <1>4, <1>5, <1>6, <1>7, <1>8, <1>9, <1>10, <1>11, <1>12, <1>13, <1>14, <1>15, <1>16, Zenon DEF OtaNext

(* The invariant of the update holds in every reachable state.             *)
THEOREM OtaInvariant == OtaSpec => []OtaIInv
BY OtaInitInv, OtaStep, PTL DEF OtaSpec

(* The types, and two valid copies never carry the same number, so that    *)
(* which of them counts is never a matter of their order.                  *)
THEOREM OtaTypeCorrect == OtaSpec => []OtaTypeOK
<1>1. OtaIInv => OtaTypeOK
  <2> SUFFICES ASSUME OtaIInv PROVE OtaTypeOK
    BY Zenon
  <2>1. rx = NoImage \/ (Len(rx) <= SlotSectors /\ \A i \in DOMAIN rx : rx[i] \in Piece)
    BY DEF OtaIInv, Types
  <2>2. sender \in [v : Versions \cup {0}, sent : 0 .. SlotSectors + 1]
    BY OtaConstants DEF OtaIInv, Types, NoSender
  <2> QED BY <2>1, <2>2, Zenon DEF OtaIInv, Types, Contents, Entry, Distinct, Jobs, OtaTypeOK
<1> QED BY <1>1, OtaInvariant, PTL

(* Power lost anywhere inside set_boot_slot boots what would have booted   *)
(* before; once it is done the slot it was asked for boots.                *)
THEOREM UpdateBootsSafely == OtaSpec => []BootSlotSafe
<1>1. OtaIInv => BootSlotSafe
  <2> SUFFICES ASSUME OtaIInv, Replacing
               PROVE  /\ ActiveSlot(otadata) = job.from
                      /\ ActiveSlot([otadata EXCEPT ![job.copy] = NoEntry]) = job.from
                      /\ ActiveSlot([otadata EXCEPT ![job.copy] = [seq |-> job.seq, state |-> "pending"]]) = job.slot
    BY Zenon DEF BootSlotSafe, Replacing
  <2>1. [otadata EXCEPT ![job.copy] = NoEntry] \in TornData
    BY Zenon DEF TornData, Replacing
  <2>2. ActiveSlot([otadata EXCEPT ![job.copy] = NoEntry]) = ActiveSlot(otadata) /\ ActiveSlot(otadata) = job.from
    BY <2>1, TornFacts, Zenon DEF Agree, OtaIInv, JobSound
  <2>3. /\ job.copy = WriteCopy(otadata) /\ job.copy \in 0 .. 1 /\ job.seq \in 0 .. MaxSeq /\ CurrentMax(otadata) \in Nat
        /\ job.seq = NextSeqForIndex(CurrentMax(otadata), Index(job.slot)) /\ job.slot \in Slot /\ otadata \in [0 .. 1 -> Entry]
    BY SelectFacts, OtaConstants DEF OtaIInv, JobSound, Types, Jobs
  <2>4. job.seq > CurrentMax(otadata) /\ SlotFromSeq(job.seq) = job.slot
    BY <2>3, NextSeqFacts, Zenon
  <2> DEFINE e == [otadata EXCEPT ![job.copy] = [seq |-> job.seq, state |-> "pending"]]
  <2>5. e \in [0 .. 1 -> Entry] /\ e[job.copy] = [seq |-> job.seq, state |-> "pending"] /\ e[1 - job.copy] = otadata[1 - job.copy]
    BY <2>3, SMTT(30) DEF Entry, States
  <2> HIDE DEF e
  <2>6. IsValid(e[job.copy]) /\ e[job.copy].seq = job.seq
    BY <2>3, <2>4, <2>5 DEF IsValid
  <2>7. ActiveSlot(e) = job.slot
    BY <2>3, <2>4, <2>5, <2>6, Promoted, Zenon
  <2> QED BY <2>2, <2>7, Zenon DEF e
<1> QED BY <1>1, OtaInvariant, PTL

(* What `ota apply` marks for booting is what was received, sector by      *)
(* sector, because every sector it programs was erased before.             *)
THEOREM AppliesWhatArrived == OtaSpec => []MarkedAsReceived
<1>1. OtaIInv => MarkedAsReceived
  BY Zenon DEF OtaIInv
<1> QED BY <1>1, OtaInvariant, PTL

(* Nothing an update does, finished, failed or cut short, touches the slot *)
(* that the otadata name for booting.                                      *)
THEOREM BootImageUntouched == OtaSpec => ActiveImageKept
<1>1. OtaIInv /\ [OtaNext]_otaVars => [slots'[ActiveSlot(otadata)] = slots[ActiveSlot(otadata)]]_otaVars
  <2> SUFFICES ASSUME OtaIInv, OtaNext
               PROVE  slots'[ActiveSlot(otadata)] = slots[ActiveSlot(otadata)]
    BY Zenon
  <2>2. slots' = slots \/ Erase \/ Write \/ UpdateFails \/ Stop
    BY Zenon DEF OtaNext, RxBegin, RxPush, RxFails, RxClose, ApplyImage, SetCommand, SetBootSlot, EraseCopy,
           WriteEntry, SetState, SetStateStops
  <2>3. CASE Erase
    BY <2>3, EraseFacts, Zenon DEF Erase
  <2>4. CASE Write
    <3> DEFINE w == Programmed(slots[job.slot], job.image, Len(job.image))
    <3>1. w \in [1 .. SlotSectors -> Piece \cup {Blank}]
      BY ProgrammedFacts DEF OtaIInv, Types, Jobs
    <3>2. slots' = [slots EXCEPT ![job.slot] = w] /\ job.at = "erase"
      BY <2>4, Zenon DEF Write
    <3> HIDE DEF w
    <3> QED BY <3>1, <3>2, AimedAway, Zenon
  <2>5. CASE UpdateFails \/ Stop
    BY <2>5, TornFacts, Zenon DEF UpdateFails, Stop
  <2> QED BY <2>2, <2>3, <2>4, <2>5, Zenon
<1> QED BY <1>1, OtaInvariant, PTL DEF OtaSpec, ActiveImageKept

(* Marking a freshly booted image invalid brings back the slot that was    *)
(* booted before it.                                                       *)
THEOREM RollbackFindsOld == OtaSpec => RollbackReturns
<1> DEFINE R == (job.at = "write_copy" /\ otadata'[job.copy].seq = job.seq) =>
                ActiveSlot([otadata' EXCEPT ![job.copy].state = "invalid"]) = job.from
<1>1. OtaIInv /\ [OtaNext]_otaVars => [R]_otaVars
  <2> SUFFICES ASSUME OtaIInv, OtaNext, job.at = "write_copy", otadata'[job.copy].seq = job.seq
               PROVE  ActiveSlot([otadata' EXCEPT ![job.copy].state = "invalid"]) = job.from
    BY Zenon
  <2>1. /\ job.copy = WriteCopy(otadata) /\ job.copy \in 0 .. 1 /\ job.from = ActiveSlot(otadata) /\ job.seq \in Nat /\ job.seq > 0
        /\ otadata \in [0 .. 1 -> Entry] /\ otadata[job.copy] = NoEntry
    <3>1. CurrentMax(otadata) \in Nat /\ job.slot \in Slot
      BY SelectFacts, OtaConstants DEF OtaIInv, Types, Jobs
    <3>2. job.seq = NextSeqForIndex(CurrentMax(otadata), Index(job.slot))
      BY Zenon DEF OtaIInv, JobSound, Replacing
    <3>3. job.seq \in Nat /\ job.seq > 0
      BY <3>1, <3>2, NextSeqFacts
    <3> QED BY <3>3, Zenon DEF OtaIInv, JobSound, Replacing, Types, Jobs
  <2>2. SelectActiveIndex(otadata) # job.copy
    BY <2>1, SelectFacts, Zenon
  <2>3. otadata' # otadata
    BY <2>1 DEF NoEntry
  <2>4. ~(\E d \in TornData : otadata' = d)
    BY <2>1 DEF TornData, NoEntry
  <2>5. WriteEntry
    <3>1. ASSUME SetState \/ SetStateStops PROVE FALSE
      <4> DEFINE i == SelectActiveIndex(otadata)
      <4>1. \E x : otadata' = [otadata EXCEPT ![i] = x]
        BY <3>1, Zenon DEF SetState, SetStateStops, Boot
      <4>2. otadata'[job.copy] = otadata[job.copy]
        BY <2>1, <2>2, <4>1, Zenon
      <4> QED BY <2>1, <4>2 DEF NoEntry
    <3> QED BY <2>3, <2>4, <3>1, Zenon DEF OtaNext, RxBegin, RxPush, RxFails, RxClose, ApplyImage, Erase, Write, SetCommand,
              SetBootSlot, EraseCopy, UpdateFails, Stop, Boot
  <2> DEFINE e == [otadata' EXCEPT ![job.copy].state = "invalid"]
  <2>6. otadata' = [otadata EXCEPT ![job.copy] = [seq |-> job.seq, state |-> "pending"]]
    BY <2>5, Zenon DEF WriteEntry
  <2>7. e = [otadata EXCEPT ![job.copy] = [seq |-> job.seq, state |-> "invalid"]]
    BY <2>1, <2>6
  <2>8. job.seq \in 0 .. MaxSeq
    BY Zenon DEF OtaIInv, Types, Jobs
  <2> HIDE DEF e
  <2>9. e \in [0 .. 1 -> Entry] /\ e[1 - job.copy] = otadata[1 - job.copy] /\ ~IsValid(e[job.copy])
    BY <2>1, <2>7, <2>8 DEF Entry, States, IsValid
  <2>10. ActiveSlot(e) = job.from
    BY <2>1, <2>9, Demoted, Zenon DEF Agree
  <2> QED BY <2>10, Zenon DEF e
<1> QED BY <1>1, OtaInvariant, PTL DEF OtaSpec, RollbackReturns
-----------------------------------------------------------------------------
(* The sections of Locks: a guard is dropped before the ones made before   *)
(* it, and mutexes are taken in an order, with one inversion.              *)

LockOp == {"lock", "drop"} \X Mutexes

(* t is the stack s with m on top.                                         *)
Pushed(s, t, m) ==
    /\ Len(t) = Len(s) + 1 /\ t[Len(s) + 1] = m
    /\ \A k \in 1 .. Len(s) : t[k] = s[k]

(* held[i] are the mutexes held before the i-th operation, each lock taken *)
(* under mutexes that R allows it to be taken under.                       *)
Nests(ops, R, held) ==
    /\ ops \in Seq(LockOp)
    /\ held \in [1 .. Len(ops) + 1 -> Seq(Mutexes)]
    /\ Len(held[1]) = 0 /\ Len(held[Len(ops) + 1]) = 0
    /\ \A i \in 1 .. Len(ops) :
          \/ /\ ops[i][1] = "lock" /\ Pushed(held[i], held[i + 1], ops[i][2])
             /\ \A k \in 1 .. Len(held[i]) : <<held[i][k], ops[i][2]>> \in R
          \/ ops[i][1] = "drop" /\ Pushed(held[i + 1], held[i], ops[i][2])

Nested(ops, R) == \E held : Nests(ops, R, held)
Takes(ops) == {ops[i][2] : i \in 1 .. Len(ops)}

(* A section that takes nothing.                                           *)
LEMMA NestNone ==
    ASSUME NEW R
    PROVE  Nested(<< >>, R) /\ Takes(<< >>) = {}
<1> DEFINE held == [i \in 1 .. 1 |-> << >>]
<1>1. /\ << >> \in Seq(LockOp) /\ Len(<< >>) = 0
      /\ held \in [1 .. 1 -> Seq(Mutexes)] /\ Len(held[1]) = 0
  OBVIOUS
<1>2. Nests(<< >>, R, held)
  BY <1>1 DEF Nests
<1> QED BY <1>1, <1>2 DEF Nested, Takes

(* One section after another.                                              *)
LEMMA NestThen ==
    ASSUME NEW R, NEW a, Nested(a, R), NEW b, Nested(b, R)
    PROVE  Nested(a \o b, R) /\ Takes(a \o b) = Takes(a) \cup Takes(b)
<1> DEFINE ops == a \o b
<1>1. PICK g : Nests(a, R, g)
  BY Zenon DEF Nested
<1>2. PICK h : Nests(b, R, h)
  BY Zenon DEF Nested
<1>3. a \in Seq(LockOp) /\ b \in Seq(LockOp) /\ Len(a) \in Nat /\ Len(b) \in Nat
  BY <1>1, <1>2 DEF Nests
<1>4. /\ ops \in Seq(LockOp) /\ Len(ops) = Len(a) + Len(b)
      /\ \A i \in 1 .. Len(a) : ops[i] = a[i]
      /\ \A i \in 1 .. Len(b) : ops[Len(a) + i] = b[i]
  BY <1>3
<1> HIDE DEF ops
<1> DEFINE held == [i \in 1 .. Len(ops) + 1 |->
                       IF i <= Len(a) THEN g[i] ELSE h[i - Len(a)]]
<1>5. /\ g \in [1 .. Len(a) + 1 -> Seq(Mutexes)] /\ h \in [1 .. Len(b) + 1 -> Seq(Mutexes)]
      /\ Len(g[1]) = 0 /\ Len(g[Len(a) + 1]) = 0 /\ Len(h[1]) = 0 /\ Len(h[Len(b) + 1]) = 0
  BY <1>1, <1>2, Zenon DEF Nests
<1>6. held \in [1 .. Len(ops) + 1 -> Seq(Mutexes)]
  BY <1>3, <1>4, <1>5
<1>7. /\ \A i \in 1 .. Len(a) : held[i] = g[i]
      /\ \A i \in 1 .. Len(b) + 1 : held[Len(a) + i] = h[i]
  BY <1>3, <1>4
<1>8. g[Len(a) + 1] = << >> /\ h[1] = << >>
  BY <1>3, <1>5
<1> HIDE DEF held
<1>9. \A i \in 1 .. Len(a) + 1 : held[i] = g[i]
  <2>1. 1 \in 1 .. Len(b) + 1 /\ held[Len(a) + 1] = g[Len(a) + 1]
    BY <1>3, <1>7, <1>8
  <2>2. \A i \in 1 .. Len(a) + 1 : i \in 1 .. Len(a) \/ i = Len(a) + 1
    BY <1>3
  <2> QED BY <1>7, <2>1, <2>2, Zenon
<1>10. ASSUME NEW i \in 1 .. Len(ops)
       PROVE  \/ /\ ops[i][1] = "lock" /\ Pushed(held[i], held[i + 1], ops[i][2])
                 /\ \A k \in 1 .. Len(held[i]) : <<held[i][k], ops[i][2]>> \in R
              \/ ops[i][1] = "drop" /\ Pushed(held[i + 1], held[i], ops[i][2])
  <2>1. CASE i <= Len(a)
    <3>1. i \in 1 .. Len(a) /\ ops[i] = a[i] /\ held[i] = g[i] /\ held[i + 1] = g[i + 1]
      <4>1. i \in 1 .. Len(a) /\ i \in 1 .. Len(a) + 1 /\ i + 1 \in 1 .. Len(a) + 1
        BY <1>3, <2>1
      <4> QED BY <1>4, <1>9, <4>1, Zenon
    <3> QED BY <1>1, <3>1, Zenon DEF Nests
  <2>2. CASE i > Len(a)
    <3>1. PICK j \in 1 .. Len(b) : i = Len(a) + j
      <4>1. i - Len(a) \in 1 .. Len(b) /\ i = Len(a) + (i - Len(a))
        BY <1>3, <1>4, <2>2
      <4> QED BY <4>1, Zenon
    <3>2. ops[i] = b[j] /\ held[i] = h[j] /\ held[i + 1] = h[j + 1]
      <4>1. j + 1 \in 1 .. Len(b) + 1 /\ j \in 1 .. Len(b) + 1 /\ i + 1 = Len(a) + (j + 1)
        BY <1>3, <3>1
      <4> QED BY <1>4, <1>7, <3>1, <4>1, Zenon
    <3> QED BY <1>2, <3>1, <3>2, Zenon DEF Nests
  <2> QED BY <1>3, <2>1, <2>2
<1>11. Len(held[1]) = 0 /\ Len(held[Len(ops) + 1]) = 0
  <2>1. /\ 1 \in 1 .. Len(a) + 1 /\ Len(b) + 1 \in 1 .. Len(b) + 1
        /\ Len(ops) + 1 = Len(a) + (Len(b) + 1)
    BY <1>3, <1>4
  <2> QED BY <1>5, <1>7, <1>9, <2>1, Zenon
<1>12. Nests(ops, R, held)
  BY <1>4, <1>6, <1>10, <1>11, Zenon DEF Nests
<1>13. Takes(ops) = Takes(a) \cup Takes(b)
  <2>1. ASSUME NEW x \in Takes(ops) PROVE x \in Takes(a) \cup Takes(b)
    <3>1. PICK i \in 1 .. Len(ops) : x = ops[i][2]
      BY <2>1, Zenon DEF Takes
    <3>2. CASE i <= Len(a)
      BY <1>3, <1>4, <3>1, <3>2 DEF Takes
    <3>3. CASE i > Len(a)
      <4>1. i - Len(a) \in 1 .. Len(b) /\ i = Len(a) + (i - Len(a))
        BY <1>3, <1>4, <3>3
      <4> QED BY <1>4, <3>1, <4>1, Zenon DEF Takes
    <3> QED BY <1>3, <3>2, <3>3
  <2>2. ASSUME NEW x \in Takes(a) PROVE x \in Takes(ops)
    BY <1>3, <1>4, <2>2 DEF Takes
  <2>3. ASSUME NEW x \in Takes(b) PROVE x \in Takes(ops)
    <3>1. PICK i \in 1 .. Len(b) : x = b[i][2]
      BY <2>3, Zenon DEF Takes
    <3>2. Len(a) + i \in 1 .. Len(ops)
      BY <1>3, <1>4
    <3> QED BY <1>4, <3>1, <3>2, Zenon DEF Takes
  <2> QED BY <2>1, <2>2, <2>3, Zenon
<1> QED BY <1>12, <1>13, Zenon DEF Nested, ops

(* A section inside a guard, if m may be held for what it takes.           *)
LEMMA NestIn ==
    ASSUME NEW R, NEW m \in Mutexes, NEW a, Nested(a, R),
           \A x \in Takes(a) : <<m, x>> \in R
    PROVE  Nested(In(m, a), R) /\ Takes(In(m, a)) = Takes(a) \cup {m}
<1> DEFINE ops == In(m, a)
           n == Len(a)
<1>1. PICK g : Nests(a, R, g)
  BY Zenon DEF Nested
<1>2. a \in Seq(LockOp) /\ n \in Nat
  BY <1>1 DEF Nests
<1>3. /\ ops \in Seq(LockOp) /\ Len(ops) = n + 2
      /\ ops[1] = <<"lock", m>> /\ ops[n + 2] = <<"drop", m>>
      /\ \A i \in 1 .. n : ops[i + 1] = a[i]
  <2> DEFINE l == <<"lock", m>>
             d == <<"drop", m>>
  <2>1. l \in LockOp /\ d \in LockOp
    BY Zenon DEF LockOp
  <2>2. ops = <<l>> \o a \o <<d>>
    BY Zenon DEF In
  <2> HIDE DEF l, d, ops
  <2>3. /\ ops \in Seq(LockOp) /\ Len(ops) = n + 2 /\ ops[1] = l /\ ops[n + 2] = d
        /\ \A i \in 1 .. n : ops[i + 1] = a[i]
    BY <1>2, <2>1, <2>2
  <2> QED BY <2>3, Zenon DEF l, d
<1> HIDE DEF ops
<1>4. /\ g \in [1 .. n + 1 -> Seq(Mutexes)] /\ Len(g[1]) = 0 /\ Len(g[n + 1]) = 0
      /\ \A i \in 1 .. n :
            \/ /\ a[i][1] = "lock" /\ Pushed(g[i], g[i + 1], a[i][2])
               /\ \A k \in 1 .. Len(g[i]) : <<g[i][k], a[i][2]>> \in R
            \/ a[i][1] = "drop" /\ Pushed(g[i + 1], g[i], a[i][2])
  BY <1>1, Zenon DEF Nests
<1> HIDE DEF n
<1> DEFINE Over(s) == <<m>> \o s
           held == [i \in 1 .. Len(ops) + 1 |->
                       IF i \in 2 .. n + 2 THEN Over(g[i - 1]) ELSE << >>]
<1>5. ASSUME NEW s \in Seq(Mutexes)
      PROVE  /\ Over(s) \in Seq(Mutexes) /\ Len(Over(s)) = Len(s) + 1 /\ Len(s) \in Nat
             /\ Over(s)[1] = m
             /\ \A k \in 1 .. Len(s) : Over(s)[k + 1] = s[k]
  OBVIOUS
<1>6. ASSUME NEW s \in Seq(Mutexes), NEW t \in Seq(Mutexes), NEW x, Pushed(s, t, x)
      PROVE  Pushed(Over(s), Over(t), x)
  <2>1. Len(Over(t)) = Len(Over(s)) + 1 /\ Over(t)[Len(Over(s)) + 1] = x
    BY <1>5, <1>6 DEF Pushed
  <2>2. ASSUME NEW k \in 1 .. Len(Over(s)) PROVE Over(t)[k] = Over(s)[k]
    <3>1. CASE k = 1
      BY <1>5, <3>1, Zenon
    <3>2. CASE k # 1
      <4>1. PICK j \in 1 .. Len(s) : k = j + 1
        <5>1. k - 1 \in 1 .. Len(s) /\ k = (k - 1) + 1
          BY <1>5, <3>2
        <5> QED BY <5>1, Zenon
      <4>2. j \in 1 .. Len(t) /\ t[j] = s[j]
        BY <1>5, <1>6, <4>1 DEF Pushed
      <4> QED BY <1>5, <4>1, <4>2, Zenon
    <3> QED BY <3>1, <3>2, Zenon
  <2> QED BY <2>1, <2>2, Zenon DEF Pushed
<1> HIDE DEF Over
<1>7. /\ held \in [1 .. Len(ops) + 1 -> Seq(Mutexes)]
      /\ held[1] = << >> /\ held[n + 3] = << >>
      /\ \A i \in 1 .. n + 1 : held[i + 1] = Over(g[i])
  <2>1. \A i \in 2 .. n + 2 : g[i - 1] \in Seq(Mutexes)
    BY <1>2, <1>4 DEF n
  <2>2. \A i \in 2 .. n + 2 : Over(g[i - 1]) \in Seq(Mutexes)
    BY <1>5, <2>1, Zenon
  <2>3. held \in [1 .. Len(ops) + 1 -> Seq(Mutexes)]
    BY <2>2
  <2>4. held[1] = << >> /\ held[n + 3] = << >> /\ \A i \in 1 .. n + 1 : held[i + 1] = Over(g[i])
    BY <1>2, <1>3 DEF n
  <2> QED BY <2>3, <2>4, Zenon
<1> HIDE DEF held
<1>8. ASSUME NEW i \in 1 .. Len(ops)
      PROVE  \/ /\ ops[i][1] = "lock" /\ Pushed(held[i], held[i + 1], ops[i][2])
                /\ \A k \in 1 .. Len(held[i]) : <<held[i][k], ops[i][2]>> \in R
             \/ ops[i][1] = "drop" /\ Pushed(held[i + 1], held[i], ops[i][2])
  <2>1. n \in Nat /\ 1 \in 1 .. n + 1 /\ n + 1 \in 1 .. n + 1
    BY <1>2 DEF n
  <2>2. /\ g[1] \in Seq(Mutexes) /\ g[n + 1] \in Seq(Mutexes)
        /\ held[2] = Over(g[1]) /\ held[n + 2] = Over(g[n + 1])
    BY <1>4, <1>7, <2>1
  <2>3. /\ Pushed(<< >>, Over(g[1]), m) /\ Pushed(<< >>, Over(g[n + 1]), m)
    <3>1. /\ Len(Over(g[1])) = Len(g[1]) + 1 /\ Over(g[1])[1] = m
          /\ Len(Over(g[n + 1])) = Len(g[n + 1]) + 1 /\ Over(g[n + 1])[1] = m
      BY <1>5, <2>2, Zenon
    <3>2. ASSUME NEW t, Len(t) = 1, t[1] = m PROVE Pushed(<< >>, t, m)
      BY <3>2 DEF Pushed
    <3>3. Len(Over(g[1])) = 1 /\ Len(Over(g[n + 1])) = 1
      BY <1>4, <3>1
    <3> QED BY <3>1, <3>2, <3>3, Zenon
  <2>4. CASE i = 1
    BY <1>3, <1>7, <2>2, <2>3, <2>4
  <2>5. CASE i = n + 2
    BY <1>3, <1>7, <2>1, <2>2, <2>3, <2>5
  <2>6. CASE i # 1 /\ i # n + 2
    <3>1. PICK j \in 1 .. n : i = j + 1
      <4>1. i - 1 \in 1 .. n /\ i = (i - 1) + 1
        BY <1>3, <2>1, <2>6
      <4> QED BY <4>1, Zenon
    <3>2. /\ ops[i] = a[j] /\ held[i] = Over(g[j]) /\ held[i + 1] = Over(g[j + 1])
          /\ g[j] \in Seq(Mutexes) /\ g[j + 1] \in Seq(Mutexes)
      <4>1. j \in 1 .. n + 1 /\ j + 1 \in 1 .. n + 1
        BY <2>1, <3>1
      <4>2. held[i] = Over(g[j]) /\ held[i + 1] = Over(g[j + 1]) /\ ops[i] = a[j]
        BY <1>3, <1>7, <3>1, <4>1, Zenon
      <4> QED BY <1>4, <4>1, <4>2, Zenon
    <3>3. CASE /\ a[j][1] = "lock" /\ Pushed(g[j], g[j + 1], a[j][2])
               /\ \A k \in 1 .. Len(g[j]) : <<g[j][k], a[j][2]>> \in R
      <4>1. Pushed(held[i], held[i + 1], a[j][2])
        BY <1>6, <3>2, <3>3, Zenon
      <4>2. a[j][2] \in Takes(a)
        BY <3>1, Zenon DEF Takes, n
      <4>3. ASSUME NEW k \in 1 .. Len(held[i]) PROVE <<held[i][k], a[j][2]>> \in R
        <5>1. CASE k = 1
          BY <1>5, <3>2, <4>2, <5>1
        <5>2. CASE k # 1
          <6>1. PICK q \in 1 .. Len(g[j]) : k = q + 1
            <7>0. Len(held[i]) = Len(g[j]) + 1 /\ Len(g[j]) \in Nat
              BY <1>5, <3>2, Zenon
            <7>1. k - 1 \in 1 .. Len(g[j]) /\ k = (k - 1) + 1
              BY ONLY <7>0, <5>2, k \in 1 .. Len(held[i])
            <7> QED BY <7>1, Zenon
          <6>2. held[i][k] = g[j][q]
            BY <1>5, <3>2, <6>1, Zenon
          <6> QED BY <3>3, <6>1, <6>2, Zenon
        <5> QED BY <5>1, <5>2, Zenon
      <4> QED BY <3>2, <3>3, <4>1, <4>3, Zenon
    <3>4. CASE a[j][1] = "drop" /\ Pushed(g[j + 1], g[j], a[j][2])
      BY <1>6, <3>2, <3>4, Zenon
    <3> QED BY <1>4, <3>3, <3>4, Zenon
  <2> QED BY <2>4, <2>5, <2>6, Zenon
<1>9. Len(held[1]) = 0 /\ Len(held[Len(ops) + 1]) = 0
  BY <1>2, <1>3, <1>7 DEF n
<1>10. Nests(ops, R, held)
  BY <1>3, <1>7, <1>8, <1>9, Zenon DEF Nests
<1>11. Takes(ops) = Takes(a) \cup {m}
  <2>1. ASSUME NEW x \in Takes(ops) PROVE x \in Takes(a) \cup {m}
    <3>1. PICK i \in 1 .. Len(ops) : x = ops[i][2]
      BY <2>1, Zenon DEF Takes
    <3>2. CASE i = 1 \/ i = n + 2
      BY <1>3, <3>1, <3>2
    <3>3. CASE i # 1 /\ i # n + 2
      <4>1. i - 1 \in 1 .. n /\ i = (i - 1) + 1
        BY <1>2, <1>3, <3>3 DEF n
      <4>2. ops[i] = a[i - 1]
        BY <1>3, <4>1, Zenon
      <4> QED BY <3>1, <4>1, <4>2, Zenon DEF Takes, n
    <3> QED BY <3>2, <3>3, Zenon
  <2>2. ASSUME NEW x \in Takes(a) PROVE x \in Takes(ops)
    <3>1. PICK i \in 1 .. n : x = a[i][2]
      BY <2>2, Zenon DEF Takes, n
    <3>2. i + 1 \in 1 .. Len(ops)
      BY <1>2, <1>3 DEF n
    <3> QED BY <1>3, <3>1, <3>2, Zenon DEF Takes
  <2>3. m \in Takes(ops)
    <3>1. 1 \in 1 .. Len(ops) /\ ops[1][2] = m
      BY <1>2, <1>3 DEF n
    <3> QED BY <3>1, Zenon DEF Takes
  <2> QED BY <2>1, <2>2, <2>3, Zenon
<1> QED BY <1>10, <1>11, Zenon DEF Nested, ops

(* A mutex taken and dropped.                                              *)
LEMMA NestOnly ==
    ASSUME NEW R, NEW m \in Mutexes
    PROVE  Nested(Only(m), R) /\ Takes(Only(m)) = {m}
<1>1. Nested(<< >>, R) /\ Takes(<< >>) = {}
  BY NestNone, Zenon
<1>2. \A x \in Takes(<< >>) : <<m, x>> \in R
  BY <1>1, Zenon
<1>3. Nested(In(m, << >>), R) /\ Takes(In(m, << >>)) = Takes(<< >>) \cup {m}
  BY <1>1, <1>2, NestIn, Zenon
<1> QED BY <1>1, <1>3, Zenon DEF Only

(* All of it, for a section that takes mutexes of T only.                  *)
Sound(ops, R, T) == Nested(ops, R) /\ Takes(ops) \subseteq T

(* How sections are put together.                                          *)
LEMMA SoundParts ==
    ASSUME NEW R, NEW T
    PROVE  /\ \A m \in Mutexes \cap T : Sound(Only(m), R, T)
           /\ \A a, b : Sound(a, R, T) /\ Sound(b, R, T) => Sound(a \o b, R, T)
           /\ \A m \in Mutexes : \A a :
                 Sound(a, R, T) /\ (\A x \in T : <<m, x>> \in R)
                    => Sound(In(m, a), R, T \cup {m})
<1>1. ASSUME NEW m \in Mutexes \cap T PROVE Sound(Only(m), R, T)
  <2>1. Nested(Only(m), R) /\ Takes(Only(m)) = {m}
    BY NestOnly, Zenon
  <2> QED BY <2>1, Zenon DEF Sound
<1>2. ASSUME NEW a, NEW b, Sound(a, R, T), Sound(b, R, T) PROVE Sound(a \o b, R, T)
  <2>1. Nested(a \o b, R) /\ Takes(a \o b) = Takes(a) \cup Takes(b)
    BY <1>2, NestThen DEF Sound
  <2> QED BY <1>2, <2>1, Zenon DEF Sound
<1>3. ASSUME NEW m \in Mutexes, NEW a, Sound(a, R, T), \A x \in T : <<m, x>> \in R
      PROVE  Sound(In(m, a), R, T \cup {m})
  <2>1. \A x \in Takes(a) : <<m, x>> \in R
    BY <1>3, Zenon DEF Sound
  <2>2. Nested(In(m, a), R) /\ Takes(In(m, a)) = Takes(a) \cup {m}
    BY <1>3, <2>1, NestIn, Zenon DEF Sound
  <2> QED BY <1>3, <2>2, Zenon DEF Sound
<1> QED BY <1>1, <1>2, <1>3, Zenon

(* What may be taken under what.  The descriptors and NET_SOCKETS are      *)
(* taken under each other; all else has an order.                          *)
Order ==
    {<<"NET", "TABLE">>, <<"NET", "FDS">>, <<"NET", "LIST">>, <<"NET", "SCHED">>,
     <<"NET", "HANDLE">>, <<"NET", "LEAF">>, <<"NET", "SESSIONS">>,
     <<"TABLE", "FDS">>, <<"TABLE", "SCHED">>,
     <<"FDS", "LIST">>, <<"FDS", "SCHED">>, <<"FDS", "HANDLE">>, <<"FDS", "NET">>,
     <<"LIST", "SCHED">>, <<"BUFFER", "LIST">>, <<"BUFFER", "SCHED">>, <<"BODY", "KID">>}

(* The sweep of an orphan with a socket takes NET_SOCKETS twice.           *)
OrderOf(name) == IF name = "sweepSocket" THEN Order \cup {<<"NET", "NET">>} ELSE Order

(* The sections that take mutexes one under another once.                  *)
LEMMA ShallowSections ==
    ASSUME NEW R, Order \subseteq R
    PROVE  /\ \A m \in Mutexes : Nested(Only(m), R)
           /\ Nested(Kill, R) /\ Nested(RegisterProcess, R) /\ Nested(SleepOnPipe, R)
           /\ Nested(Accept, R) /\ Nested(Exchange, R) /\ Nested(OpenShell, R)
           /\ Nested(Unlink, R) /\ Nested(Timer, R)
<1>1. \A m \in Mutexes : Nested(Only(m), R)
  BY NestOnly, Zenon
<1>2. Nested(Kill, R)
  <2> DEFINE T == {"SCHED"}
  <2>1. /\ "SCHED" \in Mutexes \cap T
        /\ "TABLE" \in Mutexes /\ \A x \in T : <<"TABLE", x>> \in R
    BY Zenon DEF Mutexes, Order
  <2> HIDE DEF T
  <2> DEFINE a == Only("SCHED")
  <2>2. Sound(a, R, T)
    BY <2>1, SoundParts, Zenon
  <2> HIDE DEF a
  <2>3. Sound(In("TABLE", a), R, T \cup {"TABLE"})
    BY <2>1, <2>2, SoundParts, Zenon
  <2>4. Kill = In("TABLE", a)
    BY Zenon DEF Kill, a
  <2> QED BY <2>3, <2>4, Zenon DEF Sound
<1>3. Nested(RegisterProcess, R)
  <2> DEFINE T == {"FDS", "SCHED"}
  <2>1. /\ "FDS" \in Mutexes \cap T /\ "SCHED" \in Mutexes \cap T
        /\ "TABLE" \in Mutexes /\ \A x \in T : <<"TABLE", x>> \in R
    BY Zenon DEF Mutexes, Order
  <2> HIDE DEF T
  <2> DEFINE a == Only("FDS") \o Only("SCHED")
  <2>2. Sound(a, R, T)
    BY <2>1, SoundParts, Zenon
  <2> HIDE DEF a
  <2>3. Sound(In("TABLE", a), R, T \cup {"TABLE"})
    BY <2>1, <2>2, SoundParts, Zenon
  <2>4. RegisterProcess = In("TABLE", a)
    BY Zenon DEF RegisterProcess, a
  <2> QED BY <2>3, <2>4, Zenon DEF Sound
<1>4. Nested(SleepOnPipe, R)
  <2> DEFINE T == {"SCHED", "LIST"}
  <2>1. /\ "SCHED" \in Mutexes \cap T /\ "LIST" \in Mutexes \cap T
        /\ "BUFFER" \in Mutexes /\ \A x \in T : <<"BUFFER", x>> \in R
    BY Zenon DEF Mutexes, Order
  <2> HIDE DEF T
  <2> DEFINE a == Only("SCHED") \o Only("LIST") \o Only("SCHED")
  <2>2. Sound(a, R, T)
    BY <2>1, SoundParts, Zenon
  <2> HIDE DEF a
  <2>3. Sound(In("BUFFER", a), R, T \cup {"BUFFER"})
    BY <2>1, <2>2, SoundParts, Zenon
  <2>4. SleepOnPipe = In("BUFFER", a)
    BY Zenon DEF SleepOnPipe, a
  <2> QED BY <2>3, <2>4, Zenon DEF Sound
<1>5. Nested(Accept, R)
  <2> DEFINE T == {"HANDLE"}
  <2>1. /\ "HANDLE" \in Mutexes \cap T
        /\ "NET" \in Mutexes /\ \A x \in T : <<"NET", x>> \in R
    BY Zenon DEF Mutexes, Order
  <2> HIDE DEF T
  <2> DEFINE a == Only("HANDLE")
  <2>2. Sound(a, R, T)
    BY <2>1, SoundParts, Zenon
  <2> HIDE DEF a
  <2>3. Sound(In("NET", a), R, T \cup {"NET"})
    BY <2>1, <2>2, SoundParts, Zenon
  <2>4. Accept = In("NET", a)
    BY Zenon DEF Accept, a
  <2> QED BY <2>3, <2>4, Zenon DEF Sound
<1>6. Nested(Exchange, R)
  <2> DEFINE T == {"LEAF"}
  <2>1. /\ "LEAF" \in Mutexes \cap T
        /\ "NET" \in Mutexes /\ \A x \in T : <<"NET", x>> \in R
    BY Zenon DEF Mutexes, Order
  <2> HIDE DEF T
  <2> DEFINE a == Only("LEAF")
  <2>2. Sound(a, R, T)
    BY <2>1, SoundParts, Zenon
  <2> HIDE DEF a
  <2>3. Sound(In("NET", a), R, T \cup {"NET"})
    BY <2>1, <2>2, SoundParts, Zenon
  <2>4. Exchange = In("NET", a)
    BY Zenon DEF Exchange, a
  <2> QED BY <2>3, <2>4, Zenon DEF Sound
<1>7. Nested(OpenShell, R)
  <2> DEFINE T == {"SESSIONS", "SCHED", "TABLE", "FDS"}
  <2>1. /\ "SESSIONS" \in Mutexes \cap T /\ "SCHED" \in Mutexes \cap T /\ "TABLE" \in Mutexes \cap T /\ "FDS" \in Mutexes \cap T
        /\ "NET" \in Mutexes /\ \A x \in T : <<"NET", x>> \in R
    BY Zenon DEF Mutexes, Order
  <2> HIDE DEF T
  <2> DEFINE a == Only("SESSIONS") \o Only("SCHED") \o Only("TABLE") \o Only("FDS")
  <2>2. Sound(a, R, T)
    BY <2>1, SoundParts, Zenon
  <2> HIDE DEF a
  <2>3. Sound(In("NET", a), R, T \cup {"NET"})
    BY <2>1, <2>2, SoundParts, Zenon
  <2>4. OpenShell = In("NET", a)
    BY Zenon DEF OpenShell, a
  <2> QED BY <2>3, <2>4, Zenon DEF Sound
<1>8. Nested(Unlink, R)
  <2> DEFINE T == {"KID"}
  <2>1. /\ "KID" \in Mutexes \cap T
        /\ "BODY" \in Mutexes /\ \A x \in T : <<"BODY", x>> \in R
    BY Zenon DEF Mutexes, Order
  <2> HIDE DEF T
  <2> DEFINE a == Only("KID")
  <2>2. Sound(a, R, T)
    BY <2>1, SoundParts, Zenon
  <2> HIDE DEF a
  <2>3. Sound(In("BODY", a), R, T \cup {"BODY"})
    BY <2>1, <2>2, SoundParts, Zenon
  <2>4. Unlink = In("BODY", a)
    BY Zenon DEF Unlink, a
  <2> QED BY <2>3, <2>4, Zenon DEF Sound
<1>9. Nested(Timer, R)
  <2> DEFINE T == {"SCHED", "TABLE"}
  <2>1. /\ "SCHED" \in Mutexes \cap T /\ "TABLE" \in Mutexes \cap T
    BY Zenon DEF Mutexes
  <2> HIDE DEF T
  <2> DEFINE a == Only("SCHED") \o Only("TABLE")
  <2>2. Sound(a, R, T)
    BY <2>1, SoundParts, Zenon
  <2> HIDE DEF a
  <2> QED BY <2>2, Zenon DEF Timer, Sound, a
<1> QED BY <1>1, <1>2, <1>3, <1>4, <1>5, <1>6, <1>7, <1>8, <1>9, Zenon

(* The sections that wake or drop something further in.                    *)
LEMMA DeepSections ==
    ASSUME NEW R, Order \subseteq R
    PROVE  /\ Nested(Transfer, R) /\ Nested(ClosePipe, R) /\ Nested(CloseSocket, R)
           /\ Nested(Sweep(WakesList), R)
           /\ <<"NET", "NET">> \in R => Nested(Sweep(DropSocket), R)
<1> DEFINE W == {"SCHED"} \cup {"LIST"}
           D == {"HANDLE", "NET"}
<1>1. /\ "SCHED" \in Mutexes \cap {"SCHED"} /\ "LIST" \in Mutexes
      /\ "HANDLE" \in Mutexes \cap D /\ "NET" \in Mutexes \cap D
      /\ "FDS" \in Mutexes /\ "BUFFER" \in Mutexes /\ "TABLE" \in Mutexes
  BY Zenon DEF Mutexes
<1>2. /\ \A x \in {"SCHED"} : <<"LIST", x>> \in R
      /\ \A x \in W : <<"BUFFER", x>> \in R /\ <<"FDS", x>> \in R /\ <<"NET", x>> \in R
      /\ \A x \in D : <<"FDS", x>> \in R
      /\ <<"NET", "HANDLE">> \in R /\ <<"NET", "TABLE">> \in R /\ <<"NET", "FDS">> \in R
  BY Zenon DEF Order
<1>3. Sound(WakesList, R, W)
  <2>1. Sound(Only("SCHED"), R, {"SCHED"})
    BY <1>1, SoundParts, Zenon
  <2> QED BY <1>1, <1>2, <2>1, SoundParts, Zenon DEF WakesList
<1>4. Sound(DropSocket, R, D)
  <2>1. Sound(Only("HANDLE"), R, D) /\ Sound(Only("NET"), R, D)
    BY <1>1, SoundParts, Zenon
  <2> QED BY <2>1, SoundParts, Zenon DEF DropSocket
<1> HIDE DEF W, D
<1>5. Nested(Transfer, R) /\ Nested(ClosePipe, R) /\ Nested(CloseSocket, R)
  <2>1. Sound(Transfer, R, W \cup {"BUFFER"})
    BY <1>1, <1>2, <1>3, SoundParts, Zenon DEF Transfer
  <2>2. Sound(ClosePipe, R, W \cup {"FDS"})
    BY <1>1, <1>2, <1>3, SoundParts, Zenon DEF ClosePipe
  <2>3. Sound(CloseSocket, R, D \cup {"FDS"})
    BY <1>1, <1>2, <1>4, SoundParts, Zenon DEF CloseSocket
  <2> QED BY <2>1, <2>2, <2>3, Zenon DEF Sound
<1>6. ASSUME NEW d, NEW T, Sound(d, R, T),
             \A x \in T : <<"FDS", x>> \in R /\ <<"NET", x>> \in R
      PROVE  Nested(Sweep(d), R)
  <2> DEFINE V == (T \cup {"FDS"}) \cup {"TABLE"}
  <2>1. Sound(In("FDS", d), R, T \cup {"FDS"})
    BY <1>1, <1>6, SoundParts, Zenon
  <2>2. Sound(In("FDS", d), R, V) /\ "TABLE" \in V
    BY <2>1, Zenon DEF Sound
  <2>3. \A x \in V : <<"NET", x>> \in R
    BY <1>2, <1>6, Zenon
  <2> HIDE DEF V
  <2>4. Sound(Only("TABLE"), R, V)
    BY <1>1, <2>2, SoundParts, Zenon
  <2>5. Sound(Reaps(d), R, V)
    BY <2>2, <2>4, SoundParts, Zenon DEF Reaps
  <2>6. Sound(Sweep(d), R, V \cup {"NET"})
    BY <1>1, <2>3, <2>5, SoundParts, Zenon DEF Sweep
  <2> QED BY <2>6, Zenon DEF Sound
<1>7. Nested(Sweep(WakesList), R)
  BY <1>2, <1>3, <1>6, Zenon
<1>8. <<"NET", "NET">> \in R => Nested(Sweep(DropSocket), R)
  <2>1. <<"NET", "NET">> \in R => \A x \in D : <<"NET", x>> \in R
    BY <1>2, Zenon DEF D
  <2> QED BY <1>2, <1>4, <1>6, <2>1, Zenon
<1> QED BY <1>5, <1>7, <1>8, Zenon

(* Every section drops its guards in reverse, and keeps to its order.      *)
LEMMA SectionsNested ==
    ASSUME NEW name \in DOMAIN Sections
    PROVE  Nested(Sections[name], OrderOf(name))
<1> DEFINE R == OrderOf(name)
<1>1. Order \subseteq R /\ (name = "sweepSocket" => <<"NET", "NET">> \in R)
  BY Zenon DEF OrderOf
<1> HIDE DEF R
<1>2. /\ \A m \in Mutexes : Nested(Only(m), R)
      /\ Nested(Kill, R) /\ Nested(RegisterProcess, R) /\ Nested(SleepOnPipe, R)
      /\ Nested(Accept, R) /\ Nested(Exchange, R) /\ Nested(OpenShell, R)
      /\ Nested(Unlink, R) /\ Nested(Timer, R)
  BY <1>1, ShallowSections, Zenon
<1>3. /\ Nested(Transfer, R) /\ Nested(ClosePipe, R) /\ Nested(CloseSocket, R)
      /\ Nested(Sweep(WakesList), R)
      /\ name = "sweepSocket" => Nested(Sweep(DropSocket), R)
  BY <1>1, DeepSections, Zenon
<1>4. Nested(Only("SCHED"), R) /\ Nested(Only("TABLE"), R) /\ Nested(Only("FDS"), R)
  BY <1>2, Zenon DEF Mutexes
<1>5. Nested(Sections[name], R)
  BY <1>2, <1>3, <1>4 DEF Sections
<1> QED BY <1>5, Zenon DEF R

-----------------------------------------------------------------------------
(* What a core executes.                                                   *)

(* The mutexes held before each operation of a section.                    *)
Held(name) == CHOOSE held : Nests(Sections[name], OrderOf(name), held)

LockSteps == {"start", "spin", "own", "unlock", "restore"}
FrameRec ==
    [run : DOMAIN Sections, at : Nat, step : LockSteps, saved : Seq(Mutexes \X BOOLEAN)]

Code(f) == Sections[f.run]
Wants(f) == Code(f)[f.at][2]

(* The guards a frame should have, the one it makes or drops included.     *)
Has(f) == Held(f.run)[IF f.step \in {"spin", "own"} THEN f.at + 1 ELSE f.at]

(* The guards of a frame are the ones its place in the section calls for,  *)
(* no two of the same mutex.                                               *)
FrameOK(f) ==
    /\ f \in FrameRec /\ f.at \in 1 .. Len(Code(f)) + 1
    /\ f.step # "start" =>
          /\ f.at \in 1 .. Len(Code(f))
          /\ f.step \in {"spin", "own"} <=> Code(f)[f.at][1] = "lock"
    /\ Len(f.saved) = Len(Has(f))
    /\ \A k \in 1 .. Len(f.saved) : f.saved[k][1] = Has(f)[k]
    /\ \A j, k \in 1 .. Len(f.saved) : f.saved[j][1] = f.saved[k][1] => j = k

Names(f) == {f.saved[k][1] : k \in 1 .. Len(f.saved)}

(* The mutexes that record the core as their owner, and those whose spin   *)
(* lock it has.                                                            *)
OwnedBy(f) == {m \in Names(f) : f.step = "start" \/ m # Wants(f)}
InsideBy(f) == {m \in Names(f) : f.step \notin {"spin", "restore"} \/ m # Wants(f)}

(* A section of a task masks interrupts with its first guard, and its last *)
(* one lets them in again; a timer interrupt came with them masked.        *)
IrqOK(f, b) ==
    IF f.run = "timer"
    THEN b = FALSE /\ \A k \in 1 .. Len(f.saved) : f.saved[k][2] = FALSE
    ELSE /\ b = (Len(f.saved) = 0)
         /\ \A k \in 1 .. Len(f.saved) : f.saved[k][2] = (k = 1)

(* What Sections says at each place.                                       *)
LEMMA Places ==
    ASSUME NEW name \in DOMAIN Sections
    PROVE  /\ Sections[name] \in Seq(LockOp) /\ Len(Sections[name]) \in Nat
           /\ Held(name) \in [1 .. Len(Sections[name]) + 1 -> Seq(Mutexes)]
           /\ Len(Held(name)[1]) = 0 /\ Len(Held(name)[Len(Sections[name]) + 1]) = 0
           /\ \A i \in 1 .. Len(Sections[name]) :
                 /\ Sections[name][i][1] \in {"lock", "drop"}
                 /\ Sections[name][i][2] \in Mutexes
                 /\ Sections[name][i][1] = "lock" =>
                       /\ Pushed(Held(name)[i], Held(name)[i + 1], Sections[name][i][2])
                       /\ \A k \in 1 .. Len(Held(name)[i]) :
                             <<Held(name)[i][k], Sections[name][i][2]>> \in OrderOf(name)
                 /\ Sections[name][i][1] = "drop" =>
                       Pushed(Held(name)[i + 1], Held(name)[i], Sections[name][i][2])
<1>1. Nests(Sections[name], OrderOf(name), Held(name))
  BY SectionsNested, Zenon DEF Held, Nested
<1> DEFINE ops == Sections[name]
           held == Held(name)
<1> HIDE DEF ops, held
<1>2. Nests(ops, OrderOf(name), held)
  BY <1>1, Zenon DEF ops, held
<1>3. ops \in Seq(LockOp) /\ Len(ops) \in Nat
  BY <1>2 DEF Nests
<1>4. ASSUME NEW i \in 1 .. Len(ops)
      PROVE  /\ ops[i][1] \in {"lock", "drop"} /\ ops[i][2] \in Mutexes
             /\ ops[i][1] = "lock" =>
                   /\ Pushed(held[i], held[i + 1], ops[i][2])
                   /\ \A k \in 1 .. Len(held[i]) : <<held[i][k], ops[i][2]>> \in OrderOf(name)
             /\ ops[i][1] = "drop" => Pushed(held[i + 1], held[i], ops[i][2])
  <2>1. ops[i] \in LockOp
    BY <1>3
  <2>2. ops[i][1] \in {"lock", "drop"} /\ ops[i][2] \in Mutexes
    BY <2>1, Zenon DEF LockOp
  <2>3. "lock" # "drop"
    BY Zenon
  <2> QED BY <1>2, <2>2, <2>3, Zenon DEF Nests
<1>5. /\ held \in [1 .. Len(ops) + 1 -> Seq(Mutexes)]
      /\ Len(held[1]) = 0 /\ Len(held[Len(ops) + 1]) = 0
  BY <1>2, Zenon DEF Nests
<1> QED BY <1>3, <1>4, <1>5, Zenon DEF ops, held

(* The top guard of a frame that makes or drops one is of the mutex it     *)
(* wants.                                                                  *)
LEMMA TopGuard ==
    ASSUME NEW f, FrameOK(f), f.at \in 1 .. Len(Code(f)),
           f.step # "start" \/ Code(f)[f.at][1] = "drop"
    PROVE  /\ Len(f.saved) \in Nat \ {0} /\ f.saved[Len(f.saved)][1] = Wants(f)
           /\ Wants(f) \in Names(f)
           /\ \A k \in 1 .. Len(f.saved) : f.saved[k][1] = Wants(f) => k = Len(f.saved)
<1> DEFINE h == Held(f.run)
<1>1. f.run \in DOMAIN Sections /\ f.saved \in Seq(Mutexes \X BOOLEAN) /\ f.at \in Nat
  BY Zenon DEF FrameOK, FrameRec
<1>2. /\ Len(Code(f)) \in Nat /\ h \in [1 .. Len(Code(f)) + 1 -> Seq(Mutexes)]
      /\ Code(f)[f.at][1] \in {"lock", "drop"}
      /\ Code(f)[f.at][1] = "lock" => Pushed(h[f.at], h[f.at + 1], Wants(f))
      /\ Code(f)[f.at][1] = "drop" => Pushed(h[f.at + 1], h[f.at], Wants(f))
  BY <1>1, Places, Zenon DEF Code, Wants
<1> HIDE DEF h
<1>3. /\ h[f.at] \in Seq(Mutexes) /\ h[f.at + 1] \in Seq(Mutexes)
      /\ Len(h[f.at]) \in Nat /\ Len(h[f.at + 1]) \in Nat
  <2>1. f.at \in 1 .. Len(Code(f)) + 1 /\ f.at + 1 \in 1 .. Len(Code(f)) + 1
    BY <1>2
  <2>2. h[f.at] \in Seq(Mutexes) /\ h[f.at + 1] \in Seq(Mutexes)
    BY <1>2, <2>1, Zenon
  <2> QED BY <2>2
<1>4. PICK s : s \in {h[f.at], h[f.at + 1]} /\ Pushed(s, Has(f), Wants(f))
  <2>1. CASE f.step \in {"spin", "own"}
    <3>1. Code(f)[f.at][1] = "lock" /\ Has(f) = h[f.at + 1]
      BY <2>1, Zenon DEF FrameOK, Has, h
    <3> QED BY <1>2, <3>1, Zenon
  <2>2. CASE f.step \notin {"spin", "own"}
    <3>1. Code(f)[f.at][1] = "drop" /\ Has(f) = h[f.at]
      BY <1>2, <2>2, Zenon DEF FrameOK, Has, h
    <3> QED BY <1>2, <3>1, Zenon
  <2> QED BY <2>1, <2>2, Zenon
<1>5. Len(s) \in Nat /\ Len(Has(f)) = Len(s) + 1 /\ Has(f)[Len(s) + 1] = Wants(f)
  BY <1>3, <1>4, Zenon DEF Pushed
<1>6. Len(f.saved) = Len(s) + 1 /\ f.saved[Len(f.saved)][1] = Wants(f)
  BY <1>5 DEF FrameOK
<1>7. Len(f.saved) \in 1 .. Len(f.saved) /\ Len(f.saved) \in Nat \ {0}
  BY <1>5, <1>6
<1>8. \A k \in 1 .. Len(f.saved) : f.saved[k][1] = Wants(f) => k = Len(f.saved)
  BY <1>6, <1>7, Zenon DEF FrameOK
<1> QED BY <1>6, <1>7, <1>8, Zenon DEF Names

(* lock masks interrupts and remembers what they were.                     *)
LEMMA FrameMasks ==
    ASSUME NEW f, FrameOK(f), f.step = "start", f.at \in 1 .. Len(Code(f)),
           Code(f)[f.at][1] = "lock", Wants(f) \notin Names(f),
           NEW b \in BOOLEAN, IrqOK(f, b),
           NEW g, g = [f EXCEPT !.step = "spin", !.saved = Append(@, <<Wants(f), b>>)]
    PROVE  /\ FrameOK(g) /\ g.run = f.run /\ IrqOK(g, FALSE)
           /\ OwnedBy(g) = OwnedBy(f) /\ InsideBy(g) = InsideBy(f)
<1> DEFINE h == Held(f.run)
           n == Len(f.saved)
           p == <<Wants(f), b>>
<1>1. /\ f.run \in DOMAIN Sections /\ f.saved \in Seq(Mutexes \X BOOLEAN)
      /\ f.at \in Nat /\ f.step \in LockSteps /\ n \in Nat
      /\ f = [run |-> f.run, at |-> f.at, step |-> f.step, saved |-> f.saved]
  BY DEF FrameOK, FrameRec
<1>2. /\ Len(Code(f)) \in Nat /\ Wants(f) \in Mutexes
      /\ Pushed(h[f.at], h[f.at + 1], Wants(f))
  BY <1>1, Places, Zenon DEF Code, Wants
<1>3. p \in Mutexes \X BOOLEAN /\ p[1] = Wants(f) /\ p[2] = b
  BY <1>2, Zenon
<1>4. /\ g.run = f.run /\ g.at = f.at /\ g.step = "spin" /\ g.saved = Append(f.saved, p)
      /\ g = [run |-> g.run, at |-> g.at, step |-> g.step, saved |-> g.saved]
  BY <1>1, Zenon
<1> HIDE DEF p
<1>5. /\ g.saved \in Seq(Mutexes \X BOOLEAN) /\ Len(g.saved) = n + 1
      /\ g.saved[n + 1] = p /\ \A k \in 1 .. n : g.saved[k] = f.saved[k]
  BY <1>1, <1>3, <1>4
<1> HIDE DEF n
<1>6. g \in FrameRec /\ Code(g) = Code(f) /\ Wants(g) = Wants(f)
  <2>1. "spin" \in LockSteps
    BY Zenon DEF LockSteps
  <2>2. g \in FrameRec
    BY ONLY <1>1, <1>4, <1>5, <2>1, Zenon DEF FrameRec
  <2> QED BY <1>4, <2>2, Zenon DEF Code, Wants
<1>7. Has(f) = h[f.at] /\ Has(g) = h[f.at + 1]
  BY <1>4, Zenon DEF Has
<1>8. \A k \in 1 .. n + 1 : k \in 1 .. n \/ k = n + 1
  BY <1>1 DEF n
<1>9. Len(g.saved) = Len(Has(g)) /\ \A k \in 1 .. Len(g.saved) : g.saved[k][1] = Has(g)[k]
  <2>1. /\ Len(Has(g)) = Len(Has(f)) + 1 /\ Has(g)[Len(Has(f)) + 1] = Wants(f)
        /\ \A k \in 1 .. Len(Has(f)) : Has(g)[k] = Has(f)[k]
    BY <1>2, <1>7, Zenon DEF Pushed
  <2>2. n = Len(Has(f)) /\ \A k \in 1 .. n : f.saved[k][1] = Has(f)[k]
    BY Zenon DEF FrameOK, n
  <2> QED BY <1>3, <1>5, <1>8, <2>1, <2>2, Zenon
<1>10. \A k \in 1 .. n : g.saved[k][1] # Wants(f)
  BY <1>5, Zenon DEF Names, n
<1>11. \A j, k \in 1 .. Len(g.saved) : g.saved[j][1] = g.saved[k][1] => j = k
  <2>1. \A j, k \in 1 .. n : g.saved[j][1] = g.saved[k][1] => j = k
    BY <1>5, Zenon DEF FrameOK, n
  <2>2. \A k \in 1 .. n : g.saved[k][1] # g.saved[n + 1][1]
    BY <1>3, <1>5, <1>10, Zenon
  <2>3. \A j, k \in 1 .. n + 1 : g.saved[j][1] = g.saved[k][1] => j = k
    <3> SUFFICES ASSUME NEW j \in 1 .. n + 1, NEW k \in 1 .. n + 1,
                        g.saved[j][1] = g.saved[k][1]
                 PROVE  j = k
      BY Zenon
    <3>1. (j \in 1 .. n \/ j = n + 1) /\ (k \in 1 .. n \/ k = n + 1)
      BY <1>8, Zenon
    <3> QED BY <2>1, <2>2, <3>1, Zenon
  <2> QED BY <1>5, <2>3, Zenon
<1>12. FrameOK(g)
  <2>1. g.at \in 1 .. Len(Code(g)) + 1 /\ g.at \in 1 .. Len(Code(g)) /\ Code(g)[g.at][1] = "lock"
    BY <1>2, <1>4, <1>6
  <2>2. g.step \in {"spin", "own"}
    BY <1>4, Zenon
  <2> QED BY <1>6, <1>9, <1>11, <2>1, <2>2, Zenon DEF FrameOK
<1>13. \A m : m \in Names(g) <=> m \in Names(f) \/ m = Wants(f)
  <2>1. ASSUME NEW m, m \in Names(g) PROVE m \in Names(f) \/ m = Wants(f)
    BY <1>3, <1>5, <1>8, <2>1, ZenonT(40) DEF Names, n
  <2>2. ASSUME NEW m, m \in Names(f) PROVE m \in Names(g)
    <3>1. PICK k \in 1 .. n : m = f.saved[k][1]
      BY <2>2, Zenon DEF Names, n
    <3>2. k \in 1 .. Len(g.saved)
      BY <1>1, <1>5 DEF n
    <3> QED BY <1>5, <3>1, <3>2, Zenon DEF Names
  <2>3. Wants(f) \in Names(g)
    <3>1. n + 1 \in 1 .. Len(g.saved)
      BY <1>1, <1>5 DEF n
    <3> QED BY <1>3, <1>5, <3>1, ZenonT(40) DEF Names
  <2> QED BY <2>1, <2>2, <2>3, Zenon
<1>14. OwnedBy(g) = OwnedBy(f) /\ InsideBy(g) = InsideBy(f)
  <2>1. g.step # "start" /\ g.step \in {"spin", "restore"} /\ f.step \notin {"spin", "restore"}
    BY <1>4, Zenon
  <2>2. OwnedBy(g) = OwnedBy(f)
    BY <1>6, <1>13, <2>1, Zenon DEF OwnedBy
  <2>3. InsideBy(g) = InsideBy(f)
    BY <1>6, <1>13, <2>1, Zenon DEF InsideBy
  <2> QED BY <2>2, <2>3, Zenon
<1>15. IrqOK(g, FALSE)
  <2>1. CASE f.run = "timer"
    <3>1. b = FALSE /\ \A k \in 1 .. n : f.saved[k][2] = FALSE
      BY <2>1, Zenon DEF IrqOK, n
    <3>2. \A k \in 1 .. n + 1 : g.saved[k][2] = FALSE
      BY <1>3, <1>5, <1>8, <3>1, Zenon
    <3> QED BY <1>4, <1>5, <2>1, <3>2, Zenon DEF IrqOK
  <2>2. CASE f.run # "timer"
    <3>1. b = (n = 0) /\ \A k \in 1 .. n : f.saved[k][2] = (k = 1)
      BY <2>2, Zenon DEF IrqOK, n
    <3>2. (n = 0) = (n + 1 = 1) /\ (n + 1 = 0) = FALSE
      BY <1>1 DEF n
    <3>3. \A k \in 1 .. n + 1 : g.saved[k][2] = (k = 1)
      <4>1. g.saved[n + 1][2] = (n + 1 = 1)
        BY <1>3, <1>5, <3>1, <3>2, Zenon
      <4>2. \A k \in 1 .. n : g.saved[k][2] = (k = 1)
        BY <1>5, <3>1, Zenon
      <4> QED BY <1>8, <4>1, <4>2, Zenon
    <3>4. FALSE = (Len(g.saved) = 0)
      BY <1>5, <3>2, Zenon
    <3> QED BY <1>4, <1>5, <2>2, <3>3, <3>4, Zenon DEF IrqOK
  <2> QED BY <2>1, <2>2, Zenon
<1> QED BY <1>4, <1>12, <1>14, <1>15, Zenon

(* The steps that leave the guards alone: the spin lock is taken, or a     *)
(* drop disowns and unlocks.                                               *)
LEMMA FrameSteps ==
    ASSUME NEW f, FrameOK(f), f.at \in 1 .. Len(Code(f)),
           NEW b, IrqOK(f, b), NEW x \in {"own", "unlock", "restore"},
           (x = "own") = (Code(f)[f.at][1] = "lock"),
           x = "own" => f.step = "spin",
           NEW g, g = [f EXCEPT !.step = x]
    PROVE  /\ FrameOK(g) /\ g.run = f.run /\ g.step = x /\ IrqOK(g, b)
           /\ Names(g) = Names(f) /\ Wants(g) = Wants(f)
<1>1. /\ f.run \in DOMAIN Sections /\ f.saved \in Seq(Mutexes \X BOOLEAN)
      /\ f.at \in Nat /\ f.step \in LockSteps
      /\ f = [run |-> f.run, at |-> f.at, step |-> f.step, saved |-> f.saved]
  BY Zenon DEF FrameOK, FrameRec
<1>2. /\ g.run = f.run /\ g.at = f.at /\ g.step = x /\ g.saved = f.saved
      /\ g = [run |-> g.run, at |-> g.at, step |-> g.step, saved |-> g.saved]
  BY <1>1, Zenon
<1>3. g \in FrameRec
  <2>1. x \in LockSteps
    BY Zenon DEF LockSteps
  <2> QED BY ONLY <1>1, <1>2, <2>1, Zenon DEF FrameRec
<1>4. Code(g) = Code(f) /\ Wants(g) = Wants(f) /\ Names(g) = Names(f)
  BY <1>2 DEF Code, Wants, Names
<1>5. Code(f)[f.at][1] \in {"lock", "drop"}
  BY <1>1, Places, Zenon DEF Code
<1>6. Has(g) = Has(f)
  <2>1. f.step \in {"spin", "own"} <=> x \in {"spin", "own"}
    <3>1. CASE x = "own"
      BY <3>1, Zenon
    <3>2. CASE x # "own"
      <4>1. Code(f)[f.at][1] # "lock"
        BY <3>2, Zenon
      <4> QED BY <3>2, <4>1, Zenon DEF FrameOK
    <3> QED BY <3>1, <3>2, Zenon
  <2> QED BY <1>2, <2>1, Zenon DEF Has
<1>7. FrameOK(g)
  <2>1. x # "start" /\ (x \in {"spin", "own"} <=> Code(f)[f.at][1] = "lock")
    BY Zenon
  <2>2. g.at \in 1 .. Len(Code(g)) + 1 /\ g.at \in 1 .. Len(Code(g))
    BY <1>2, <1>4, Zenon DEF FrameOK
  <2>3. g.step \in {"spin", "own"} <=> Code(g)[g.at][1] = "lock"
    BY <1>2, <1>4, <2>1, Zenon
  <2>4. /\ Len(g.saved) = Len(Has(g))
        /\ \A k \in 1 .. Len(g.saved) : g.saved[k][1] = Has(g)[k]
        /\ \A j, k \in 1 .. Len(g.saved) : g.saved[j][1] = g.saved[k][1] => j = k
    BY <1>2, <1>6 DEF FrameOK
  <2> QED BY <1>3, <2>2, <2>3, <2>4, Zenon DEF FrameOK
<1>8. IrqOK(g, b)
  BY <1>2, Zenon DEF IrqOK
<1> QED BY <1>2, <1>4, <1>7, <1>8, Zenon

(* The guard is made: the next operation.                                  *)
LEMMA FrameOwns ==
    ASSUME NEW f, FrameOK(f), f.at \in 1 .. Len(Code(f)),
           NEW b, IrqOK(f, b), f.step = "own",
           NEW g, g = [f EXCEPT !.at = @ + 1, !.step = "start", !.saved = f.saved]
    PROVE  /\ FrameOK(g) /\ g.run = f.run /\ g.step = "start" /\ IrqOK(g, b)
           /\ Names(g) = Names(f)
<1>1. /\ f.run \in DOMAIN Sections /\ f.saved \in Seq(Mutexes \X BOOLEAN)
      /\ f.at \in Nat /\ f.step \in LockSteps
      /\ f = [run |-> f.run, at |-> f.at, step |-> f.step, saved |-> f.saved]
  BY Zenon DEF FrameOK, FrameRec
<1>2. /\ g.run = f.run /\ g.at = f.at + 1 /\ g.step = "start" /\ g.saved = f.saved
      /\ g = [run |-> g.run, at |-> g.at, step |-> g.step, saved |-> g.saved]
  BY <1>1, Zenon
<1>3. g \in FrameRec
  <2>1. "start" \in LockSteps /\ f.at + 1 \in Nat
    BY <1>1 DEF LockSteps
  <2> QED BY ONLY <1>1, <1>2, <2>1, Zenon DEF FrameRec
<1>4. Code(g) = Code(f) /\ Names(g) = Names(f) /\ Len(Code(f)) \in Nat
  BY <1>1, <1>2, Places DEF Code, Names
<1>5. Has(g) = Has(f)
  BY <1>2, Zenon DEF Has
<1>6. FrameOK(g)
  <2>1. g.at \in 1 .. Len(Code(g)) + 1
    BY <1>2, <1>4
  <2>2. /\ Len(g.saved) = Len(Has(g))
        /\ \A k \in 1 .. Len(g.saved) : g.saved[k][1] = Has(g)[k]
        /\ \A j, k \in 1 .. Len(g.saved) : g.saved[j][1] = g.saved[k][1] => j = k
    BY <1>2, <1>5 DEF FrameOK
  <2> QED BY <1>2, <1>3, <2>1, <2>2, Zenon DEF FrameOK
<1>7. IrqOK(g, b)
  BY <1>2, Zenon DEF IrqOK
<1> QED BY <1>2, <1>4, <1>6, <1>7, Zenon

(* A sequence without its last element.                                    *)
LEMMA ButLast ==
    ASSUME NEW S, NEW s \in Seq(S), Len(s) # 0
    PROVE  /\ SubSeq(s, 1, Len(s) - 1) \in Seq(S)
           /\ Len(SubSeq(s, 1, Len(s) - 1)) = Len(s) - 1
           /\ \A k \in 1 .. Len(s) - 1 : SubSeq(s, 1, Len(s) - 1)[k] = s[k]
           /\ SubSeq(s, 1, Len(s) - 1) \o SubSeq(s, Len(s) + 1, Len(s)) = SubSeq(s, 1, Len(s) - 1)
<1> DEFINE n == Len(s)
           u == SubSeq(s, 1, n - 1)
<1>1. n \in Nat \ {0} /\ s \in [1 .. n -> S]
  OBVIOUS
<1> HIDE DEF n
<1>2. \A i \in 1 .. n - 1 : s[i] \in S
  BY <1>1
<1>3. u \in Seq(S) /\ Len(u) = n - 1 /\ \A k \in 1 .. n - 1 : u[k] = s[k]
  BY <1>1, <1>2, SubSeqProperties DEF n
<1>4. SubSeq(s, n + 1, n) = << >>
  BY <1>1
<1> HIDE DEF u
<1>5. u \o << >> = u
  BY <1>3, ConcatEmptySeq, Zenon
<1> QED BY <1>3, <1>4, <1>5, Zenon DEF n, u

(* A drop ends: the guard is gone, and interrupts are what they were when  *)
(* it was made.                                                            *)
LEMMA FrameRestores ==
    ASSUME NEW f, FrameOK(f), f.at \in 1 .. Len(Code(f)),
           NEW b, IrqOK(f, b), f.step = "restore",
           NEW i, i = (CHOOSE k \in DOMAIN f.saved : f.saved[k][1] = Wants(f)),
           NEW g, g = [f EXCEPT !.at = @ + 1, !.step = "start",
                                !.saved = SubSeq(f.saved, 1, i - 1)
                                          \o SubSeq(f.saved, i + 1, Len(f.saved))]
    PROVE  /\ FrameOK(g) /\ g.run = f.run /\ IrqOK(g, f.saved[i][2])
           /\ f.saved[i][2] \in BOOLEAN
           /\ OwnedBy(g) = OwnedBy(f) /\ InsideBy(g) = InsideBy(f)
<1> DEFINE n == Len(f.saved)
           h == Held(f.run)
<1>1. /\ f.run \in DOMAIN Sections /\ f.saved \in Seq(Mutexes \X BOOLEAN)
      /\ f.at \in Nat /\ f.step \in LockSteps
      /\ f = [run |-> f.run, at |-> f.at, step |-> f.step, saved |-> f.saved]
  BY Zenon DEF FrameOK, FrameRec
<1>2. Code(f)[f.at][1] \in {"lock", "drop"} /\ Len(Code(f)) \in Nat
  BY <1>1, Places, Zenon DEF Code
<1>3. Code(f)[f.at][1] = "drop"
  BY <1>2, Zenon DEF FrameOK
<1>4. /\ n \in Nat \ {0} /\ f.saved[n][1] = Wants(f) /\ Wants(f) \in Names(f)
      /\ \A k \in 1 .. n : f.saved[k][1] = Wants(f) => k = n
  BY <1>3, TopGuard, Zenon
<1>5. i = n /\ i \in 1 .. n
  <2>1. DOMAIN f.saved = 1 .. n /\ n \in 1 .. n
    BY <1>1, <1>4
  <2>2. i \in DOMAIN f.saved /\ f.saved[i][1] = Wants(f)
    BY <1>4, <2>1, Zenon
  <2> QED BY <1>4, <2>1, <2>2, Zenon
<1>6. f.saved[i][2] \in BOOLEAN
  <2>1. f.saved[i] \in Mutexes \X BOOLEAN
    BY <1>1, <1>5
  <2> QED BY <2>1
<1> DEFINE t == SubSeq(f.saved, 1, i - 1) \o SubSeq(f.saved, i + 1, Len(f.saved))
<1>7. /\ t \in Seq(Mutexes \X BOOLEAN) /\ Len(t) = n - 1
      /\ \A k \in 1 .. n - 1 : t[k] = f.saved[k]
  <2>1. /\ SubSeq(f.saved, 1, n - 1) \in Seq(Mutexes \X BOOLEAN)
        /\ Len(SubSeq(f.saved, 1, n - 1)) = n - 1
        /\ \A k \in 1 .. n - 1 : SubSeq(f.saved, 1, n - 1)[k] = f.saved[k]
        /\ SubSeq(f.saved, 1, n - 1) \o SubSeq(f.saved, n + 1, n) = SubSeq(f.saved, 1, n - 1)
    <3>1. n # 0 
      BY <1>4, Zenon
    <3> QED BY <1>1, <3>1, ButLast, Zenon
  <2>2. t = SubSeq(f.saved, 1, n - 1)
    BY <1>5, <2>1, Zenon
  <2> HIDE DEF t
  <2> QED BY <2>1, <2>2, Zenon
<1> HIDE DEF t
<1>8. /\ g.run = f.run /\ g.at = f.at + 1 /\ g.step = "start" /\ g.saved = t
      /\ g = [run |-> g.run, at |-> g.at, step |-> g.step, saved |-> g.saved]
  BY <1>1, Zenon DEF t
<1>9. g \in FrameRec
  <2>1. "start" \in LockSteps /\ f.at + 1 \in Nat
    BY <1>1 DEF LockSteps
  <2> QED BY ONLY <1>1, <1>7, <1>8, <2>1, Zenon DEF FrameRec
<1>10. Code(g) = Code(f)
  BY <1>8, Zenon DEF Code
<1>11. Pushed(h[f.at + 1], h[f.at], Wants(f)) /\ Has(f) = h[f.at] /\ Has(g) = h[f.at + 1]
  <2>1. Pushed(h[f.at + 1], h[f.at], Wants(f))
    BY <1>1, <1>3, Places, Zenon DEF Code, Wants
  <2> QED BY <1>8, <2>1, Zenon DEF Has
<1>12. Len(Has(g)) = n - 1 /\ \A k \in 1 .. n - 1 : Has(g)[k] = Has(f)[k]
  <2>1. h[f.at + 1] \in Seq(Mutexes)
    <3>1. h \in [1 .. Len(Code(f)) + 1 -> Seq(Mutexes)]
      BY <1>1, Places, Zenon DEF Code
    <3>2. f.at + 1 \in 1 .. Len(Code(f)) + 1
      BY <1>1, <1>2
    <3> QED BY <3>1, <3>2, Zenon
  <2>2. Len(Has(g)) \in Nat
    BY <1>11, <2>1
  <2>3. n = Len(Has(g)) + 1 /\ \A k \in 1 .. Len(Has(g)) : Has(f)[k] = Has(g)[k]
    BY <1>11, Zenon DEF Pushed, FrameOK
  <2>4. n - 1 = Len(Has(g))
    BY ONLY <2>2, <2>3
  <2> HIDE DEF n
  <2> QED BY <2>3, <2>4, Zenon
<1>13. /\ Len(g.saved) = n - 1 /\ n - 1 \in Nat
       /\ \A k \in 1 .. Len(g.saved) :
             k \in 1 .. n /\ k # n /\ g.saved[k] = f.saved[k] /\ Has(g)[k] = Has(f)[k]
  <2> HIDE DEF n
  <2>1. \A k \in 1 .. n - 1 : k \in 1 .. n /\ k # n
    BY ONLY <1>4
  <2>2. n - 1 \in Nat
    BY ONLY <1>4
  <2>3. Len(g.saved) = n - 1
    BY ONLY <1>7, <1>8, Zenon
  <2> QED BY ONLY <1>7, <1>8, <1>12, <2>1, <2>2, <2>3, Zenon
<1>14. FrameOK(g)
  <2>1. g.at \in 1 .. Len(Code(g)) + 1
    BY ONLY <1>2, <1>8, <1>10, f.at \in 1 .. Len(Code(f))
  <2>2. \A k \in 1 .. n : f.saved[k][1] = Has(f)[k]
    BY Zenon DEF FrameOK
  <2>3. \A k \in 1 .. Len(g.saved) : g.saved[k][1] = Has(g)[k]
    BY <1>13, <2>2, Zenon
  <2>4. \A j, k \in 1 .. Len(g.saved) : g.saved[j][1] = g.saved[k][1] => j = k
    <3>1. \A j, k \in 1 .. n : f.saved[j][1] = f.saved[k][1] => j = k
      BY Zenon DEF FrameOK
    <3> QED BY <1>13, <3>1, ZenonT(40)
  <2>5. Len(g.saved) = Len(Has(g))
    BY <1>12, <1>13, Zenon
  <2> QED BY <1>8, <1>9, <2>1, <2>3, <2>4, <2>5, Zenon DEF FrameOK
<1>15. \A m : m \in Names(g) <=> m \in Names(f) /\ m # Wants(f)
  <2>1. ASSUME NEW m, m \in Names(g) PROVE m \in Names(f) /\ m # Wants(f)
    <3>1. PICK k \in 1 .. Len(g.saved) : m = g.saved[k][1]
      BY <2>1, Zenon DEF Names
    <3>2. k \in 1 .. n /\ k # n /\ m = f.saved[k][1]
      BY <1>13, <3>1, Zenon
    <3> QED BY <1>4, <3>2, Zenon DEF Names
  <2>2. ASSUME NEW m, m \in Names(f), m # Wants(f) PROVE m \in Names(g)
    <3>1. PICK k \in 1 .. n : m = f.saved[k][1]
      BY <2>2, Zenon DEF Names
    <3>2. k # n
      BY <1>4, <2>2, <3>1, Zenon
    <3>3. k \in 1 .. n - 1
      BY <1>4, <3>1, <3>2
    <3> QED BY <1>7, <1>8, <3>1, <3>3, Zenon DEF Names
  <2> QED BY <2>1, <2>2, Zenon
<1>16. OwnedBy(g) = OwnedBy(f) /\ InsideBy(g) = InsideBy(f)
  <2>1. f.step # "start" /\ f.step \in {"spin", "restore"} /\ g.step \notin {"spin", "restore"}
    BY <1>8, Zenon
  <2>2. OwnedBy(g) = OwnedBy(f)
    BY <1>8, <1>15, <2>1, Zenon DEF OwnedBy
  <2>3. InsideBy(g) = InsideBy(f)
    BY <1>15, <2>1, Zenon DEF InsideBy
  <2> QED BY <2>2, <2>3, Zenon
<1>17. IrqOK(g, f.saved[i][2])
  <2>1. CASE f.run = "timer"
    <3>1. \A k \in 1 .. n : f.saved[k][2] = FALSE
      BY <2>1, Zenon DEF IrqOK
    <3>2. \A k \in 1 .. Len(g.saved) : g.saved[k][2] = FALSE
      BY <1>13, <3>1, Zenon
    <3>3. f.saved[i][2] = FALSE
      BY <1>5, <3>1, Zenon
    <3> QED BY <1>8, <2>1, <3>2, <3>3, Zenon DEF IrqOK
  <2>2. CASE f.run # "timer"
    <3>1. \A k \in 1 .. n : f.saved[k][2] = (k = 1)
      BY <2>2, Zenon DEF IrqOK
    <3>2. f.saved[i][2] = (n = 1)
      BY <1>5, <3>1, Zenon
    <3>3. (n = 1) = (n - 1 = 0)
      BY <1>4
    <3>4. f.saved[i][2] = (Len(g.saved) = 0)
      BY <1>7, <1>8, <3>2, <3>3, Zenon
    <3>5. \A k \in 1 .. Len(g.saved) : g.saved[k][2] = (k = 1)
      BY <1>13, <3>1, ZenonT(40)
    <3> QED BY <1>8, <2>2, <3>4, <3>5, Zenon DEF IrqOK
  <2> QED BY <2>1, <2>2, Zenon
<1> QED BY <1>6, <1>8, <1>14, <1>16, <1>17, Zenon

(* A mutex that a frame has when it takes another comes before it in the   *)
(* order.                                                                  *)
LEMMA Waits ==
    ASSUME NEW f, FrameOK(f), f.at \in 1 .. Len(Code(f)), Code(f)[f.at][1] = "lock",
           NEW m \in Names(f), f.step = "start" \/ m # Wants(f)
    PROVE  <<m, Wants(f)>> \in OrderOf(f.run) /\ m \in Mutexes /\ Wants(f) \in Mutexes
<1> DEFINE h == Held(f.run)
<1>1. f.run \in DOMAIN Sections /\ f.saved \in Seq(Mutexes \X BOOLEAN) /\ f.at \in Nat
  BY Zenon DEF FrameOK, FrameRec
<1>2. /\ Len(Code(f)) \in Nat /\ h \in [1 .. Len(Code(f)) + 1 -> Seq(Mutexes)]
      /\ Pushed(h[f.at], h[f.at + 1], Wants(f)) /\ Wants(f) \in Mutexes
      /\ \A k \in 1 .. Len(h[f.at]) : <<h[f.at][k], Wants(f)>> \in OrderOf(f.run)
  BY <1>1, Places, Zenon DEF Code, Wants
<1> HIDE DEF h
<1>3. h[f.at] \in Seq(Mutexes) /\ Len(h[f.at]) \in Nat
  BY <1>2
<1>4. PICK k \in 1 .. Len(f.saved) : m = f.saved[k][1]
  BY Zenon DEF Names
<1>5. m = Has(f)[k] /\ k \in 1 .. Len(Has(f))
  BY <1>4, Zenon DEF FrameOK
<1>6. m \in Mutexes
  <2>1. f.saved[k] \in Mutexes \X BOOLEAN
    BY <1>1, <1>4
  <2> QED BY <1>4, <2>1, Zenon
<1>7. CASE f.step = "start"
  <2>1. Has(f) = h[f.at]
    BY <1>7, Zenon DEF Has, h
  <2> QED BY <1>2, <1>5, <1>6, <2>1, Zenon
<1>8. CASE f.step # "start"
  <2>1. f.step \in {"spin", "own"}
    BY <1>8, Zenon DEF FrameOK
  <2>2. Has(f) = h[f.at + 1] /\ m # Wants(f)
    BY <1>8, <2>1, Zenon DEF Has, h
  <2>3. k \in 1 .. Len(h[f.at]) + 1 /\ k # Len(h[f.at]) + 1
    BY <1>2, <1>5, <2>2, Zenon DEF Pushed
  <2>4. k \in 1 .. Len(h[f.at])
    BY ONLY <1>3, <2>3
  <2>5. m = h[f.at][k]
    BY <1>2, <1>5, <2>2, <2>4, Zenon DEF Pushed
  <2> QED BY <1>2, <1>6, <2>4, <2>5, Zenon
<1> QED BY <1>7, <1>8, Zenon

(* Only the sweep takes what it has; two mutexes come before each other in *)
(* one way.                                                                *)
LEMMA OrderCycles ==
    /\ \A name, m : <<m, m>> \in OrderOf(name) => name = "sweepSocket"
    /\ \A m, n, name, other :
          m # n /\ <<m, n>> \in OrderOf(name) /\ <<n, m>> \in OrderOf(other)
          => {m, n} = {"NET", "FDS"}
<1>1. \A m : <<m, m>> \notin Order
  BY Zenon DEF Order
<1>2. \A m, n : m # n /\ <<m, n>> \in Order \cup {<<"NET", "NET">>}
                => <<m, n>> \in Order
  BY Zenon
<1>3. \A m, n : <<m, n>> \in Order /\ <<n, m>> \in Order => {m, n} = {"NET", "FDS"}
  <2> SUFFICES ASSUME NEW m, NEW n, <<m, n>> \in Order, <<n, m>> \in Order
               PROVE  {m, n} = {"NET", "FDS"}
    BY Zenon
  <2>1. (m = "NET" /\ n = "FDS") \/ (m = "FDS" /\ n = "NET")
    BY Zenon DEF Order
  <2> QED BY <2>1, Zenon
<1> QED BY <1>1, <1>2, <1>3, Zenon DEF OrderOf

(* The frames of a core: a section, an interrupt over a section that holds *)
(* nothing, or neither.                                                    *)
CoreOK(F, b) ==
    /\ F \in Seq(FrameRec) /\ Len(F) <= 2
    /\ \A i \in 1 .. Len(F) : FrameOK(F[i])
    /\ Len(F) = 0 => b = TRUE
    /\ Len(F) = 2 => F[1].run # "timer" /\ F[2].run = "timer" /\ Len(F[1].saved) = 0
    /\ Len(F) # 0 => IrqOK(F[Len(F)], b)

Owns(F) == IF Len(F) = 0 THEN {} ELSE OwnedBy(F[Len(F)])
Inner(F) == IF Len(F) = 0 THEN {} ELSE InsideBy(F[Len(F)])

(* A core has at most a section and an interrupt over it.                  *)
LEMMA CoreLen ==
    ASSUME NEW F, NEW b, CoreOK(F, b)
    PROVE  F \in Seq(FrameRec) /\ Len(F) \in Nat /\ Len(F) \in {0, 1, 2}
<1>1. F \in Seq(FrameRec) /\ Len(F) <= 2
  BY Zenon DEF CoreOK
<1>2. Len(F) \in Nat
  BY ONLY <1>1
<1>3. \A n \in Nat : n <= 2 => n \in {0, 1, 2}
  OBVIOUS
<1> QED BY <1>1, <1>2, <1>3, Zenon

(* A step of the section a core is in.                                     *)
LEMMA CoreTop ==
    ASSUME NEW F, NEW b, CoreOK(F, b), Len(F) # 0,
           NEW g, FrameOK(g), g.run = F[Len(F)].run, NEW x, IrqOK(g, x)
    PROVE  /\ CoreOK([F EXCEPT ![Len(F)] = g], x)
           /\ Len([F EXCEPT ![Len(F)] = g]) = Len(F) /\ [F EXCEPT ![Len(F)] = g][Len(F)] = g
<1> DEFINE n == Len(F)
           G == [F EXCEPT ![Len(F)] = g]
<1>1. F \in Seq(FrameRec) /\ n \in Nat /\ n \in 1 .. 2 /\ n \in 1 .. n
  <2>1. F \in Seq(FrameRec) /\ n \in {0, 1, 2} /\ n # 0
    BY CoreLen, Zenon
  <2> HIDE DEF n
  <2> QED BY ONLY <2>1
<1>2. g \in FrameRec
  BY Zenon DEF FrameOK
<1>3. /\ G \in Seq(FrameRec) /\ Len(G) = n /\ G[n] = g
      /\ \A i \in 1 .. n : i # n => G[i] = F[i]
  BY <1>1, <1>2
<1> HIDE DEF G, n
<1>4. \A i \in 1 .. n : FrameOK(G[i])
  BY <1>3, Zenon DEF CoreOK, n
<1>5. n = 2 => G[1].run # "timer" /\ G[2].run = "timer" /\ Len(G[1].saved) = 0
  <2> SUFFICES ASSUME n = 2 
               PROVE  G[1].run # "timer" /\ G[2].run = "timer" /\ Len(G[1].saved) = 0
    BY Zenon
  <2>1. 1 \in 1 .. n /\ 1 # n
    OBVIOUS
  <2>2. G[1] = F[1] /\ G[2] = g
    BY <1>3, <2>1, Zenon
  <2> QED BY <2>2, Zenon DEF CoreOK, n
<1>6. n <= 2 /\ n # 0
  BY <1>1
<1>7. CoreOK(G, x)
  BY <1>3, <1>4, <1>5, <1>6, Zenon DEF CoreOK
<1> QED BY <1>3, <1>7, Zenon DEF G, n

(* A new frame, which holds nothing.                                       *)
LEMMA NewFrame ==
    ASSUME NEW name \in DOMAIN Sections
    PROVE  /\ FrameOK(Frame(name)) /\ Frame(name).run = name
           /\ Names(Frame(name)) = {} /\ Len(Frame(name).saved) = 0
<1> DEFINE f == Frame(name)
<1>1. f.run = name /\ f.at = 1 /\ f.step = "start" /\ f.saved = << >>
  BY Zenon DEF Frame
<1>2. f \in FrameRec
  BY DEF Frame, FrameRec, LockSteps
<1> HIDE DEF f
<1>3. Len(f.saved) = 0 /\ 1 .. Len(f.saved) = {}
  BY <1>1
<1>4. Len(Code(f)) \in Nat /\ Len(Held(name)[1]) = 0
  BY <1>1, Places, Zenon DEF Code
<1>5. Len(Has(f)) = 0
  BY <1>1, <1>4, Zenon DEF Has
<1>6. f.at \in 1 .. Len(Code(f)) + 1
  BY <1>1, <1>4
<1>7. Names(f) = {}
  BY <1>3, Zenon DEF Names
<1>8. FrameOK(f)
  BY <1>1, <1>2, <1>3, <1>5, <1>6, Zenon DEF FrameOK
<1> QED BY <1>1, <1>3, <1>7, <1>8, Zenon DEF f

(* A core begins a section with nothing held.                              *)
LEMMA CoreBegins ==
    ASSUME NEW F, CoreOK(F, TRUE), F = << >>, NEW name \in DOMAIN Sections, name # "timer"
    PROVE  /\ CoreOK(<<Frame(name)>>, TRUE)
           /\ Owns(<<Frame(name)>>) = Owns(F) /\ Inner(<<Frame(name)>>) = Inner(F)
<1> DEFINE f == Frame(name)
           G == <<f>>
<1>1. /\ FrameOK(f) /\ f.run = name /\ Names(f) = {} /\ Len(f.saved) = 0
  BY NewFrame, Zenon
<1> HIDE DEF f
<1>2. f \in FrameRec
  BY <1>1, Zenon DEF FrameOK
<1>3. G \in Seq(FrameRec) /\ Len(G) = 1 /\ G[1] = f /\ Len(F) = 0
  BY <1>2
<1> HIDE DEF G
<1>4. \A i \in 1 .. 1 : i = 1
  OBVIOUS
<1>5. 1 .. Len(f.saved) = {}
  BY <1>1
<1>6. IrqOK(f, TRUE)
  BY <1>1, <1>5, Zenon DEF IrqOK
<1>7. CoreOK(G, TRUE)
  <2>1. Len(G) # 0 /\ Len(G) # 2 /\ Len(G) <= 2
    BY <1>3
  <2> QED BY <1>1, <1>3, <1>4, <1>6, <2>1, Zenon DEF CoreOK
<1>8. Len(G) # 0
  BY <1>3
<1>9. Owns(G) = {} /\ Inner(G) = {} /\ Owns(F) = {} /\ Inner(F) = {}
  BY <1>1, <1>3, <1>8, Zenon DEF Owns, Inner, OwnedBy, InsideBy
<1> QED BY <1>7, <1>9, Zenon DEF G, f

(* The interrupt comes when the core holds nothing.                        *)
LEMMA CoreInterrupted ==
    ASSUME NEW F, CoreOK(F, TRUE), Len(F) <= 1
    PROVE  /\ CoreOK(Append(F, Frame("timer")), FALSE)
           /\ Owns(Append(F, Frame("timer"))) = Owns(F)
           /\ Inner(Append(F, Frame("timer"))) = Inner(F)
<1> DEFINE f == Frame("timer")
           G == Append(F, f)
<1>1. /\ FrameOK(f) /\ f.run = "timer" /\ Names(f) = {} /\ Len(f.saved) = 0
  <2>1. "timer" \in DOMAIN Sections
    BY Zenon DEF Sections
  <2> QED BY <2>1, NewFrame, Zenon
<1> HIDE DEF f
<1>2. f \in FrameRec /\ F \in Seq(FrameRec) /\ Len(F) \in {0, 1}
  <2>1. f \in FrameRec /\ F \in Seq(FrameRec)
    BY <1>1, Zenon DEF FrameOK, CoreOK
  <2>2. \A n \in {0, 1, 2} : n <= 1 => n \in {0, 1}
    OBVIOUS
  <2> QED BY <2>1, <2>2, CoreLen, Zenon
<1>3. /\ G \in Seq(FrameRec) /\ Len(G) = Len(F) + 1 /\ G[Len(F) + 1] = f
      /\ \A i \in 1 .. Len(F) : G[i] = F[i]
  BY <1>2
<1> HIDE DEF G
<1>4. \A i \in 1 .. Len(F) + 1 : i \in 1 .. Len(F) \/ i = Len(F) + 1
  BY <1>2
<1>5. \A i \in 1 .. Len(G) : FrameOK(G[i])
  BY <1>1, <1>3, <1>4, Zenon DEF CoreOK
<1>6. 1 .. Len(f.saved) = {}
  BY <1>1
<1>7. IrqOK(f, FALSE)
  BY <1>1, <1>6, Zenon DEF IrqOK
<1>8. Len(F) # 0 => F[1].run # "timer" /\ Len(F[1].saved) = 0 /\ Len(F) = 1
  <2>1. Len(F) # 0 => Len(F) = 1
    BY <1>2, Zenon
  <2> QED BY <2>1, Zenon DEF CoreOK, IrqOK
<1>9. Len(G) <= 2 /\ Len(G) # 0 /\ (Len(G) = 2 => Len(F) = 1)
  BY <1>2, <1>3
<1>10. Len(F) = 1 => G[1] = F[1] /\ G[2] = f
  BY <1>3
<1>11. CoreOK(G, FALSE)
  <2>1. Len(F) = 1 => Len(F) # 0
    OBVIOUS
  <2>2. Len(G) = 2 => G[1].run # "timer" /\ G[2].run = "timer" /\ Len(G[1].saved) = 0
    BY <1>1, <1>8, <1>9, <1>10, <2>1, Zenon
  <2>3. IrqOK(G[Len(G)], FALSE)
    BY <1>3, <1>7, Zenon
  <2> QED BY <1>3, <1>5, <1>9, <2>2, <2>3, Zenon DEF CoreOK
<1>12. Len(F) # 0 => Names(F[Len(F)]) = {}
  <2>1. Len(F) # 0 => 1 .. Len(F[Len(F)].saved) = {}
    BY <1>8
  <2> QED BY <2>1, Zenon DEF Names
<1>13. Owns(F) = {} /\ Inner(F) = {}
  BY <1>12, Zenon DEF Owns, Inner, OwnedBy, InsideBy
<1>14. G[Len(G)] = f
  BY <1>3, Zenon
<1>15. Owns(G) = {} /\ Inner(G) = {}
  BY <1>1, <1>9, <1>14, Zenon DEF Owns, Inner, OwnedBy, InsideBy
<1> QED BY <1>11, <1>13, <1>15, Zenon DEF G, f

(* A section or an interrupt ends with nothing held.                       *)
LEMMA CoreEnds ==
    ASSUME NEW F, NEW b \in BOOLEAN, CoreOK(F, b), Len(F) # 0,
           F[Len(F)].at = Len(Code(F[Len(F)])) + 1,
           NEW x, x = IF F[Len(F)].run = "timer" THEN TRUE ELSE b
    PROVE  /\ CoreOK(SubSeq(F, 1, Len(F) - 1), x)
           /\ Owns(SubSeq(F, 1, Len(F) - 1)) = Owns(F)
           /\ Inner(SubSeq(F, 1, Len(F) - 1)) = Inner(F)
<1> DEFINE f == F[Len(F)]
           G == SubSeq(F, 1, Len(F) - 1)
<1>1. F \in Seq(FrameRec) /\ Len(F) \in {1, 2} /\ Len(F) \in 1 .. Len(F)
  <2>1. F \in Seq(FrameRec) /\ Len(F) \in {0, 1, 2}
    BY CoreLen, Zenon
  <2>2. \A n \in {0, 1, 2} : n # 0 => n \in {1, 2} /\ n \in 1 .. n
    OBVIOUS
  <2> QED BY <2>1, <2>2, Zenon
<1>2. FrameOK(f) /\ IrqOK(f, b)
  BY <1>1, Zenon DEF CoreOK
<1>3. f.run \in DOMAIN Sections
  BY <1>2, Zenon DEF FrameOK, FrameRec
<1>4. G \in Seq(FrameRec) /\ Len(G) = Len(F) - 1 /\ \A i \in 1 .. Len(F) - 1 : G[i] = F[i]
  BY <1>1, ButLast, Zenon
<1> HIDE DEF G, f
<1>5. f.step = "start" /\ f.at = Len(Code(f)) + 1
  <2>1. f.at = Len(Code(f)) + 1
    BY Zenon DEF f
  <2>2. Len(Code(f)) \in Nat
    BY <1>3, Places, Zenon DEF Code
  <2>3. f.at \notin 1 .. Len(Code(f))
    BY <2>1, <2>2
  <2> QED BY <1>2, <2>1, <2>3, Zenon DEF FrameOK
<1>6. Len(f.saved) = 0
  <2>1. Len(Held(f.run)[Len(Code(f)) + 1]) = 0
    BY <1>3, Places, Zenon DEF Code
  <2>2. Has(f) = Held(f.run)[f.at]
    BY <1>5, Zenon DEF Has
  <2> QED BY <1>2, <1>5, <2>1, <2>2, Zenon DEF FrameOK
<1>7. x = TRUE
  BY <1>2, <1>6, Zenon DEF IrqOK, f
<1>8. CASE Len(F) = 1
  <2>1. Len(G) = 0
    BY <1>4, <1>8
  <2>2. Len(G) <= 2 /\ Len(G) # 2 /\ 1 .. Len(G) = {}
    BY <2>1
  <2>3. CoreOK(G, x)
    BY <1>4, <1>7, <2>1, <2>2, Zenon DEF CoreOK
  <2>4. 1 .. Len(f.saved) = {}
    BY <1>6
  <2>5. Names(f) = {}
    BY <2>4, Zenon DEF Names
  <2>6. Owns(G) = {} /\ Inner(G) = {} /\ Owns(F) = {} /\ Inner(F) = {}
    BY <2>1, <2>5, Zenon DEF Owns, Inner, OwnedBy, InsideBy, f
  <2> QED BY <2>3, <2>6, Zenon DEF G
<1>9. CASE Len(F) = 2
  <2>1. Len(G) = 1 /\ G[1] = F[1]
    BY <1>4, <1>9
  <2>2. Len(G) <= 2 /\ Len(G) # 2 /\ Len(G) # 0 /\ 1 \in 1 .. Len(F)
    BY <1>9, <2>1
  <2>3. F[1].run # "timer" /\ Len(F[1].saved) = 0 /\ FrameOK(F[1])
    BY <1>9, <2>2, Zenon DEF CoreOK
  <2>4. 1 .. Len(f.saved) = {} /\ 1 .. Len(F[1].saved) = {}
    BY <1>6, <2>3
  <2>5. IrqOK(F[1], TRUE)
    BY <2>3, <2>4, Zenon DEF IrqOK
  <2>6. \A i \in 1 .. Len(G) : i = 1
    BY <2>1
  <2>7. CoreOK(G, x)
    BY <1>4, <1>7, <2>1, <2>2, <2>3, <2>5, <2>6, Zenon DEF CoreOK
  <2>8. Names(f) = {} /\ Names(F[1]) = {}
    BY <2>4, Zenon DEF Names
  <2>9. Owns(G) = {} /\ Inner(G) = {} /\ Owns(F) = {} /\ Inner(F) = {}
    BY <2>1, <2>2, <2>8, Zenon DEF Owns, Inner, OwnedBy, InsideBy, f
  <2> QED BY <2>7, <2>9, Zenon DEF G
<1> QED BY <1>1, <1>8, <1>9, Zenon

-----------------------------------------------------------------------------
(* The inductive invariant: each core is at its place in its section with  *)
(* the guards of that place, the owner of a mutex is the core whose guards *)
(* say so, and its spin lock is taken by at most one core, and then set.   *)
LockIInv ==
    /\ locked \in [Mutexes -> BOOLEAN] /\ owner \in [Mutexes -> CoreIds \cup {0}]
    /\ irq \in [CoreIds -> BOOLEAN] /\ frames \in [CoreIds -> Seq(FrameRec)]
    /\ panicked \in [CoreIds -> {"none", "sweepSocket"}]
    /\ \A c \in CoreIds : CoreOK(frames[c], irq[c])
    /\ \A c \in CoreIds : panicked[c] # "none" => Len(frames[c]) # 0 /\ Top(c).step = "start"
    /\ \A c \in CoreIds : \A m \in Mutexes : owner[m] = c <=> m \in Owns(frames[c])
    /\ \A c \in CoreIds : \A m \in Mutexes : m \in Inner(frames[c]) => locked[m] = TRUE
    /\ \A c, d \in CoreIds : \A m \in Mutexes :
          c # d => ~ (m \in Inner(frames[c]) /\ m \in Inner(frames[d]))

(* What a step of one core may change of the mutexes.                      *)
Changes(c, G) ==
    /\ owner' \in [Mutexes -> CoreIds \cup {0}] /\ locked' \in [Mutexes -> BOOLEAN]
    /\ \A m \in Mutexes : owner'[m] = c <=> m \in Owns(G)
    /\ \A m \in Mutexes : \A d \in CoreIds : d # c => (owner'[m] = d <=> owner[m] = d)
    /\ \A m \in Mutexes : m \in Inner(G) =>
          locked'[m] = TRUE /\ (m \in Inner(frames[c]) \/ locked[m] = FALSE)
    /\ \A m \in Mutexes :
          locked[m] = TRUE /\ m \notin Inner(frames[c]) => locked'[m] = TRUE

(* Such a step keeps the invariant.                                        *)
LEMMA Moves ==
    ASSUME LockIInv, NEW c \in CoreIds, panicked[c] = "none",
           NEW G, NEW b \in BOOLEAN, CoreOK(G, b),
           frames' = [frames EXCEPT ![c] = G], irq' = [irq EXCEPT ![c] = b],
           panicked' = panicked, Changes(c, G)
    PROVE  LockIInv'
<1>1. /\ irq \in [CoreIds -> BOOLEAN] /\ frames \in [CoreIds -> Seq(FrameRec)]
      /\ G \in Seq(FrameRec)
  BY Zenon DEF LockIInv, CoreOK
<1>2. irq' \in [CoreIds -> BOOLEAN] /\ frames' \in [CoreIds -> Seq(FrameRec)]
  BY <1>1, Zenon
<1>3. frames'[c] = G /\ irq'[c] = b
  BY <1>1, Zenon
<1>4. \A d \in CoreIds : d # c => frames'[d] = frames[d] /\ irq'[d] = irq[d]
  BY <1>1, Zenon
<1>5. \A d \in CoreIds : CoreOK(frames'[d], irq'[d])
  BY <1>3, <1>4, Zenon DEF LockIInv
<1>6. \A d \in CoreIds : panicked'[d] # "none" =>
         Len(frames'[d]) # 0 /\ frames'[d][Len(frames'[d])].step = "start"
  <2> SUFFICES ASSUME NEW d \in CoreIds, panicked[d] # "none"
               PROVE  Len(frames'[d]) # 0 /\ frames'[d][Len(frames'[d])].step = "start"
    BY Zenon
  <2>1. d # c
    BY Zenon
  <2>2. Len(frames[d]) # 0 /\ frames[d][Len(frames[d])].step = "start"
    BY Zenon DEF LockIInv, Top
  <2> QED BY <1>4, <2>1, <2>2, Zenon
<1>7. \A d \in CoreIds : \A m \in Mutexes : owner'[m] = d <=> m \in Owns(frames'[d])
  <2>1. ASSUME NEW d \in CoreIds, d # c, NEW m \in Mutexes
        PROVE  owner'[m] = d <=> m \in Owns(frames'[d])
    <3>1. owner[m] = d <=> m \in Owns(frames[d])
      BY Zenon DEF LockIInv
    <3>2. (owner'[m] = d <=> owner[m] = d) /\ frames'[d] = frames[d]
      BY <1>4, <2>1, Zenon DEF Changes
    <3> QED BY <3>1, <3>2, Zenon
  <2> QED BY <1>3, <2>1, Zenon DEF Changes
<1>8. \A d \in CoreIds : \A m \in Mutexes : m \in Inner(frames'[d]) => locked'[m] = TRUE
  <2> SUFFICES ASSUME NEW d \in CoreIds, d # c, NEW m \in Mutexes, m \in Inner(frames[d])
               PROVE  locked'[m] = TRUE
    BY <1>3, <1>4, Zenon DEF Changes
  <2>1. locked[m] = TRUE /\ m \notin Inner(frames[c])
    BY Zenon DEF LockIInv
  <2> QED BY <2>1, Zenon DEF Changes
<1>9. \A d, e \in CoreIds : \A m \in Mutexes :
         d # e => ~ (m \in Inner(frames'[d]) /\ m \in Inner(frames'[e]))
  <2>1. ASSUME NEW d \in CoreIds, d # c, NEW m \in Mutexes, m \in Inner(frames[d])
        PROVE  m \notin Inner(G)
    <3>1. locked[m] = TRUE /\ m \notin Inner(frames[c])
      BY <2>1, Zenon DEF LockIInv
    <3>2. TRUE # FALSE
      BY Zenon
    <3> QED BY <3>1, <3>2, Zenon DEF Changes
  <2>2. ASSUME NEW d \in CoreIds, d # c, NEW e \in CoreIds, e # c, d # e, NEW m \in Mutexes
        PROVE  ~ (m \in Inner(frames[d]) /\ m \in Inner(frames[e]))
    BY <2>2, Zenon DEF LockIInv
  <2> SUFFICES ASSUME NEW d \in CoreIds, NEW e \in CoreIds, d # e, NEW m \in Mutexes,
                      m \in Inner(frames'[d]), m \in Inner(frames'[e])
               PROVE  FALSE
    BY Zenon
  <2>3. CASE d = c
    BY <1>3, <1>4, <2>1, <2>3, Zenon
  <2>4. CASE e = c
    BY <1>3, <1>4, <2>1, <2>4, Zenon
  <2>5. CASE d # c /\ e # c
    BY <1>4, <2>2, <2>5, Zenon
  <2> QED BY <2>3, <2>4, <2>5, Zenon
<1>10. panicked' \in [CoreIds -> {"none", "sweepSocket"}]
  BY Zenon DEF LockIInv
<1>11. owner' \in [Mutexes -> CoreIds \cup {0}] /\ locked' \in [Mutexes -> BOOLEAN]
  BY Zenon DEF Changes
<1> QED BY <1>2, <1>5, <1>6, <1>7, <1>8, <1>9, <1>10, <1>11, Zenon DEF LockIInv, Top

(* A step that only moves the frames and the mask.                         *)
LEMMA Quiet ==
    ASSUME LockIInv, NEW c \in CoreIds, panicked[c] = "none",
           NEW G, NEW b \in BOOLEAN, CoreOK(G, b),
           frames' = [frames EXCEPT ![c] = G], irq' = [irq EXCEPT ![c] = b],
           panicked' = panicked, owner' = owner, locked' = locked,
           Owns(G) = Owns(frames[c]), Inner(G) = Inner(frames[c])
    PROVE  LockIInv'
<1>1. /\ owner' \in [Mutexes -> CoreIds \cup {0}] /\ locked' \in [Mutexes -> BOOLEAN]
      /\ \A m \in Mutexes : owner'[m] = c <=> m \in Owns(G)
      /\ \A m \in Mutexes : m \in Inner(G) => locked[m] = TRUE
  BY Zenon DEF LockIInv
<1>2. \A m \in Mutexes : \A d \in CoreIds : d # c => (owner'[m] = d <=> owner[m] = d)
  BY Zenon
<1>3. /\ \A m \in Mutexes : m \in Inner(G) =>
            locked'[m] = TRUE /\ (m \in Inner(frames[c]) \/ locked[m] = FALSE)
      /\ \A m \in Mutexes :
            locked[m] = TRUE /\ m \notin Inner(frames[c]) => locked'[m] = TRUE
  BY <1>1, Zenon
<1>4. Changes(c, G)
  BY <1>1, <1>2, <1>3, Zenon DEF Changes
<1> QED BY <1>4, Moves, Zenon

(* The frame that an operation of a core finds.                            *)
Finding(c, what, step) ==
    /\ CoreOK(frames[c], irq[c]) /\ Len(frames[c]) # 0 /\ panicked[c] = "none"
    /\ FrameOK(Top(c)) /\ IrqOK(Top(c), irq[c]) /\ irq[c] \in BOOLEAN
    /\ Top(c).at \in 1 .. Len(Code(Top(c)))
    /\ Code(Top(c))[Top(c).at][1] = what /\ Top(c).step = step
    /\ Wants(Top(c)) = Wanted(c) /\ Wanted(c) \in Mutexes
    /\ Owns(frames[c]) = OwnedBy(Top(c)) /\ Inner(frames[c]) = InsideBy(Top(c))
    /\ \A m \in Mutexes : owner[m] = c <=> m \in OwnedBy(Top(c))
    /\ \A m \in Mutexes : m \in InsideBy(Top(c)) => locked[m] = TRUE

(* What lock() and the drop of a guard find when they take a step.         *)
LEMMA Finds ==
    ASSUME LockIInv, NEW c \in CoreIds, NEW what, NEW step, Doing(c, what, step)
    PROVE  Finding(c, what, step)
<1>1. /\ CoreOK(frames[c], irq[c]) /\ frames[c] # << >> /\ panicked[c] = "none"
      /\ irq[c] \in BOOLEAN
  <2>1. irq \in [CoreIds -> BOOLEAN]
    BY Zenon DEF LockIInv
  <2>2. irq[c] \in BOOLEAN
    BY <2>1, Zenon
  <2> QED BY <2>2, Zenon DEF LockIInv, Doing, Busy
<1>2. frames[c] \in Seq(FrameRec) /\ Len(frames[c]) \in Nat
  BY <1>1, CoreLen, Zenon
<1>3. Len(frames[c]) # 0
  BY <1>1, <1>2
<1>4. Len(frames[c]) \in 1 .. Len(frames[c])
  BY <1>2, <1>3
<1>5. FrameOK(Top(c)) /\ IrqOK(Top(c), irq[c])
  BY <1>1, <1>3, <1>4, Zenon DEF CoreOK, Top
<1>6. Code(Top(c)) = Ops(c) /\ Wants(Top(c)) = Wanted(c)
  BY Zenon DEF Code, Wants, Ops, Wanted
<1>7. /\ Code(Top(c))[Top(c).at][1] = what /\ Top(c).step = step
      /\ Top(c).at <= Len(Code(Top(c)))
  BY <1>6, Zenon DEF Doing
<1>8. Top(c).run \in DOMAIN Sections /\ Top(c).at \in 1 .. Len(Code(Top(c))) + 1
  BY <1>5, Zenon DEF FrameOK, FrameRec
<1>9. Len(Code(Top(c))) \in Nat
  BY <1>8, Places, Zenon DEF Code
<1>10. Top(c).at \in 1 .. Len(Code(Top(c)))
  BY <1>7, <1>8, <1>9
<1>11. Wanted(c) \in Mutexes
  BY <1>6, <1>8, <1>10, Places, Zenon DEF Code, Wants
<1>12. Owns(frames[c]) = OwnedBy(Top(c)) /\ Inner(frames[c]) = InsideBy(Top(c))
  BY <1>3, Zenon DEF Owns, Inner, Top
<1>13. /\ \A m \in Mutexes : owner[m] = c <=> m \in Owns(frames[c])
       /\ \A m \in Mutexes : m \in Inner(frames[c]) => locked[m] = TRUE
  BY Zenon DEF LockIInv
<1> QED BY <1>1, <1>3, <1>5, <1>6, <1>7, <1>10, <1>11, <1>12, <1>13, Zenon DEF Finding

(* One operation replaces the frame on top.                                *)
LEMMA Replaces ==
    ASSUME LockIInv, NEW c \in CoreIds, Len(frames[c]) # 0,
           NEW g, FrameOK(g), g.run = Top(c).run, NEW b, IrqOK(g, b),
           NEW G, G = [frames[c] EXCEPT ![Len(frames[c])] = g]
    PROVE  CoreOK(G, b) /\ Owns(G) = OwnedBy(g) /\ Inner(G) = InsideBy(g)
<1>1. CoreOK(frames[c], irq[c])
  BY Zenon DEF LockIInv
<1>2. CoreOK(G, b) /\ Len(G) = Len(frames[c]) /\ G[Len(frames[c])] = g
  BY <1>1, CoreTop, Zenon DEF Top
<1> QED BY <1>2, Zenon DEF Owns, Inner

(* Owning a mutex is being inside it.                                      *)
LEMMA OwnsInner ==
    ASSUME NEW f
    PROVE  OwnedBy(f) \subseteq InsideBy(f)
<1>1. f.step = "start" => f.step \notin {"spin", "restore"}
  BY Zenon
<1> QED BY <1>1, Zenon DEF OwnedBy, InsideBy

(* A section of the kernel is entered.                                     *)
LEMMA BeginKeeps ==
    ASSUME LockIInv, NEW c \in CoreIds, NEW name \in DOMAIN Sections, BeginSection(c, name)
    PROVE  LockIInv'
<1>1. CoreOK(frames[c], irq[c]) /\ irq \in [CoreIds -> BOOLEAN]
  BY Zenon DEF LockIInv
<1>2. frames[c] = << >> /\ Len(frames[c]) = 0
  BY Zenon DEF BeginSection
<1>3. irq[c] = TRUE
  BY <1>1, <1>2, Zenon DEF CoreOK
<1>4. /\ CoreOK(<<Frame(name)>>, TRUE)
      /\ Owns(<<Frame(name)>>) = Owns(frames[c]) /\ Inner(<<Frame(name)>>) = Inner(frames[c])
  BY <1>1, <1>2, <1>3, CoreBegins, Zenon DEF BeginSection
<1>5. panicked[c] = "none"
  BY <1>2, Zenon DEF LockIInv
<1>6. irq' = [irq EXCEPT ![c] = TRUE]
  BY <1>1, <1>3, Zenon DEF BeginSection
<1>7. frames' = [frames EXCEPT ![c] = <<Frame(name)>>] /\ UNCHANGED <<owner, locked, panicked>>
  BY Zenon DEF BeginSection
<1> QED BY <1>4, <1>5, <1>6, <1>7, Quiet, Zenon

(* The timer interrupt is taken.                                           *)
LEMMA InterruptKeeps ==
    ASSUME LockIInv, NEW c \in CoreIds, Interrupt(c)
    PROVE  LockIInv'
<1>1. CoreOK(frames[c], irq[c]) /\ irq \in [CoreIds -> BOOLEAN]
  BY Zenon DEF LockIInv
<1>2. irq[c] = TRUE
  BY <1>1, Zenon DEF Interrupt
<1> DEFINE G == Append(frames[c], Frame("timer"))
<1>3. CoreOK(G, FALSE) /\ Owns(G) = Owns(frames[c]) /\ Inner(G) = Inner(frames[c])
  BY <1>1, <1>2, CoreInterrupted, Zenon DEF Interrupt
<1>4. /\ frames' = [frames EXCEPT ![c] = G] /\ irq' = [irq EXCEPT ![c] = FALSE]
      /\ UNCHANGED <<owner, locked, panicked>> /\ panicked[c] = "none"
  BY Zenon DEF Interrupt
<1> QED BY <1>3, <1>4, Quiet, Zenon

(* A section or the interrupt is left.                                     *)
LEMMA EndKeeps ==
    ASSUME LockIInv, NEW c \in CoreIds, EndSection(c)
    PROVE  LockIInv'
<1> DEFINE f == Top(c)
           F == frames[c]
           G == SubSeq(F, 1, Len(F) - 1)
           b == IF f.run = "timer" THEN TRUE ELSE irq[c]
<1>1. CoreOK(F, irq[c]) /\ irq \in [CoreIds -> BOOLEAN]
  BY Zenon DEF LockIInv
<1>2. F \in Seq(FrameRec) /\ Len(F) \in Nat
  BY <1>1, CoreLen, Zenon
<1>3. Len(F) # 0 /\ Len(F) \in 1 .. Len(F)
  BY <1>2 DEF EndSection, Busy
<1>4. FrameOK(f)
  BY <1>1, <1>3, Zenon DEF CoreOK, Top
<1>5. f.run \in DOMAIN Sections /\ f.at \in 1 .. Len(Code(f)) + 1
  BY <1>4, Zenon DEF FrameOK, FrameRec
<1>6. Len(Code(f)) \in Nat
  BY <1>5, Places, Zenon DEF Code
<1>7. f.at > Len(Code(f))
  BY Zenon DEF EndSection, Ops, Code
<1>8. f.at = Len(Code(f)) + 1
  BY <1>5, <1>6, <1>7
<1>9. irq[c] \in BOOLEAN /\ b \in BOOLEAN
  BY <1>1, Zenon
<1>10. CoreOK(G, b) /\ Owns(G) = Owns(F) /\ Inner(G) = Inner(F)
  BY <1>1, <1>3, <1>8, <1>9, CoreEnds, Zenon DEF Top
<1>11. irq' = [irq EXCEPT ![c] = b]
  BY <1>1, Zenon DEF EndSection
<1>12. /\ frames' = [frames EXCEPT ![c] = G]
       /\ UNCHANGED <<owner, locked, panicked>> /\ panicked[c] = "none"
  BY Zenon DEF EndSection, Busy
<1> QED BY <1>9, <1>10, <1>11, <1>12, Quiet, Zenon

(* lock() masks interrupts and does not find its core as the owner.        *)
LEMMA MaskKeeps ==
    ASSUME LockIInv, NEW c \in CoreIds, LockMask(c)
    PROVE  LockIInv'
<1> DEFINE f == Top(c)
           F == frames[c]
           g == [f EXCEPT !.step = "spin", !.saved = Append(@, <<Wants(f), irq[c]>>)]
           G == [F EXCEPT ![Len(F)] = g]
<1>1. /\ Len(F) # 0 /\ panicked[c] = "none" /\ FrameOK(f) /\ IrqOK(f, irq[c])
      /\ irq[c] \in BOOLEAN /\ f.at \in 1 .. Len(Code(f)) /\ Code(f)[f.at][1] = "lock"
      /\ f.step = "start" /\ Wants(f) = Wanted(c) /\ Wanted(c) \in Mutexes
      /\ Owns(F) = OwnedBy(f) /\ Inner(F) = InsideBy(f)
      /\ \A m \in Mutexes : owner[m] = c <=> m \in OwnedBy(f)
  <2>1. Finding(c, "lock", "start")
    BY Finds, Zenon DEF LockMask
  <2> QED BY <2>1, Zenon DEF Finding
<1>2. Wants(f) \notin Names(f)
  <2>1. Wanted(c) \notin OwnedBy(f)
    BY <1>1, Zenon DEF LockMask
  <2> QED BY <1>1, <2>1, Zenon DEF OwnedBy
<1>3. /\ FrameOK(g) /\ g.run = f.run /\ IrqOK(g, FALSE)
      /\ OwnedBy(g) = OwnedBy(f) /\ InsideBy(g) = InsideBy(f)
  BY <1>1, <1>2, FrameMasks, Zenon
<1>4. /\ frames' = [frames EXCEPT ![c] = G] /\ irq' = [irq EXCEPT ![c] = FALSE]
      /\ UNCHANGED <<owner, locked, panicked>>
  BY <1>1, Zenon DEF LockMask, Top
<1> HIDE DEF g
<1>5. CoreOK(G, FALSE) /\ Owns(G) = OwnedBy(g) /\ Inner(G) = InsideBy(g)
  BY <1>1, <1>3, Replaces, Zenon
<1> HIDE DEF G
<1>6. Owns(G) = Owns(frames[c]) /\ Inner(G) = Inner(frames[c])
  BY <1>1, <1>3, <1>5, Zenon
<1> QED BY <1>1, <1>4, <1>5, <1>6, Quiet, Zenon

(* lock() finds its own core as the owner in the sweep only.               *)
LEMMA PanicKeeps ==
    ASSUME LockIInv, NEW c \in CoreIds, LockPanics(c)
    PROVE  LockIInv'
<1> DEFINE f == Top(c)
           F == frames[c]
<1>1. /\ Len(F) # 0 /\ FrameOK(f)
      /\ f.at \in 1 .. Len(Code(f)) /\ Code(f)[f.at][1] = "lock"
      /\ f.step = "start" /\ Wants(f) = Wanted(c) /\ Wanted(c) \in Mutexes
      /\ \A m \in Mutexes : owner[m] = c <=> m \in OwnedBy(f)
  <2>1. Finding(c, "lock", "start")
    BY Finds, Zenon DEF LockPanics
  <2> QED BY <2>1, Zenon DEF Finding
<1>2. Wants(f) \in Names(f)
  <2>1. Wanted(c) \in OwnedBy(f)
    BY <1>1, Zenon DEF LockPanics
  <2> QED BY <1>1, <2>1, Zenon DEF OwnedBy
<1>3. f.run = "sweepSocket"
  <2>1. <<Wants(f), Wants(f)>> \in OrderOf(f.run)
    BY <1>1, <1>2, Waits, Zenon
  <2> QED BY <2>1, OrderCycles, Zenon
<1>4. /\ panicked' = [panicked EXCEPT ![c] = "sweepSocket"]
      /\ UNCHANGED <<locked, owner, irq, frames>>
  BY <1>3, Zenon DEF LockPanics
<1>5. panicked \in [CoreIds -> {"none", "sweepSocket"}]
  BY Zenon DEF LockIInv
<1>6. /\ panicked' \in [CoreIds -> {"none", "sweepSocket"}]
      /\ \A d \in CoreIds : d # c => panicked'[d] = panicked[d]
  BY <1>4, <1>5, Zenon
<1>7. \A d \in CoreIds : panicked'[d] # "none" =>
         Len(frames[d]) # 0 /\ frames[d][Len(frames[d])].step = "start"
  <2>1. \A d \in CoreIds : panicked[d] # "none" =>
           Len(frames[d]) # 0 /\ frames[d][Len(frames[d])].step = "start"
    BY Zenon DEF LockIInv, Top
  <2>2. Len(frames[c]) # 0 /\ frames[c][Len(frames[c])].step = "start"
    BY <1>1, Zenon DEF Top
  <2> QED BY <1>6, <2>1, <2>2, Zenon
<1> QED BY <1>4, <1>6, <1>7, Zenon DEF LockIInv, Top

(* lock() takes the spin lock, which nobody was inside of, or spins on.    *)
LEMMA SpinKeeps ==
    ASSUME LockIInv, NEW c \in CoreIds, LockSpin(c)
    PROVE  LockIInv'
<1> DEFINE f == Top(c)
           F == frames[c]
           g == [f EXCEPT !.step = "own"]
           G == [F EXCEPT ![Len(F)] = g]
           w == Wanted(c)
<1>1. /\ Len(F) # 0 /\ panicked[c] = "none" /\ FrameOK(f) /\ IrqOK(f, irq[c])
      /\ irq[c] \in BOOLEAN /\ f.at \in 1 .. Len(Code(f)) /\ Code(f)[f.at][1] = "lock"
      /\ f.step = "spin" /\ Wants(f) = w /\ w \in Mutexes
      /\ Owns(F) = OwnedBy(f) /\ Inner(F) = InsideBy(f) /\ CoreOK(F, irq[c])
      /\ \A m \in Mutexes : owner[m] = c <=> m \in OwnedBy(f)
      /\ \A m \in Mutexes : m \in InsideBy(f) => locked[m] = TRUE
  <2>1. Finding(c, "lock", "spin")
    BY Finds, Zenon DEF LockSpin
  <2> QED BY <2>1, Zenon DEF Finding
<1>2. /\ locked \in [Mutexes -> BOOLEAN] /\ irq \in [CoreIds -> BOOLEAN]
      /\ frames \in [CoreIds -> Seq(FrameRec)] /\ owner \in [Mutexes -> CoreIds \cup {0}]
  BY Zenon DEF LockIInv
<1>3. irq' = [irq EXCEPT ![c] = irq[c]] /\ UNCHANGED <<owner, panicked>>
  BY <1>2, Zenon DEF LockSpin
<1>4. CASE locked[w] /\ UNCHANGED <<locked, frames>>
  <2>1. frames' = [frames EXCEPT ![c] = F] /\ locked' = locked
    BY <1>2, <1>4, Zenon
  <2> QED BY <1>1, <1>3, <2>1, Quiet, Zenon
<1>5. CASE ~ locked[w] /\ locked' = [locked EXCEPT ![w] = TRUE] /\ Goes(c, "own")
  <2>1. /\ FrameOK(g) /\ g.run = f.run /\ g.step = "own" /\ IrqOK(g, irq[c])
        /\ Names(g) = Names(f) /\ Wants(g) = Wants(f)
    <3>1. ("own" = "own") = (Code(f)[f.at][1] = "lock")
      BY <1>1, Zenon
    <3> QED BY <1>1, <3>1, FrameSteps
  <2>2. frames' = [frames EXCEPT ![c] = G]
    BY <1>5, Zenon DEF Goes, Top
  <2> HIDE DEF g
  <2>3. CoreOK(G, irq[c]) /\ Owns(G) = OwnedBy(g) /\ Inner(G) = InsideBy(g)
    BY <1>1, <2>1, Replaces, Zenon
  <2> HIDE DEF G
  <2>4. /\ locked[w] = FALSE /\ locked' \in [Mutexes -> BOOLEAN] /\ locked'[w] = TRUE
        /\ \A m \in Mutexes : m # w => locked'[m] = locked[m]
    <3> HIDE DEF w
    <3> QED BY <1>1, <1>2, <1>5, Zenon
  <2>5. OwnedBy(g) = OwnedBy(f)
    BY <1>1, <2>1, Zenon DEF OwnedBy
  <2>6. \A m : m \in InsideBy(g) => m \in InsideBy(f) \/ m = w
    BY <1>1, Zenon, <2>1 DEF InsideBy
  <2>7. \A m \in Mutexes : owner'[m] = c <=> m \in Owns(G)
    BY <1>1, <1>3, <2>3, <2>5, Zenon
  <2>8. \A m \in Mutexes : m \in Inner(G) =>
           locked'[m] = TRUE /\ (m \in Inner(frames[c]) \/ locked[m] = FALSE)
    <3>1. \A m \in Mutexes : m # w /\ m \in Inner(G) => m \in Inner(frames[c])
      BY <1>1, <2>3, <2>6, Zenon
    <3>2. \A m \in Mutexes : m # w /\ m \in Inner(frames[c]) => locked'[m] = TRUE
      BY <1>1, <2>4, Zenon
    <3> QED BY <2>4, <3>1, <3>2, Zenon
  <2>9. \A m \in Mutexes : locked[m] = TRUE /\ m \notin Inner(frames[c]) => locked'[m] = TRUE
    BY <2>4, Zenon
  <2>10. Changes(c, G)
    BY <1>2, <1>3, <2>4, <2>7, <2>8, <2>9, Zenon DEF Changes
  <2> QED BY <1>1, <1>3, <2>2, <2>3, <2>10, Moves, Zenon
<1> QED BY <1>4, <1>5, Zenon DEF LockSpin

(* The core records itself: nobody else was recorded, for only one core is *)
(* inside.                                                                 *)
LEMMA OwnKeeps ==
    ASSUME LockIInv, NEW c \in CoreIds, LockOwn(c)
    PROVE  LockIInv'
<1> DEFINE f == Top(c)
           F == frames[c]
           g == [f EXCEPT !.at = @ + 1, !.step = "start", !.saved = f.saved]
           G == [F EXCEPT ![Len(F)] = g]
           w == Wanted(c)
<1>1. /\ Len(F) # 0 /\ panicked[c] = "none" /\ FrameOK(f) /\ IrqOK(f, irq[c])
      /\ irq[c] \in BOOLEAN /\ f.at \in 1 .. Len(Code(f)) /\ Code(f)[f.at][1] = "lock"
      /\ f.step = "own" /\ Wants(f) = w /\ w \in Mutexes
      /\ Owns(F) = OwnedBy(f) /\ Inner(F) = InsideBy(f)
      /\ \A m \in Mutexes : owner[m] = c <=> m \in OwnedBy(f)
      /\ \A m \in Mutexes : m \in InsideBy(f) => locked[m] = TRUE
  <2>1. Finding(c, "lock", "own")
    BY Finds, Zenon DEF LockOwn
  <2> QED BY <2>1, Zenon DEF Finding
<1>2. /\ locked \in [Mutexes -> BOOLEAN] /\ irq \in [CoreIds -> BOOLEAN]
      /\ owner \in [Mutexes -> CoreIds \cup {0}]
  BY Zenon DEF LockIInv
<1>3. irq' = [irq EXCEPT ![c] = irq[c]] /\ UNCHANGED <<locked, panicked>>
  BY <1>2, Zenon DEF LockOwn
<1>4. /\ FrameOK(g) /\ g.run = f.run /\ g.step = "start" /\ IrqOK(g, irq[c])
      /\ Names(g) = Names(f)
  BY <1>1, FrameOwns, ZenonT(60)
<1>5. frames' = [frames EXCEPT ![c] = G]
  BY Zenon DEF LockOwn, Passes, Top
<1> HIDE DEF g
<1>6. CoreOK(G, irq[c]) /\ Owns(G) = OwnedBy(g) /\ Inner(G) = InsideBy(g)
  BY <1>1, <1>4, Replaces, Zenon
<1> HIDE DEF G
<1>7. /\ owner' \in [Mutexes -> CoreIds \cup {0}] /\ owner'[w] = c
      /\ \A m \in Mutexes : m # w => owner'[m] = owner[m]
  <2>1. owner' = [owner EXCEPT ![w] = c]
    BY Zenon DEF LockOwn
  <2> HIDE DEF w
  <2> QED BY <1>1, <1>2, <2>1, Zenon
<1>8. w \in Names(f)
  <2>1. f.step # "start"
    BY <1>1, Zenon
  <2> QED BY <1>1, <2>1, TopGuard, Zenon
<1>9. InsideBy(g) = InsideBy(f)
  <2>1. f.step \notin {"spin", "restore"} /\ g.step \notin {"spin", "restore"}
    BY <1>1, <1>4, Zenon
  <2> QED BY <1>4, <2>1, Zenon DEF InsideBy
<1>10. \A m : m \in OwnedBy(g) <=> m \in OwnedBy(f) \/ m = w
  <2>1. f.step # "start"
    BY <1>1, Zenon
  <2> QED BY <1>1, <1>4, <1>8, <2>1, Zenon DEF OwnedBy
<1>11. \A m \in Mutexes : owner'[m] = c <=> m \in Owns(G)
  <2>1. \A m \in Mutexes : m # w => (owner'[m] = c <=> m \in OwnedBy(f))
    BY <1>1, <1>7, Zenon
  <2> QED BY <1>6, <1>7, <1>10, <2>1, Zenon
<1>12. \A d \in CoreIds : d # c => owner[w] # d
  <2> SUFFICES ASSUME NEW d \in CoreIds, d # c, owner[w] = d PROVE FALSE
    BY Zenon
  <2>1. w \in Owns(frames[d])
    BY <1>1, Zenon DEF LockIInv
  <2>2. w \in Inner(frames[d])
    BY <2>1, OwnsInner, Zenon DEF Owns, Inner
  <2>3. w \in Inner(frames[c])
    <3>1. f.step \notin {"spin", "restore"}
      BY <1>1, Zenon
    <3> QED BY <1>1, <1>8, <3>1, Zenon DEF InsideBy
  <2> QED BY <1>1, <2>2, <2>3, Zenon DEF LockIInv
<1>13. \A m \in Mutexes : \A d \in CoreIds : d # c => (owner'[m] = d <=> owner[m] = d)
  BY <1>7, <1>12, Zenon
<1>14. \A m \in Mutexes : m \in Inner(G) =>
          locked'[m] = TRUE /\ (m \in Inner(frames[c]) \/ locked[m] = FALSE)
  BY <1>1, <1>3, <1>6, <1>9, Zenon
<1>15. \A m \in Mutexes : locked[m] = TRUE /\ m \notin Inner(frames[c]) => locked'[m] = TRUE
  BY <1>3, Zenon
<1>16. Changes(c, G)
  BY <1>2, <1>3, <1>7, <1>11, <1>13, <1>14, <1>15, Zenon DEF Changes
<1> QED BY <1>1, <1>3, <1>5, <1>6, <1>16, Moves, Zenon

(* The drop of a guard takes back the owner, which was this core.          *)
LEMMA DisownKeeps ==
    ASSUME LockIInv, NEW c \in CoreIds, DropDisown(c)
    PROVE  LockIInv'
<1> DEFINE f == Top(c)
           F == frames[c]
           g == [f EXCEPT !.step = "unlock"]
           G == [F EXCEPT ![Len(F)] = g]
           w == Wanted(c)
<1>1. /\ Len(F) # 0 /\ panicked[c] = "none" /\ FrameOK(f) /\ IrqOK(f, irq[c])
      /\ irq[c] \in BOOLEAN /\ f.at \in 1 .. Len(Code(f)) /\ Code(f)[f.at][1] = "drop"
      /\ f.step = "start" /\ Wants(f) = w /\ w \in Mutexes
      /\ Owns(F) = OwnedBy(f) /\ Inner(F) = InsideBy(f)
      /\ \A m \in Mutexes : owner[m] = c <=> m \in OwnedBy(f)
      /\ \A m \in Mutexes : m \in InsideBy(f) => locked[m] = TRUE
  <2>1. Finding(c, "drop", "start")
    BY Finds, Zenon DEF DropDisown
  <2> QED BY <2>1, Zenon DEF Finding
<1>2. /\ locked \in [Mutexes -> BOOLEAN] /\ irq \in [CoreIds -> BOOLEAN]
      /\ owner \in [Mutexes -> CoreIds \cup {0}]
  BY Zenon DEF LockIInv
<1>3. irq' = [irq EXCEPT ![c] = irq[c]] /\ UNCHANGED <<locked, panicked>>
  BY <1>2, Zenon DEF DropDisown
<1>4. /\ FrameOK(g) /\ g.run = f.run /\ g.step = "unlock" /\ IrqOK(g, irq[c])
      /\ Names(g) = Names(f) /\ Wants(g) = Wants(f)
  <2>1. ("unlock" = "own") = (Code(f)[f.at][1] = "lock")
    BY <1>1, Zenon
  <2> QED BY <1>1, <2>1, FrameSteps
<1>5. frames' = [frames EXCEPT ![c] = G]
  BY Zenon DEF DropDisown, Goes, Top
<1> HIDE DEF g
<1>6. CoreOK(G, irq[c]) /\ Owns(G) = OwnedBy(g) /\ Inner(G) = InsideBy(g)
  BY <1>1, <1>4, Replaces, Zenon
<1> HIDE DEF G
<1>7. /\ owner' \in [Mutexes -> CoreIds \cup {0}] /\ owner'[w] = 0
      /\ \A m \in Mutexes : m # w => owner'[m] = owner[m]
  <2>1. owner' = [owner EXCEPT ![w] = 0]
    BY Zenon DEF DropDisown
  <2> HIDE DEF w
  <2> QED BY <1>1, <1>2, <2>1, Zenon
<1>8. owner[w] = c
  <2>1. w \in Names(f)
    BY <1>1, TopGuard, Zenon
  <2> QED BY <1>1, <2>1, Zenon DEF OwnedBy
<1>9. InsideBy(g) = InsideBy(f)
  <2>1. f.step \notin {"spin", "restore"} /\ g.step \notin {"spin", "restore"}
    BY <1>1, <1>4, Zenon
  <2> QED BY <1>4, <2>1, Zenon DEF InsideBy
<1>10. \A m : m \in OwnedBy(g) <=> m \in OwnedBy(f) /\ m # w
  <2>1. g.step # "start"
    BY <1>4, Zenon
  <2> QED BY <1>1, <1>4, <2>1, Zenon DEF OwnedBy
<1>11. \A d \in CoreIds : d # 0
  BY CoreIdsAssumption, Zenon
<1>12. \A m \in Mutexes : owner'[m] = c <=> m \in Owns(G)
  <2>1. \A m \in Mutexes : m # w => (owner'[m] = c <=> m \in OwnedBy(f))
    BY <1>1, <1>7, Zenon
  <2> QED BY <1>6, <1>7, <1>10, <1>11, <2>1, Zenon
<1>13. \A m \in Mutexes : \A d \in CoreIds : d # c => (owner'[m] = d <=> owner[m] = d)
  BY <1>7, <1>8, <1>11, Zenon
<1>14. \A m \in Mutexes : m \in Inner(G) =>
          locked'[m] = TRUE /\ (m \in Inner(frames[c]) \/ locked[m] = FALSE)
  BY <1>1, <1>3, <1>6, <1>9, Zenon
<1>15. \A m \in Mutexes : locked[m] = TRUE /\ m \notin Inner(frames[c]) => locked'[m] = TRUE
  BY <1>3, Zenon
<1>16. Changes(c, G)
  BY <1>2, <1>3, <1>7, <1>12, <1>13, <1>14, <1>15, Zenon DEF Changes
<1> QED BY <1>1, <1>3, <1>5, <1>6, <1>16, Moves, Zenon

(* The drop frees the spin lock, which this core had.                      *)
LEMMA UnlockKeeps ==
    ASSUME LockIInv, NEW c \in CoreIds, DropUnlock(c)
    PROVE  LockIInv'
<1> DEFINE f == Top(c)
           F == frames[c]
           g == [f EXCEPT !.step = "restore"]
           G == [F EXCEPT ![Len(F)] = g]
           w == Wanted(c)
<1>1. /\ Len(F) # 0 /\ panicked[c] = "none" /\ FrameOK(f) /\ IrqOK(f, irq[c])
      /\ irq[c] \in BOOLEAN /\ f.at \in 1 .. Len(Code(f)) /\ Code(f)[f.at][1] = "drop"
      /\ f.step = "unlock" /\ Wants(f) = w /\ w \in Mutexes
      /\ Owns(F) = OwnedBy(f) /\ Inner(F) = InsideBy(f)
      /\ \A m \in Mutexes : owner[m] = c <=> m \in OwnedBy(f)
      /\ \A m \in Mutexes : m \in InsideBy(f) => locked[m] = TRUE
  <2>1. Finding(c, "drop", "unlock")
    BY Finds, Zenon DEF DropUnlock
  <2> QED BY <2>1, Zenon DEF Finding
<1>2. /\ locked \in [Mutexes -> BOOLEAN] /\ irq \in [CoreIds -> BOOLEAN]
      /\ owner \in [Mutexes -> CoreIds \cup {0}]
  BY Zenon DEF LockIInv
<1>3. irq' = [irq EXCEPT ![c] = irq[c]] /\ UNCHANGED <<owner, panicked>>
  BY <1>2, Zenon DEF DropUnlock
<1>4. /\ FrameOK(g) /\ g.run = f.run /\ g.step = "restore" /\ IrqOK(g, irq[c])
      /\ Names(g) = Names(f) /\ Wants(g) = Wants(f)
  <2>1. ("restore" = "own") = (Code(f)[f.at][1] = "lock")
    BY <1>1, Zenon
  <2> QED BY <1>1, <2>1, FrameSteps
<1>5. frames' = [frames EXCEPT ![c] = G]
  BY Zenon DEF DropUnlock, Goes, Top
<1> HIDE DEF g
<1>6. CoreOK(G, irq[c]) /\ Owns(G) = OwnedBy(g) /\ Inner(G) = InsideBy(g)
  BY <1>1, <1>4, Replaces, Zenon
<1> HIDE DEF G
<1>7. /\ locked' \in [Mutexes -> BOOLEAN]
      /\ \A m \in Mutexes : m # w => locked'[m] = locked[m]
  <2>1. locked' = [locked EXCEPT ![w] = FALSE]
    BY Zenon DEF DropUnlock
  <2> HIDE DEF w
  <2> QED BY <1>1, <1>2, <2>1, Zenon
<1>8. w \in InsideBy(f)
  <2>1. w \in Names(f)
    BY <1>1, TopGuard, Zenon
  <2>2. f.step \notin {"spin", "restore"}
    BY <1>1, Zenon
  <2> QED BY <2>1, <2>2, Zenon DEF InsideBy
<1>9. OwnedBy(g) = OwnedBy(f)
  <2>1. f.step # "start" /\ g.step # "start"
    BY <1>1, <1>4, Zenon
  <2> QED BY <1>4, <2>1, Zenon DEF OwnedBy
<1>10. \A m : m \in InsideBy(g) => m \in InsideBy(f) /\ m # w
  <2>1. g.step \in {"spin", "restore"}
    BY <1>4, Zenon
  <2> QED BY <1>1, <1>4, <2>1, Zenon DEF InsideBy
<1>11. \A m \in Mutexes : owner'[m] = c <=> m \in Owns(G)
  BY <1>1, <1>3, <1>6, <1>9, Zenon
<1>12. \A m \in Mutexes : \A d \in CoreIds : d # c => (owner'[m] = d <=> owner[m] = d)
  BY <1>3, Zenon
<1>13. \A m \in Mutexes : m \in Inner(G) =>
          locked'[m] = TRUE /\ (m \in Inner(frames[c]) \/ locked[m] = FALSE)
  <2>1. \A m \in Mutexes : m \in Inner(G) => m \in InsideBy(f) /\ m # w
    BY <1>6, <1>10, Zenon
  <2>2. \A m \in Mutexes : m \in InsideBy(f) /\ m # w => locked'[m] = TRUE
    BY <1>1, <1>7, Zenon
  <2> QED BY <1>1, <2>1, <2>2, Zenon
<1>14. \A m \in Mutexes : locked[m] = TRUE /\ m \notin Inner(frames[c]) => locked'[m] = TRUE
  BY <1>1, <1>7, <1>8, Zenon
<1>15. Changes(c, G)
  BY <1>2, <1>3, <1>7, <1>11, <1>12, <1>13, <1>14, Zenon DEF Changes
<1> QED BY <1>1, <1>3, <1>5, <1>6, <1>15, Moves, Zenon

(* The drop restores the interrupt state that its guard has.               *)
LEMMA RestoreKeeps ==
    ASSUME LockIInv, NEW c \in CoreIds, DropRestore(c)
    PROVE  LockIInv'
<1> DEFINE f == Top(c)
           F == frames[c]
           i == CHOOSE k \in DOMAIN f.saved : f.saved[k][1] = Wants(f)
           g == [f EXCEPT !.at = @ + 1, !.step = "start",
                          !.saved = SubSeq(f.saved, 1, i - 1)
                                    \o SubSeq(f.saved, i + 1, Len(f.saved))]
           G == [F EXCEPT ![Len(F)] = g]
<1>1. /\ Len(F) # 0 /\ panicked[c] = "none" /\ FrameOK(f) /\ IrqOK(f, irq[c])
      /\ irq[c] \in BOOLEAN /\ f.at \in 1 .. Len(Code(f)) /\ f.step = "restore"
      /\ Owns(F) = OwnedBy(f) /\ Inner(F) = InsideBy(f) /\ Wants(f) = Wanted(c)
  <2>1. Finding(c, "drop", "restore")
    BY Finds, Zenon DEF DropRestore
  <2> QED BY <2>1, Zenon DEF Finding
<1>2. /\ FrameOK(g) /\ g.run = f.run /\ IrqOK(g, f.saved[i][2]) /\ f.saved[i][2] \in BOOLEAN
      /\ OwnedBy(g) = OwnedBy(f) /\ InsideBy(g) = InsideBy(f)
  BY <1>1, FrameRestores, ZenonT(40)
<1>3. i = CHOOSE k \in DOMAIN f.saved : f.saved[k][1] = Wanted(c)
  BY <1>1, Zenon
<1> HIDE DEF i
<1>4. frames' = [frames EXCEPT ![c] = G] /\ irq' = [irq EXCEPT ![c] = f.saved[i][2]]
  BY <1>3, Zenon DEF DropRestore, Passes, Top
<1>5. UNCHANGED <<owner, locked, panicked>>
  BY Zenon DEF DropRestore
<1> HIDE DEF g
<1>6. CoreOK(G, f.saved[i][2]) /\ Owns(G) = OwnedBy(g) /\ Inner(G) = InsideBy(g)
  BY <1>1, <1>2, Replaces, Zenon
<1> HIDE DEF G
<1>7. Owns(G) = Owns(frames[c]) /\ Inner(G) = Inner(frames[c])
  BY <1>1, <1>2, <1>6, Zenon
<1> QED BY <1>1, <1>2, <1>4, <1>5, <1>6, <1>7, Quiet, Zenon

(* What a core is inside of is what the frame on top says.                 *)
LEMMA InsideInner ==
    ASSUME LockIInv, NEW c \in CoreIds, NEW m \in InsideOf(c)
    PROVE  m \in Inner(frames[c]) /\ m \in Mutexes
<1> DEFINE F == frames[c]
           n == Len(F)
<1>1. CoreOK(F, irq[c])
  BY Zenon DEF LockIInv
<1>2. F \in Seq(FrameRec) /\ n \in Nat /\ n \in {0, 1, 2} /\ DOMAIN F = 1 .. n
  <2>1. F \in Seq(FrameRec) /\ n \in Nat /\ n \in {0, 1, 2}
    BY <1>1, CoreLen, Zenon
  <2> QED BY <2>1
<1>3. PICK i \in DOMAIN F : \E j \in DOMAIN F[i].saved : m = F[i].saved[j][1]
  <2>1. m \in Guards(c)
    BY Zenon DEF InsideOf
  <2>2. PICK f \in {F[i] : i \in DOMAIN F} : m \in {f.saved[j][1] : j \in DOMAIN f.saved}
    BY <2>1, Zenon DEF Guards
  <2>3. PICK i \in DOMAIN F : f = F[i]
    BY <2>2, Zenon
  <2> QED BY <2>2, <2>3, Zenon
<1>4. PICK j \in DOMAIN F[i].saved : m = F[i].saved[j][1]
  BY <1>3, Zenon
<1>5. FrameOK(F[i]) /\ i \in 1 .. n
  BY <1>1, <1>2, Zenon DEF CoreOK
<1>6. F[i].saved \in Seq(Mutexes \X BOOLEAN)
  BY <1>5, Zenon DEF FrameOK, FrameRec
<1>7. /\ DOMAIN F[i].saved = 1 .. Len(F[i].saved)
      /\ j \in 1 .. Len(F[i].saved) /\ F[i].saved[j] \in Mutexes \X BOOLEAN
  BY <1>4, <1>6
<1>8. m \in Mutexes /\ m \in Names(F[i])
  <2>1. m \in Mutexes
    BY <1>4, <1>7, Zenon
  <2> QED BY <1>4, <1>7, <2>1, Zenon DEF Names
<1>9. i = n
  <2> SUFFICES ASSUME i # n PROVE FALSE
    BY Zenon
  <2>1. n = 2 /\ i = 1
    <3> HIDE DEF n
    <3> QED BY <1>2, <1>5
  <2>2. Len(F[1].saved) = 0
    BY <1>1, <2>1, Zenon DEF CoreOK
  <2> QED BY <1>7, <2>1, <2>2
<1>10. n # 0 /\ Inner(F) = InsideBy(F[n])
  <2>1. n # 0
    BY <1>5
  <2> QED BY <2>1, Zenon DEF Inner
<1>11. Top(c) = F[n] /\ FrameOK(Top(c)) /\ m \in Names(Top(c))
  BY <1>5, <1>8, <1>9, Zenon DEF Top
<1>12. CASE Top(c).step \notin {"spin", "restore"}
  BY <1>8, <1>10, <1>11, <1>12, Zenon DEF InsideBy
<1>13. CASE Top(c).step \in {"spin", "restore"}
  <2>1. Top(c).step # "start"
    BY <1>13, Zenon
  <2>2. panicked[c] = "none"
    BY <2>1, Zenon DEF LockIInv
  <2>3. Top(c).run \in DOMAIN Sections /\ Top(c).at \in 1 .. Len(Code(Top(c)))
    <3>1. Top(c) \in FrameRec /\ Top(c).at \in 1 .. Len(Code(Top(c)))
      BY <1>11, <2>1, Zenon DEF FrameOK
    <3> QED BY <3>1, Zenon DEF FrameRec
  <2>4. Len(Code(Top(c))) \in Nat /\ Code(Top(c))[Top(c).at][1] \in {"lock", "drop"}
    BY <2>3, Places, Zenon DEF Code
  <2>5. Code(Top(c)) = Ops(c) /\ Wants(Top(c)) = Wanted(c)
    BY Zenon DEF Code, Ops, Wants, Wanted
  <2>6. Top(c).at <= Len(Ops(c))
    BY <2>3, <2>4, <2>5
  <2>7. frames[c] # << >>
    BY <1>2, <1>10
  <2>8. Top(c).step \in {"spin", "own"} <=> Ops(c)[Top(c).at][1] = "lock"
    BY <1>11, <2>1, <2>5, Zenon DEF FrameOK
  <2>9. \/ Top(c).step = "spin" /\ Ops(c)[Top(c).at][1] = "lock"
        \/ Top(c).step = "restore" /\ Ops(c)[Top(c).at][1] = "drop"
    BY <1>13, <2>4, <2>5, <2>8, Zenon
  <2>10. Spins(c) \/ Doing(c, "drop", "restore")
    BY <2>2, <2>6, <2>7, <2>9, Zenon DEF Spins, Doing, Busy
  <2>11. m # Wants(Top(c))
    BY <2>5, <2>10, Zenon DEF InsideOf
  <2> QED BY <1>8, <1>10, <1>11, <2>11, Zenon DEF InsideBy
<1> QED BY <1>12, <1>13, Zenon

(* A mutex that another core waits for comes before the one its owner      *)
(* waits for.                                                              *)
LEMMA WaitsOrdered ==
    ASSUME LockIInv, NEW d \in CoreIds, Spins(d),
           NEW m \in Mutexes, owner[m] = d
    PROVE  <<m, Wanted(d)>> \in OrderOf(Top(d).run) /\ m # Wanted(d)
<1>1. /\ FrameOK(Top(d)) /\ Top(d).at \in 1 .. Len(Code(Top(d)))
      /\ Code(Top(d))[Top(d).at][1] = "lock" /\ Top(d).step = "spin"
      /\ Wants(Top(d)) = Wanted(d)
      /\ \A k \in Mutexes : owner[k] = d <=> k \in OwnedBy(Top(d))
  <2>1. Finding(d, "lock", "spin")
    BY Finds, Zenon DEF Spins
  <2> QED BY <2>1, Zenon DEF Finding
<1>2. m \in OwnedBy(Top(d)) /\ Top(d).step # "start"
  BY <1>1, Zenon
<1>3. m \in Names(Top(d)) /\ m # Wants(Top(d))
  BY <1>2, Zenon DEF OwnedBy
<1> QED BY <1>1, <1>3, Waits, Zenon

(* The inductive invariant implies the one the mutex promises.             *)
LEMMA LockIInvInv ==
    LockIInv => LockInv
<1> SUFFICES ASSUME LockIInv PROVE LockInv
  BY Zenon
<1>1. LockTypeOK
  <2>1. /\ locked \in [Mutexes -> BOOLEAN] /\ owner \in [Mutexes -> CoreIds \cup {0}]
        /\ irq \in [CoreIds -> BOOLEAN] /\ panicked \in [CoreIds -> {"none", "sweepSocket"}]
    BY Zenon DEF LockIInv
  <2>2. ASSUME NEW c \in CoreIds
        PROVE  Len(frames[c]) <= 2 /\ panicked[c] \in DOMAIN Sections \cup {"none"}
    <3>1. Len(frames[c]) <= 2
      BY Zenon DEF LockIInv, CoreOK
    <3>2. "sweepSocket" \in DOMAIN Sections
      BY Zenon DEF Sections
    <3>3. panicked[c] \in {"none", "sweepSocket"}
      BY <2>1, Zenon
    <3> QED BY <3>1, <3>2, <3>3, Zenon
  <2>3. ASSUME NEW m \in Mutexes, owner[m] # 0
        PROVE  locked[m]
    <3>1. owner[m] \in CoreIds
      BY <2>1, <2>3, Zenon
    <3>2. PICK c \in CoreIds : c = owner[m]
      BY <3>1, Zenon
    <3>3. m \in Owns(frames[c])
      BY <3>2, Zenon DEF LockIInv
    <3>4. m \in Inner(frames[c])
      BY <3>3, OwnsInner, Zenon DEF Owns, Inner
    <3>5. locked[m] = TRUE
      BY <3>4, Zenon DEF LockIInv
    <3> QED BY <3>5, Zenon
  <2> QED BY <2>1, <2>2, <2>3, Zenon DEF LockTypeOK
<1>2. MutualExclusion
  <2> SUFFICES ASSUME NEW c \in CoreIds, NEW d \in CoreIds, c # d,
                      NEW m \in InsideOf(c), m \in InsideOf(d)
               PROVE  FALSE
    BY Zenon DEF MutualExclusion
  <2>1. m \in Inner(frames[c]) /\ m \in Inner(frames[d]) /\ m \in Mutexes
    BY InsideInner, Zenon
  <2> QED BY <2>1, Zenon DEF LockIInv
<1>3. ReentersOnlySweeping
  <2>1. panicked \in [CoreIds -> {"none", "sweepSocket"}]
    BY Zenon DEF LockIInv
  <2> QED BY <2>1, Zenon DEF ReentersOnlySweeping
<1>4. OneDeadlyEmbrace
  <2> SUFFICES ASSUME NEW c \in CoreIds, NEW d \in CoreIds, Spins(c), Spins(d),
                      owner[Wanted(c)] = d, owner[Wanted(d)] = c
               PROVE  {Wanted(c), Wanted(d)} = {"NET", "FDS"}
    BY Zenon DEF OneDeadlyEmbrace
  <2>1. Wanted(c) \in Mutexes /\ Wanted(d) \in Mutexes
    <3>1. Finding(c, "lock", "spin") /\ Finding(d, "lock", "spin")
      BY Finds, Zenon DEF Spins
    <3> QED BY <3>1, Zenon DEF Finding
  <2>2. /\ <<Wanted(c), Wanted(d)>> \in OrderOf(Top(d).run) /\ Wanted(c) # Wanted(d)
        /\ <<Wanted(d), Wanted(c)>> \in OrderOf(Top(c).run)
    BY <2>1, WaitsOrdered, Zenon
  <2> QED BY <2>2, OrderCycles, Zenon
<1> QED BY <1>1, <1>2, <1>3, <1>4, Zenon DEF LockInv

(* At boot nothing is locked.                                              *)
LEMMA LockInitIInv ==
    LockInit => LockIInv
<1> SUFFICES ASSUME LockInit PROVE LockIInv
  BY Zenon
<1>1. /\ locked \in [Mutexes -> BOOLEAN] /\ owner \in [Mutexes -> CoreIds \cup {0}]
      /\ irq \in [CoreIds -> BOOLEAN] /\ frames \in [CoreIds -> Seq(FrameRec)]
      /\ panicked \in [CoreIds -> {"none", "sweepSocket"}]
  BY DEF LockInit
<1>2. \A c \in CoreIds : frames[c] = << >> /\ irq[c] = TRUE /\ panicked[c] = "none"
  BY Zenon DEF LockInit
<1>3. \A m \in Mutexes : owner[m] = 0
  BY Zenon DEF LockInit
<1>4. /\ << >> \in Seq(FrameRec) /\ Len(<< >>) = 0 /\ Len(<< >>) <= 2 /\ Len(<< >>) # 2
      /\ 1 .. Len(<< >>) = {}
  OBVIOUS
<1>5. CoreOK(<< >>, TRUE) /\ Owns(<< >>) = {} /\ Inner(<< >>) = {}
  BY <1>4, Zenon DEF CoreOK, Owns, Inner
<1>6. \A c \in CoreIds : c # 0
  BY CoreIdsAssumption, Zenon
<1>7. \A c \in CoreIds : CoreOK(frames[c], irq[c])
  BY <1>2, <1>5, Zenon
<1>8. \A c \in CoreIds : Owns(frames[c]) = {} /\ Inner(frames[c]) = {}
  BY <1>2, <1>5, Zenon
<1> QED BY <1>1, <1>2, <1>3, <1>6, <1>7, <1>8, Zenon DEF LockIInv

(* Every step of a core keeps the inductive invariant.                     *)
LEMMA LockNextIInv ==
    LockIInv /\ [LockNext]_lockVars => LockIInv'
<1> SUFFICES ASSUME LockIInv, [LockNext]_lockVars PROVE LockIInv'
  BY Zenon
<1>1. CASE UNCHANGED lockVars
  <2>1. UNCHANGED <<locked, owner, irq, frames, panicked>>
    BY <1>1, Zenon DEF lockVars
  <2> QED BY <2>1, Zenon DEF LockIInv, Top
<1>2. CASE LockNext
  <2>1. PICK c \in CoreIds :
           \/ \E name \in DOMAIN Sections : BeginSection(c, name)
           \/ Interrupt(c) \/ EndSection(c)
           \/ LockMask(c) \/ LockPanics(c) \/ LockSpin(c) \/ LockOwn(c)
           \/ DropDisown(c) \/ DropUnlock(c) \/ DropRestore(c)
    BY <1>2, Zenon DEF LockNext
  <2> QED BY <2>1, BeginKeeps, InterruptKeeps, EndKeeps, MaskKeeps, PanicKeeps, SpinKeeps,
             OwnKeeps, DisownKeeps, UnlockKeeps, RestoreKeeps, Zenon
<1> QED BY <1>1, <1>2, Zenon

(* The kernel's Mutex and the lock sections that use it, on any number of  *)
(* cores: one core inside a mutex at a time and recorded as its owner, no  *)
(* lock() that finds its own core but in the sweep of an orphan's socket,  *)
(* and no two cores that wait for each other but over NET_SOCKETS and the  *)
(* fd tables.                                                              *)
THEOREM MutexSound ==
    LockSpec => []LockInv
<1>1. LockSpec => []LockIInv
  BY LockInitIInv, LockNextIInv, PTL DEF LockSpec
<1> QED BY <1>1, LockIInvInv, PTL
=============================================================================
