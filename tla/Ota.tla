-------------------------------- MODULE Ota --------------------------------
(***************************************************************************)
(* A/B firmware update (kernel/src/ota/mod.rs and partition.rs, the OTA    *)
(* socket of net_task, `ota` of the kernel shell, sys_ota_state).          *)
(*                                                                         *)
(* An image is a row of pieces, one for each sector of a slot; the first   *)
(* holds the header.  The two otadata copies say which slot boots.  One    *)
(* kernel shell works through `ota apply` or `ota set` one flash operation *)
(* at a time (job); the network task fills the receive buffer meanwhile,   *)
(* a syscall may change the state of the booted entry in one go, and the   *)
(* machine may stop anywhere, in the middle of an operation too.  Reading  *)
(* the otadata is taken to succeed.                                        *)
(*                                                                         *)
(* A definition named after the one that follows it is a mutant, wrong on  *)
(* purpose; nothing uses it.                                               *)
(***************************************************************************)
EXTENDS Naturals, Sequences

CONSTANTS
    SlotSectors, \* sectors of a slot, and MAX_IMAGE
    Versions,   \* the images that are sent
    MaxSeq      \* bound on ota_seq

ASSUME OtaConstants ==
    SlotSectors \in Nat \ {0} /\ Versions \subseteq Nat \ {0} /\ MaxSeq \in Nat

VARIABLES
    slots,      \* the pieces in each slot
    otadata,    \* the two OtaSelectEntry copies
    running,    \* the slot the running kernel was booted from
    rx,         \* RX_IMAGE
    sender,     \* the connection on OTA_PORT: what it sends and how far it is
    job         \* what the shell is doing

otaVars == <<slots, otadata, running, rx, sender, job>>

Slot == {"factory", "ota0"}
OtherSlotFixed(s) == "ota0"
OtherSlot(s) == IF s = "factory" THEN "ota0" ELSE "factory"
Index(s) == IF s = "factory" THEN 0 ELSE 1

Piece == [v : Versions, n : 1 .. SlotSectors + 1]
Blank == [v |-> 0, n |-> 0]     \* erased, or programmed over something else
Whole(v) == [n \in 1 .. SlotSectors |-> [v |-> v, n |-> n]]

NoImage == <<Blank>>
NoSender == [v |-> 0, sent |-> 0]
NoJob == [at |-> "idle", slot |-> "factory", image |-> <<>>, erased |-> 0,
         from |-> "factory", copy |-> 0, seq |-> 0]

---------------------------------------------------------------------------
(* otadata.  An entry that is erased, torn or has a wrong CRC is NoEntry.  *)

(* "invalid" is Invalid and Aborted, which no test tells apart; "valid" is *)
(* Valid, New and Undefined.                                               *)

States == {"pending", "valid", "invalid"}
NoEntry == [seq |-> 0, state |-> "valid"]

IsValid(e) == e.seq # 0 /\ e.state # "invalid"

(* The copy that counts, or 2 when neither does.                           *)
SelectActiveIndex(d) ==
    IF IsValid(d[0]) /\ IsValid(d[1]) THEN (IF d[0].seq > d[1].seq THEN 0 ELSE 1)
    ELSE IF IsValid(d[0]) THEN 0
    ELSE IF IsValid(d[1]) THEN 1
    ELSE 2

SlotFromSeq(seq) == IF (seq - 1) % 2 = 0 THEN "factory" ELSE "ota0"

ActiveSlot(d) ==
    LET i == SelectActiveIndex(d)
    IN  IF i = 2 THEN "factory" ELSE SlotFromSeq(d[i].seq)

NextSeqForIndexAny(max, index) == max + 1

NextSeqForIndex(max, index) ==
    LET first == IF max + 1 < index + 1 THEN index + 1 ELSE max + 1
    IN  IF (first - 1) % 2 = index THEN first ELSE first + 1

CurrentMax(d) ==
    LET i == SelectActiveIndex(d) IN IF i = 2 THEN 0 ELSE d[i].seq

WriteCopyActive(d) == IF SelectActiveIndex(d) = 1 THEN 1 ELSE 0

WriteCopy(d) == IF SelectActiveIndex(d) = 0 THEN 1 ELSE 0

---------------------------------------------------------------------------
(* The network task.                                                       *)

RxBegin ==
    /\ sender = NoSender
    /\ \E v \in Versions : sender' = [v |-> v, sent |-> 0]
    /\ rx' = <<>>
    /\ UNCHANGED <<slots, otadata, running, job>>

(* The next piece is buffered; a buffer `ota apply` took starts anew.      *)
RxPush ==
    LET buffered == IF rx = NoImage THEN <<>> ELSE rx
    IN  /\ sender # NoSender
        /\ sender.sent <= SlotSectors
        /\ sender' = [sender EXCEPT !.sent = @ + 1]
        /\ Len(buffered) < SlotSectors
        /\ rx' = Append(buffered, [v |-> sender.v, n |-> sender.sent + 1])
        /\ UNCHANGED <<slots, otadata, running, job>>

(* More than MAX_IMAGE, or no memory.                                      *)
RxFails ==
    /\ sender # NoSender
    /\ sender.sent <= SlotSectors
    /\ rx' = NoImage
    /\ sender' = NoSender
    /\ UNCHANGED <<slots, otadata, running, job>>

(* The peer has sent all it had, or the connection broke.                  *)
RxClose ==
    /\ sender # NoSender
    /\ sender' = NoSender
    /\ UNCHANGED <<slots, otadata, running, rx, job>>

---------------------------------------------------------------------------
(* The shell.                                                              *)

ValidateHeader(image) == image # <<>> /\ image[1].n = 1

(* apply_buffered takes the buffer, even when it then refuses it.          *)
ApplyImage ==
    /\ job.at = "idle"
    /\ rx # NoImage
    /\ rx' = NoImage
    /\ job' = IF ValidateHeader(rx)
              THEN [NoJob EXCEPT !.at = "erase", !.image = rx,
                                !.slot = OtherSlot(ActiveSlot(otadata))]
              ELSE NoJob
    /\ UNCHANGED <<slots, otadata, running, sender>>

EraseSectorsShort(j) == j.erased + 1 < Len(j.image)

(* while self.next_erase < write_end                                       *)
EraseSectors(j) == j.erased < Len(j.image)

Erase ==
    /\ job.at = "erase"
    /\ EraseSectors(job)
    /\ slots' = [slots EXCEPT ![job.slot][job.erased + 1] = Blank]
    /\ job' = [job EXCEPT !.erased = @ + 1]
    /\ UNCHANGED <<otadata, running, rx, sender>>

(* The first n pieces of image programmed over content.                    *)
Programmed(content, image, n) ==
    [i \in 1 .. SlotSectors |->
        IF i > n THEN content[i]
        ELSE IF content[i] = Blank THEN image[i] ELSE Blank]

Write ==
    /\ job.at = "erase"
    /\ ~EraseSectors(job)
    /\ slots' = [slots EXCEPT
                    ![job.slot] = Programmed(@, job.image, Len(job.image))]
    /\ job' = [job EXCEPT !.at = "mark"]
    /\ UNCHANGED <<otadata, running, rx, sender>>

SetCommand ==
    /\ job.at = "idle"
    /\ \E s \in Slot : job' = [NoJob EXCEPT !.at = "mark", !.slot = s]
    /\ UNCHANGED <<slots, otadata, running, rx, sender>>

(* set_boot_slot: read, then erase and write the copy that does not count. *)
SetBootSlot ==
    LET seq == NextSeqForIndex(CurrentMax(otadata), Index(job.slot))
    IN  /\ job.at = "mark"
        /\ seq <= MaxSeq
        /\ job' = [job EXCEPT !.at = "erase_copy", !.seq = seq,
                              !.copy = WriteCopy(otadata),
                              !.from = ActiveSlot(otadata)]
        /\ UNCHANGED <<slots, otadata, running, rx, sender>>

EraseCopy ==
    /\ job.at = "erase_copy"
    /\ otadata' = [otadata EXCEPT ![job.copy] = NoEntry]
    /\ job' = [job EXCEPT !.at = "write_copy"]
    /\ UNCHANGED <<slots, running, rx, sender>>

WriteEntry ==
    /\ job.at = "write_copy"
    /\ otadata' = [otadata EXCEPT
                    ![job.copy] = [seq |-> job.seq, state |-> "pending"]]
    /\ job' = NoJob
    /\ UNCHANGED <<slots, running, rx, sender>>

(* What a flash operation of the shell that did not finish can leave.      *)
TornSlots ==
    {slots} \cup
    IF job.at # "erase" THEN {}
    ELSE IF EraseSectors(job)
    THEN {[slots EXCEPT ![job.slot][job.erased + 1] = Blank]}
    ELSE {[slots EXCEPT ![job.slot] = Programmed(@, job.image, n)] :
            n \in 1 .. Len(job.image)}

TornData ==
    {otadata} \cup
    IF job.at \in {"erase_copy", "write_copy"}
    THEN {[otadata EXCEPT ![job.copy] = NoEntry]} ELSE {}

UpdateFails ==
    /\ job.at # "idle"
    /\ slots' \in TornSlots
    /\ otadata' \in TornData
    /\ job' = NoJob
    /\ UNCHANGED <<running, rx, sender>>

---------------------------------------------------------------------------
(* The bootloader starts the slot that the otadata names (external).       *)
Boot(d) ==
    /\ otadata' = d
    /\ running' = ActiveSlot(d)
    /\ rx' = NoImage
    /\ sender' = NoSender
    /\ job' = NoJob

(* sys_ota_state(1, state) rewrites the copy that counts, in one trap.     *)
SetState ==
    LET i == SelectActiveIndex(otadata)
    IN  /\ i # 2
        /\ \E s \in States :
            LET d == [otadata EXCEPT ![i] = [seq |-> @.seq, state |-> s]]
            IN  IF s = "invalid" THEN Boot(d) /\ UNCHANGED slots
                ELSE /\ otadata' = d
                     /\ UNCHANGED <<slots, running, rx, sender, job>>

(* Power is lost after set_state has erased the copy.                      *)
SetStateStops ==
    LET i == SelectActiveIndex(otadata)
    IN  /\ i # 2
        /\ Boot([otadata EXCEPT ![i] = NoEntry])
        /\ UNCHANGED slots

Stop ==
    /\ slots' \in TornSlots
    /\ \E d \in TornData : Boot(d)

---------------------------------------------------------------------------
OtaInit ==
    /\ \E v \in Versions : slots = [s \in Slot |->
            IF s = "factory" THEN Whole(v) ELSE [n \in 1 .. SlotSectors |-> Blank]]
    /\ otadata = [i \in 0 .. 1 |-> NoEntry]
    /\ running = "factory"
    /\ rx = NoImage
    /\ sender = NoSender
    /\ job = NoJob

OtaNext ==
    \/ RxBegin
    \/ RxPush
    \/ RxFails
    \/ RxClose
    \/ ApplyImage
    \/ Erase
    \/ Write
    \/ SetCommand
    \/ SetBootSlot
    \/ EraseCopy
    \/ WriteEntry
    \/ UpdateFails
    \/ SetState
    \/ SetStateStops
    \/ Stop

OtaSpec == OtaInit /\ [][OtaNext]_otaVars

---------------------------------------------------------------------------
(* Type invariant; the two copies never hold the same sequence number.     *)
OtaTypeOK ==
    /\ slots \in [Slot -> [1 .. SlotSectors -> Piece \cup {Blank}]]
    /\ otadata \in [0 .. 1 -> [seq : 0 .. MaxSeq, state : States]]
    /\ IsValid(otadata[0]) /\ IsValid(otadata[1]) =>
        otadata[0].seq # otadata[1].seq
    /\ running \in Slot
    /\ rx = NoImage \/ (Len(rx) <= SlotSectors /\ \A i \in DOMAIN rx : rx[i] \in Piece)
    /\ sender \in [v : Versions \cup {0}, sent : 0 .. SlotSectors + 1]
    /\ job.slot \in Slot /\ job.erased \in 0 .. SlotSectors

(* While set_boot_slot replaces a copy, the other one still names the slot *)
(* that would have booted before: a stop in the middle of an update boots  *)
(* what was there, and a completed one boots the slot it was asked for.    *)
BootSlotSafe ==
    job.at \in {"erase_copy", "write_copy"} =>
        /\ ActiveSlot(otadata) = job.from
        /\ ActiveSlot([otadata EXCEPT ![job.copy] = NoEntry]) = job.from
        /\ ActiveSlot([otadata EXCEPT ![job.copy] =
                [seq |-> job.seq, state |-> "pending"]]) = job.slot

(* An update never writes to the slot that the otadata names for booting,  *)
(* whatever arrives, fails or stops meanwhile.                             *)
ActiveImageKept ==
    [][slots'[ActiveSlot(otadata)] = slots[ActiveSlot(otadata)]]_otaVars

(* What apply marks for booting is exactly what had been received: every   *)
(* sector it programmed was erased before.                                 *)
MarkedAsReceived ==
    job.at \in {"mark", "erase_copy", "write_copy"} =>
        \A i \in DOMAIN job.image : slots[job.slot][i] = job.image[i]

(* After a completed update of an image that had otadata, marking it       *)
(* invalid brings back the slot that was booted before.                    *)
RollbackReturns ==
    [][(job.at = "write_copy" /\ otadata'[job.copy].seq = job.seq) =>
         ActiveSlot([otadata' EXCEPT ![job.copy].state = "invalid"])
            = job.from]_otaVars

(* `ota apply` says it writes to the inactive slot: the image of the       *)
(* running kernel, which executes from flash, stays as it is.              *)
RunningImageKept == [][slots'[running] = slots[running]]_otaVars
=============================================================================
