------------------------------- MODULE EspFs -------------------------------
(***************************************************************************)
(* The log-structured filesystem on NOR flash                              *)
(* (kernel/src/fs/espfs/mod.rs, wire.rs, kernel/src/drivers/flash.rs).     *)
(*                                                                         *)
(* The flash is a row of cells: one for each of the two superblocks, then  *)
(* two halves of HalfSize cells.  A record is a header cell, which holds   *)
(* what its CRC was computed over, and its payload: one cell for the       *)
(* fields and, in a Write record, one for each byte.  Programming flash    *)
(* that is not erased gives the AND of the two, so a cell written twice    *)
(* with different values is Junk unless one of them is zero.               *)
(*                                                                         *)
(* The lock of EspFsInner is held over a whole call, so no call sees the   *)
(* memory of another half way.  Power does: a call is the sequence of its  *)
(* flash operations (todo), each with the memory it leaves, and between    *)
(* and inside them the machine can stop (Crash) or the driver can report   *)
(* an error (FlashFails), which ends the call with `?`.                    *)
(*                                                                         *)
(* A definition named after the one that follows it is a mutant, wrong on  *)
(* purpose; nothing uses it.                                               *)
(***************************************************************************)
EXTENDS Integers, SequencesExt

CONSTANTS
    HalfSize,       \* cells in a half
    Sectors,        \* sectors in a half; each is erased by itself
    Chunk,          \* COMPACT_CHUNK
    Names,          \* directory entries, in the order of the BTreeMap
    Datas,          \* what a call of write may carry
    MaxSize,        \* u32::MAX: no file is larger
    MaxIno,         \* bound on inode numbers
    MaxCalls,       \* bound on calls
    TearAppends     \* a stop can leave part of an appended record

ASSUME EspFsConstants ==
    /\ HalfSize \in Nat /\ Sectors \in Nat \ {0} /\ HalfSize % Sectors = 0
    /\ Chunk \in Nat \ {0} /\ MaxSize \in Nat /\ MaxIno \in Nat
    /\ MaxCalls \in Nat /\ TearAppends \in BOOLEAN
    /\ Names \subseteq Nat /\ \A d \in Datas : d # <<>>

VARIABLES
    flash,      \* address -> cell
    mem,        \* FsState, or Unmounted
    todo,       \* the flash operations left of the call in progress
    calls,      \* calls made
    disk        \* history: the tree that a mount of flash would find

vars == <<flash, mem, todo, calls, disk>>

Root == 1
Unmounted == [active |-> 2]

---------------------------------------------------------------------------
(* Cells and flash operations.                                             *)

Erased == [t |-> "erased"]
Junk == [t |-> "junk"]
Byte(v) == [t |-> "byte", v |-> v]
Zero == Byte(0)

SuperOff(s) == s
HalfOff(h) == 2 + h * HalfSize
HalfEnd(h) == HalfOff(h) + HalfSize
Addresses == 0 .. HalfEnd(1) - 1

AndCell(old, new) ==
    CASE old = Erased -> new
      [] old = new -> old
      [] Zero \in {old, new} -> Zero
      [] OTHER -> Junk

EraseStep(at, n, m) == [op |-> "erase", at |-> at, len |-> n, mem |-> m]
WriteStep(at, cs, m) == [op |-> "write", at |-> at, cells |-> cs, mem |-> m]

Program(f, at, cs) ==
    [a \in DOMAIN f |-> IF a \in at .. at + Len(cs) - 1
                        THEN AndCell(f[a], cs[a - at + 1]) ELSE f[a]]

Fill(f, at, n, c) ==
    [a \in DOMAIN f |-> IF a \in at .. at + n - 1 THEN c ELSE f[a]]

Done(f, s) ==
    IF s.op = "erase" THEN Fill(f, s.at, s.len, Erased)
    ELSE Program(f, s.at, s.cells)

(* What an operation that did not finish can leave.                        *)
Torn(f, s) ==
    {f} \cup
    IF s.op = "erase" THEN {Fill(f, s.at, s.len, Junk)}
    ELSE {Program(f, s.at, SubSeq(s.cells, 1, k) \o last) :
            k \in 0 .. Len(s.cells) - 1, last \in {<<>>, <<Junk>>}}

---------------------------------------------------------------------------
(* The tree in memory.                                                     *)

NewDir == [kind |-> "dir", entries |-> <<>>]
NewFile == [kind |-> "file", size |-> 0, extents |-> <<>>]

IsDir(m, i) == i \in DOMAIN m.nodes /\ m.nodes[i].kind = "dir"
IsFile(m, i) == i \in DOMAIN m.nodes /\ m.nodes[i].kind = "file"

EmptyState(active, generation, slot) ==
    [nodes |-> (Root :> NewDir), next_ino |-> 2, active |-> active,
     cursor |-> HalfOff(active), next_seq |-> 1,
     generation |-> generation, super_slot |-> slot]

ApplyMk(m, kind, ino, parent, name) ==
    LET added == (ino :> IF kind = "dir" THEN NewDir ELSE NewFile) @@ m.nodes
    IN  [m EXCEPT
          !.nodes = IF parent \in DOMAIN added /\ added[parent].kind = "dir"
                    THEN [added EXCEPT ![parent].entries = (name :> ino) @@ @]
                    ELSE added,
          !.next_ino = IF ino >= @ THEN ino + 1 ELSE @]

(* What is left of extent e when off .. new_end - 1 is written anew.       *)
Pieces(e, off, new_end) ==
    LET ee == e.off + e.len
        left == [off |-> e.off, len |-> off - e.off, flash |-> e.flash]
        right == [off |-> new_end, len |-> ee - new_end,
                  flash |-> e.flash + (new_end - e.off)]
    IN  IF ee <= off \/ e.off >= new_end THEN <<e>>
        ELSE (IF e.off < off THEN <<left>> ELSE <<>>)
             \o (IF ee > new_end THEN <<right>> ELSE <<>>)

SpliceExtent(f, off, len, at) ==
    LET kept == FlattenSeq([k \in DOMAIN f.extents |->
                    Pieces(f.extents[k], off, off + len)])
        new == [off |-> off, len |-> len, flash |-> at]
    IN  IF len = 0 THEN f
        ELSE [f EXCEPT
                !.extents = SortSeq(Append(kept, new),
                                    LAMBDA a, b : a.off < b.off),
                !.size = IF off + len > @ THEN off + len ELSE @]

ApplyWriteExtent(m, ino, off, len, at) ==
    IF IsFile(m, ino)
    THEN [m EXCEPT !.nodes[ino] = SpliceExtent(@, off, len, at)]
    ELSE m

CutExtent(e, len) ==
    [e EXCEPT !.len = IF e.off + e.len <= len THEN @ ELSE len - e.off]

ApplyTrunc(m, ino, len) ==
    LET kept == SelectSeq(m.nodes[ino].extents, LAMBDA e : e.off < len)
    IN  IF IsFile(m, ino)
        THEN [m EXCEPT
                !.nodes[ino].extents =
                    [k \in DOMAIN kept |-> CutExtent(kept[k], len)],
                !.nodes[ino].size = len]
        ELSE m

ApplyUnlink(m, parent, name) ==
    IF IsDir(m, parent) /\ name \in DOMAIN m.nodes[parent].entries
    THEN LET entries == m.nodes[parent].entries
             cut == [m.nodes EXCEPT ![parent].entries =
                        [n \in DOMAIN entries \ {name} |-> entries[n]]]
         IN  [m EXCEPT !.nodes =
                [i \in DOMAIN cut \ {entries[name]} |-> cut[i]]]
    ELSE m

(* A later extent overwrites what an earlier one put in the buffer.        *)
ReadByte(f, file, o) ==
    LET over == SelectLastInSeq(file.extents,
                    LAMBDA e : e.off <= o /\ o < e.off + e.len)
    IN  IF over = 0 THEN Zero
        ELSE f[file.extents[over].flash + (o - file.extents[over].off)]

ReadFile(f, file, off, n) == [k \in 1 .. n |-> ReadByte(f, file, off + k - 1)]

---------------------------------------------------------------------------
(* Records and superblocks.                                                *)

EncMk(kind, ino, parent, name) ==
    <<[t |-> "mk", kind |-> kind, ino |-> ino, parent |-> parent,
       name |-> name]>>
EncWrite(ino, off, bytes) ==
    <<[t |-> "write", ino |-> ino, off |-> off]>> \o bytes
EncTrunc(ino, len) == <<[t |-> "truncate", ino |-> ino, len |-> len]>>
EncUnlink(parent, name) ==
    <<[t |-> "unlink", parent |-> parent, name |-> name]>>

Record(seq, payload) ==
    <<[t |-> "header", seq |-> seq, crc |-> payload]>> \o payload

RecordLen(payload) == 1 + Len(payload)

(* The effect of the record at address `at` on the tree, the same when it  *)
(* is appended and when it is replayed.                                    *)
Apply(m, at, payload) ==
    LET p == payload[1]
    IN  CASE p.t = "mk" -> ApplyMk(m, p.kind, p.ino, p.parent, p.name)
          [] p.t = "write" -> ApplyWriteExtent(m, p.ino, p.off,
                                               Len(payload) - 1, at + 2)
          [] p.t = "truncate" -> ApplyTrunc(m, p.ino, p.len)
          [] p.t = "unlink" -> ApplyUnlink(m, p.parent, p.name)

Super(generation, half) ==
    <<[t |-> "super", generation |-> generation, active |-> half]>>

SuperStepsEarly(m, slot, generation, half, after) ==
    <<EraseStep(SuperOff(slot), 1, after),
      WriteStep(SuperOff(slot), Super(generation, half), after)>>

SuperSteps(m, slot, generation, half, after) ==
    <<EraseStep(SuperOff(slot), 1, m),
      WriteStep(SuperOff(slot), Super(generation, half), after)>>

---------------------------------------------------------------------------
(* Mounting: the newer superblock names the half to replay.                *)

ValidRecord(f, at, end) ==
    /\ at < end
    /\ f[at].t = "header"
    /\ at + RecordLen(f[at].crc) <= end
    /\ \A k \in DOMAIN f[at].crc : f[at + k] = f[at].crc[k]

Replay(empty, f) ==
    LET end == HalfEnd(empty.active)
        from[at \in empty.cursor .. end] ==
            IF ValidRecord(f, at, end)
            THEN <<at>> \o from[at + RecordLen(f[at].crc)] ELSE <<>>
        step(m, at) ==
            [Apply(m, at, f[at].crc) EXCEPT
                !.next_seq = IF f[at].seq >= @ THEN f[at].seq + 1 ELSE @,
                !.cursor = at + RecordLen(f[at].crc)]
    IN  FoldLeft(step, empty, from[empty.cursor])

Formatted(f) == \E s \in 0 .. 1 : f[SuperOff(s)].t = "super"

ChosenSlot(f) ==
    LET a == f[SuperOff(0)]  b == f[SuperOff(1)]
    IN  IF b.t = "super" /\ (a.t = "super" => b.generation > a.generation)
        THEN 1 ELSE 0

Load(f) ==
    LET slot == ChosenSlot(f)  sb == f[SuperOff(slot)]
    IN  Replay(EmptyState(sb.active, sb.generation, slot), f)

EraseHalf(h, m) ==
    LET n == HalfSize \div Sectors
    IN  [k \in 1 .. Sectors |-> EraseStep(HalfOff(h) + (k - 1) * n, n, m)]

Format ==
    <<EraseStep(SuperOff(0), 1, Unmounted), EraseStep(SuperOff(1), 1, Unmounted)>>
    \o EraseHalf(0, Unmounted)
    \o <<WriteStep(SuperOff(0), Super(1, 0), EmptyState(0, 1, 0))>>

---------------------------------------------------------------------------
(* Compaction: the live tree is written to the other half, directories     *)
(* before what is in them, and a superblock then names that half.          *)

Child(m, dir, name) ==
    LET i == m.nodes[dir].entries[name]
    IN  [ino |-> i, parent |-> dir, name |-> name, kind |-> m.nodes[i].kind]

BuildPlan(m) ==
    LET visit[n \in 0 .. Cardinality(DOMAIN m.nodes)] ==
            IF n = 0 THEN [stack |-> <<Root>>, plan |-> <<>>]
            ELSE LET s == visit[n - 1]
                     dir == Last(s.stack)
                     names == SetToSortSeq(DOMAIN m.nodes[dir].entries, <)
                     found == [k \in DOMAIN names |-> Child(m, dir, names[k])]
                     dirs == SelectSeq(found, LAMBDA c : c.kind = "dir")
                 IN  IF s.stack = <<>> THEN s
                     ELSE [stack |-> Front(s.stack)
                                     \o [k \in DOMAIN dirs |-> dirs[k].ino],
                           plan |-> s.plan \o found]
    IN  visit[Cardinality(DOMAIN m.nodes)].plan

ChunkAt(bytes, off) ==
    SubSeq(bytes, off + 1, IF Chunk < Len(bytes) - off THEN off + Chunk
                           ELSE Len(bytes))

AllZero(bytes) == \A k \in DOMAIN bytes : bytes[k] = Zero

(* Where the chunks start that are not all zero.                           *)
ChunkOffs(bytes) ==
    SetToSortSeq({o \in 0 .. Len(bytes) - 1 :
                    o % Chunk = 0 /\ ~AllZero(ChunkAt(bytes, o))}, <)

FileRecordsNoTrunc(ino, bytes) ==
    LET offs == ChunkOffs(bytes)
    IN  [k \in DOMAIN offs |-> EncWrite(ino, offs[k], ChunkAt(bytes, offs[k]))]

(* The payloads that recreate a file: those chunks, and its size when the  *)
(* last of them ends before it.                                            *)
FileRecords(ino, bytes) ==
    LET offs == ChunkOffs(bytes)
        end == IF offs = <<>> THEN 0
               ELSE Last(offs) + Len(ChunkAt(bytes, Last(offs)))
    IN  [k \in DOMAIN offs |-> EncWrite(ino, offs[k], ChunkAt(bytes, offs[k]))]
        \o IF end < Len(bytes) THEN <<EncTrunc(ino, Len(bytes))>> ELSE <<>>

PlanRecords(m, f) ==
    LET bytes(i) == ReadFile(f, m.nodes[i], 0, m.nodes[i].size)
        of(c) == <<EncMk(c.kind, c.ino, c.parent, c.name)>>
                 \o IF c.kind = "file" THEN FileRecords(c.ino, bytes(c.ino))
                    ELSE <<>>
        all(plan) == FlattenSeq([k \in DOMAIN plan |-> of(plan[k])])
    IN  all(BuildPlan(m))

(* The address after the first k of the payloads recs, written from `at`.  *)
After(at, recs, k) ==
    FoldLeft(LAMBDA a, r : a + RecordLen(r), at, SubSeq(recs, 1, k))

(* The state after the commit: the new half and the new extents.           *)
Compacted(m, dst, recs) ==
    LET at(k) == After(HalfOff(dst), recs, k - 1)
        extent(k) == [off |-> recs[k][1].off, len |-> Len(recs[k]) - 1,
                      flash |-> at(k) + 2]
        new(i) == LET ks == SetToSortSeq({k \in DOMAIN recs :
                            recs[k][1].t = "write" /\ recs[k][1].ino = i}, <)
                  IN  [k \in DOMAIN ks |-> extent(ks[k])]
    IN  [m EXCEPT
          !.active = dst,
          !.cursor = After(HalfOff(dst), recs, Len(recs)),
          !.next_seq = Len(recs),
          !.generation = @ + 1,
          !.super_slot = 1 - @,
          !.nodes = [i \in DOMAIN @ |->
                        IF @[i].kind = "dir" THEN @[i]
                        ELSE [@[i] EXCEPT !.extents = new(i)]]]

(* The records recs are written to the other half, as many as fit.  Only   *)
(* when all do, the commit follows.                                        *)
CopyTo(dst, m, recs) ==
    LET fit == CHOOSE k \in 0 .. Len(recs) :
                /\ After(HalfOff(dst), recs, k) <= HalfEnd(dst)
                /\ k < Len(recs) =>
                    After(HalfOff(dst), recs, k + 1) > HalfEnd(dst)
    IN  EraseHalf(dst, m)
        \o [k \in 1 .. fit |-> WriteStep(After(HalfOff(dst), recs, k - 1),
                                         Record(k - 1, recs[k]), m)]
        \o IF fit = Len(recs)
           THEN SuperSteps(m, 1 - m.super_slot, m.generation + 1, dst,
                           Compacted(m, dst, recs))
           ELSE <<>>

Compact(m, f) == CopyTo(1 - m.active, m, PlanRecords(m, f))

Fits(m, payload) == m.cursor + RecordLen(payload) <= HalfEnd(m.active)

AppendRecord(m, payload) ==
    IF Fits(m, payload)
    THEN <<WriteStep(m.cursor, Record(m.next_seq, payload),
                     Apply([m EXCEPT !.cursor = @ + RecordLen(payload),
                                     !.next_seq = @ + 1],
                           m.cursor, payload))>>
    ELSE <<>>

(* The flash operations of a call that logs payload.                       *)
AppendSteps(m, f, payload) ==
    LET then(first) == first \o AppendRecord(Last(first).mem, payload)
    IN  IF Fits(m, payload) THEN AppendRecord(m, payload)
        ELSE then(Compact(m, f))

(* The tree with the bytes of its files.                                   *)
Tree(m, f) ==
    [i \in DOMAIN m.nodes |->
        IF m.nodes[i].kind = "dir" THEN m.nodes[i]
        ELSE [kind |-> "file",
              bytes |-> ReadFile(f, m.nodes[i], 0, m.nodes[i].size)]]

OnDisk(f) == Tree(IF Formatted(f) THEN Load(f) ELSE EmptyState(0, 1, 0), f)

SetFlash(f) == flash' = f /\ disk' = OnDisk(f)

---------------------------------------------------------------------------
Init ==
    /\ flash = [a \in Addresses |-> Erased]
    /\ mem = Unmounted
    /\ todo = <<>>
    /\ calls = 0
    /\ disk = OnDisk(flash)

Idle == todo = <<>> /\ mem # Unmounted

Call(payload) ==
    /\ Idle
    /\ calls < MaxCalls
    /\ todo' = AppendSteps(mem, flash, payload)
    /\ calls' = calls + 1
    /\ UNCHANGED <<flash, mem, disk>>

CallCreate ==
    /\ Idle
    /\ mem.next_ino <= MaxIno
    /\ \E p \in 1 .. MaxIno, n \in Names, kind \in {"dir", "file"} :
        /\ IsDir(mem, p)
        /\ n \notin DOMAIN mem.nodes[p].entries
        /\ Call(EncMk(kind, mem.next_ino, p, n))

CallWriteFile ==
    /\ Idle
    /\ \E i \in 1 .. MaxIno, off \in 0 .. MaxSize, d \in Datas :
        /\ IsFile(mem, i)
        /\ off + Len(d) <= MaxSize
        /\ Call(EncWrite(i, off, [k \in DOMAIN d |-> Byte(d[k])]))

CallTruncateFile ==
    /\ Idle
    /\ \E i \in 1 .. MaxIno, len \in 0 .. MaxSize :
        IsFile(mem, i) /\ Call(EncTrunc(i, len))

CallUnlink ==
    /\ Idle
    /\ \E p \in 1 .. MaxIno, n \in Names :
        /\ IsDir(mem, p)
        /\ n \in DOMAIN mem.nodes[p].entries
        /\ LET i == mem.nodes[p].entries[n]
           IN  IsDir(mem, i) => mem.nodes[i].entries = <<>>
        /\ Call(EncUnlink(p, n))

Mount ==
    /\ mem = Unmounted
    /\ todo = <<>>
    /\ IF Formatted(flash) THEN mem' = Load(flash) /\ todo' = <<>>
       ELSE mem' = mem /\ todo' = Format
    /\ UNCHANGED <<flash, calls, disk>>

FlashStep ==
    /\ todo # <<>>
    /\ SetFlash(Done(flash, Head(todo)))
    /\ mem' = Head(todo).mem
    /\ todo' = Tail(todo)
    /\ UNCHANGED calls

(* Flash after the next operation was cut short.  Without TearAppends a    *)
(* record appended to the active half is written whole or not at all.      *)
CutShort ==
    IF todo = <<>> \/ (~TearAppends /\ mem # Unmounted
                        /\ Head(todo).op = "write"
                        /\ Head(todo).at >= HalfOff(mem.active)
                        /\ Head(todo).at < HalfEnd(mem.active))
    THEN {flash} ELSE Torn(flash, Head(todo))

FlashFails ==
    /\ todo # <<>>
    /\ \E f \in CutShort : SetFlash(f)
    /\ todo' = <<>>
    /\ UNCHANGED <<mem, calls>>

Crash ==
    /\ mem # Unmounted \/ todo # <<>>
    /\ \E f \in CutShort : SetFlash(f)
    /\ mem' = Unmounted
    /\ todo' = <<>>
    /\ UNCHANGED calls

Next ==
    \/ CallCreate
    \/ CallWriteFile
    \/ CallTruncateFile
    \/ CallUnlink
    \/ Mount
    \/ FlashStep
    \/ FlashFails
    \/ Crash

Spec == Init /\ [][Next]_vars

---------------------------------------------------------------------------
(* The cursor is in the active half, every extent lies within the part of  *)
(* it that is written, and the flash operations of a call are addressed to *)
(* the flash.                                                              *)
TypeOK ==
    /\ DOMAIN flash = Addresses
    /\ calls \in 0 .. MaxCalls
    /\ \A k \in DOMAIN todo :
        todo[k].at + (IF todo[k].op = "erase" THEN todo[k].len
                      ELSE Len(todo[k].cells)) <= HalfEnd(1)
    /\ mem # Unmounted =>
        /\ mem.cursor \in HalfOff(mem.active) .. HalfEnd(mem.active)
        /\ \A i \in DOMAIN mem.nodes : mem.nodes[i].kind = "file" =>
            \A k \in DOMAIN mem.nodes[i].extents :
                LET e == mem.nodes[i].extents[k]
                IN  /\ e.flash > HalfOff(mem.active)
                    /\ e.flash + e.len <= mem.cursor
                    /\ e.off + e.len <= mem.nodes[i].size

(* Between calls the memory of a mounted filesystem, which is what every   *)
(* read is answered from, is what the next mount will load: the same tree  *)
(* with the same bytes, the same half, superblock and end of log.  So a    *)
(* write that returned survives a restart, and a call that failed half way *)
(* (no space, a flash error, a compaction that did not commit) left        *)
(* nothing behind.                                                         *)
MountedIsDurable ==
    Idle =>
        LET l == Load(flash)
        IN  /\ Formatted(flash)
            /\ Tree(mem, flash) = disk
            /\ mem.active = l.active /\ mem.cursor = l.cursor
            /\ mem.generation = l.generation
            /\ mem.super_slot = l.super_slot

(* The index in memory stays within the written log (append, compact) and, *)
(* between calls, is what a mount would load.                              *)
EspFsInv == TypeOK /\ MountedIsDurable

(* Whatever stops or fails and whenever, what is on the flash is a tree    *)
(* that the completed calls made, each of them entirely: compaction,       *)
(* restarts and failed operations do not show.                             *)
Store == INSTANCE FileStore WITH
    tree <- disk, Inodes <- 1 .. MaxIno, Bytes <- {Byte(0), Byte(1)}
StoreSpec == Store!Spec
=============================================================================
