------------------------------- MODULE Loader -------------------------------
(* Program loading: load_elf and write_argv (kernel/src/fs/elf.rs) over the *)
(* slot pool of mm/psram_exec.rs, for several tasks that load at once.      *)
(* kernel/build.rs links every program for slot 0 and appends the table of  *)
(* the words that hold an address; the loader moves the image to the slot   *)
(* it gets.  Code is stored over the data bus and fetched over the          *)
(* instruction bus, each through a cache of its own.                        *)
(* An address is a byte address; a word is kept in the cell of its first    *)
(* byte and the other three cells hold TAIL.                                *)
EXTENDS Integers, Sequences, FiniteSets, FiniteSetsExt, SequencesExt
CONSTANTS Loaders,         \* the tasks that start programs
          ImageFiles,      \* what they may find on disk: [img, file] of Built or Damaged
          ArgLists,        \* the argument lists, sequences of byte strings
          SLOT_SIZE, SLOT_COUNT, USER_IBUS_BASE, DATA_BASE, IBUS_MIN, LINK_DATA,
          WORD,            \* 2^32, scaled down with the addresses
          MAX_LOADS        \* bound on the loads of a behaviour
VARIABLES jobs,            \* each task's load_elf, or the program it started
          slotsUsed,       \* SLOTS_USED
          seen,            \* the reserved PSRAM as the data bus shows it
          psram,           \* the text slots in the chip, behind the data cache
          icache,          \* the text slots in the instruction cache; <<>>: not cached
          loads
loadVars == <<jobs, slotsUsed, seen, psram, icache, loads>>

TAIL == -1
SlotIds == 0..(SLOT_COUNT - 1)
TEXT_REGION_SIZE == SLOT_SIZE * SLOT_COUNT
Cells == DATA_BASE..(DATA_BASE + 2 * TEXT_REGION_SIZE - 1)

-----------------------------------------------------------------------------
\* What build.rs makes of a program.  Of an image the linker knows, for each
\* word, whether it is a number or refers to a place in the text or the data.
Num(v) == [to |-> "none", off |-> v]
Ref(region, o) == [to |-> region, off |-> o]
LinkBase(region) == IF region = "text" THEN USER_IBUS_BASE ELSE LINK_DATA
LinkedWord(w) == IF w.to = "none" THEN w.off ELSE LinkBase(w.to) + w.off
LinkedWords(ws) == [i \in DOMAIN ws |-> LinkedWord(ws[i])]

\* The program headers: the text in one or two PT_LOADs, the data with its
\* .bss, and one header that is not loaded.
Phdr(load, vaddr, ws, bss) == [load |-> load, vaddr |-> vaddr, words |-> LinkedWords(ws), memsz |-> 4 * (Len(ws) + bss)]
Phdrs(img) ==
    <<Phdr(TRUE, LINK_DATA, img.data, img.bss), Phdr(FALSE, 0, <<>>, 0),
      Phdr(TRUE, USER_IBUS_BASE + 4 * img.cut, SubSeq(img.text, img.cut + 1, Len(img.text)), 0),
      Phdr(TRUE, USER_IBUS_BASE, SubSeq(img.text, 1, img.cut), 0)>>

Bit(b) == IF b THEN 1 ELSE 0
RefsOf(ws, inData) == {4 * (i - 1) + 2 * Bit(inData) + Bit(ws[i].to = "data") : i \in {k \in DOMAIN ws : ws[k].to # "none"}}
extract_fixups(img) == SetToSortSeq(RefsOf(img.text, FALSE) \cup RefsOf(img.data, TRUE), <)
with_fixup_trailer(phs, fixups) ==
    [elf |-> TRUE, entry |-> USER_IBUS_BASE, phs |-> phs, tail |-> FlattenSeq([i \in DOMAIN phs |-> phs[i].words]) \o fixups,
     count |-> Len(fixups), magic |-> TRUE, short |-> 0]
\* short: the header whose bytes the file cannot deliver in full, 0 if none.
Built(img) == [img |-> img, file |-> with_fixup_trailer(Phdrs(img), extract_fixups(img))]
Intact(f) == f = Built(f.img)

-----------------------------------------------------------------------------
\* The slots (psram_exec.rs).
slot_text_exec(i) == USER_IBUS_BASE + i * SLOT_SIZE
ibus_to_data(a) == DATA_BASE + (a - USER_IBUS_BASE)
slot_text_write(i) == ibus_to_data(slot_text_exec(i))
slot_data(i) == DATA_BASE + TEXT_REGION_SIZE + i * SLOT_SIZE
is_ibus_range(a) == a >= IBUS_MIN
Free == SlotIds \ slotsUsed
slot_free(i) == slotsUsed' = slotsUsed \ {i}

\* What load_inner reads before it asks for a slot.
Loadable(phs) == {k \in DOMAIN phs : phs[k].load /\ phs[k].memsz > 0}
OnBus(phs, ibus) == {k \in Loadable(phs) : is_ibus_range(phs[k].vaddr) = ibus}
measure(phs, ks, none) ==
    LET base == Min({phs[k].vaddr : k \in ks})
    IN  IF ks = {} THEN [base |-> none, size |-> 0]
        ELSE [base |-> base, size |-> Max({phs[k].vaddr + phs[k].memsz : k \in ks}) - base]
TextRegion(phs) == measure(phs, OnBus(phs, TRUE), 0)
DataRegion(phs) == measure(phs, OnBus(phs, FALSE), LINK_DATA)
read_fixups(f) == SubSeq(f.tail, Len(f.tail) - f.count + 1, Len(f.tail))

HeaderError(f) ==
    IF ~f.elf \/ Len(f.phs) = 0 \/ OnBus(f.phs, TRUE) = {} THEN "Corrupt"
    ELSE IF TextRegion(f.phs).size > SLOT_SIZE \/ DataRegion(f.phs).size > SLOT_SIZE THEN "NoSpace"
    ELSE IF ~f.magic \/ f.count > Len(f.tail) THEN "Corrupt"
    ELSE IF Free = {} THEN "Busy"
    ELSE "none"

-----------------------------------------------------------------------------
Idle(err) == [at |-> "idle", err |-> err]
Gives(t, j) == jobs' = [jobs EXCEPT ![t] = j]
Fails(t, err) == Gives(t, Idle(err)) /\ slot_free(jobs[t].slot)

\* load_elf: the headers and the trailer are read, then slot_alloc takes the
\* lowest free slot in one compare_exchange.
LoadInner(t, f) ==
    /\ jobs[t].at = "idle" /\ loads < MAX_LOADS
    /\ loads' = loads + 1
    /\ IF HeaderError(f.file) # "none" THEN Gives(t, Idle(HeaderError(f.file))) /\ UNCHANGED slotsUsed
       ELSE /\ Gives(t, [at |-> "place", f |-> f, slot |-> Min(Free),
                         todo |-> SetToSortSeq(Loadable(f.file.phs), <)])
            /\ slotsUsed' = slotsUsed \cup {Min(Free)}
    /\ UNCHANGED <<seen, psram, icache>>

\* place, one PT_LOAD: the memory is zeroed, then filled from the file; a
\* short read ends the load.
Dest(ph, phs, slot) ==
    IF is_ibus_range(ph.vaddr) THEN slot_text_write(slot) + (ph.vaddr - TextRegion(phs).base)
    ELSE slot_data(slot) + (ph.vaddr - DataRegion(phs).base)
SegmentIn(m, dest, ph, n) ==
    [a \in Cells |-> IF a \notin dest..(dest + ph.memsz - 1) THEN m[a]
                     ELSE IF (a - dest) % 4 # 0 THEN TAIL
                     ELSE IF (a - dest) \div 4 < n THEN ph.words[(a - dest) \div 4 + 1] ELSE 0]
Place(t) ==
    LET j == jobs[t]
        k == Head(j.todo)
        ph == j.f.file.phs[k]
        cut == j.f.file.short = k
        n == IF cut THEN Len(ph.words) - 1 ELSE Len(ph.words)
    IN  /\ j.at = "place" /\ j.todo # <<>>
        /\ seen' = SegmentIn(seen, Dest(ph, j.f.file.phs, j.slot), ph, n)
        /\ IF cut THEN Fails(t, "Corrupt")
           ELSE Gives(t, [j EXCEPT !.todo = Tail(@)]) /\ UNCHANGED slotsUsed
        /\ UNCHANGED <<psram, icache, loads>>

\* apply_fixups: f & !3 is where, bit 1 in which image, bit 0 by which bias;
\* the first one outside its image ends the load, with those before it done.
text_bias(phs, slot) == (slot_text_exec(slot) - TextRegion(phs).base) % WORD
data_bias(phs, slot) == (slot_data(slot) - DataRegion(phs).base) % WORD
FixOff(f) == f - (f % 4)
FixInData(f) == (f \div 2) % 2 = 1
FixBias(f, phs, slot) ==
    IF f % 2 = 1 THEN data_bias(phs, slot) ELSE text_bias(phs, slot)
FixCell(f, slot) == FixOff(f) + (IF FixInData(f) THEN slot_data(slot) ELSE slot_text_write(slot))
FixInside(f, phs) == FixOff(f) + 4 <= Min({SLOT_SIZE, (IF FixInData(f) THEN DataRegion(phs) ELSE TextRegion(phs)).size})
Fixed(m, fs, phs, slot) ==
    [a \in Cells |-> IF \A i \in DOMAIN fs : FixCell(fs[i], slot) # a THEN m[a]
                     ELSE (m[a] + FoldLeft(LAMBDA x, f : x + (IF FixCell(f, slot) = a THEN FixBias(f, phs, slot) ELSE 0), 0, fs)) % WORD]
GoodPrefix(fs, phs) ==
    SubSeq(fs, 1, Min({i \in DOMAIN fs : ~FixInside(fs[i], phs)} \cup {Len(fs) + 1}) - 1)
ApplyFixups(t) ==
    LET j == jobs[t]
        fs == read_fixups(j.f.file)
        ok == GoodPrefix(fs, j.f.file.phs)
    IN  /\ j.at = "place" /\ j.todo = <<>>
        /\ seen' = Fixed(seen, ok, j.f.file.phs, j.slot)
        /\ IF ok # fs THEN Fails(t, "Fault") ELSE Gives(t, [j EXCEPT !.at = "writeback"]) /\ UNCHANGED slotsUsed
        /\ UNCHANGED <<psram, icache, loads>>

\* sync_caches, its two calls.
WriteBack(t, from, to) ==
    /\ jobs[t].at = from
    /\ psram' = [i \in SlotIds |-> [o \in 0..(SLOT_SIZE - 1) |-> seen[slot_text_write(i) + o]]]
    /\ Gives(t, [jobs[t] EXCEPT !.at = to])
    /\ UNCHANGED <<slotsUsed, seen, icache, loads>>
Invalidate(t, from, to) ==
    /\ jobs[t].at = from
    /\ icache' = [i \in SlotIds |-> <<>>]
    /\ Gives(t, [jobs[t] EXCEPT !.at = to])
    /\ UNCHANGED <<slotsUsed, seen, psram, loads>>
SyncCachesSwapped(t) == Invalidate(t, "writeback", "invalidate") \/ WriteBack(t, "invalidate", "argv")
SyncCaches(t) == WriteBack(t, "writeback", "invalidate") \/ Invalidate(t, "invalidate", "argv")

\* LoadedElf.entry.
EntryIn(f, slot) == (f.entry + text_bias(f.phs, slot)) % WORD

\* write_argv: the blob at the top of the data slot.  When it does not fit
\* the caller frees the slot.
PtrsLen(args) == 4 + (Len(args) + 1) * 4
Strs(args) == FlattenSeq([i \in DOMAIN args |-> args[i] \o <<0>>])
BlobLen(args) == ((PtrsLen(args) + Len(Strs(args)) + 3) \div 4) * 4
StrAt(args, k) == PtrsLen(args) + Len(Strs(SubSeq(args, 1, k - 1)))
BlobWord(args, base, k) == IF k = 0 THEN Len(args) ELSE IF k <= Len(args) THEN base + StrAt(args, k) ELSE 0
Blob(m, args, base) ==
    [a \in Cells |->
        LET o == a - base
        IN  IF o \in 0..(PtrsLen(args) - 1) THEN (IF o % 4 = 0 THEN BlobWord(args, base, o \div 4) ELSE TAIL)
            ELSE IF o - PtrsLen(args) + 1 \in DOMAIN Strs(args) THEN Strs(args)[o - PtrsLen(args) + 1]
            ELSE m[a]]
WriteArgv(t, args) ==
    LET j == jobs[t]
        off == SLOT_SIZE - BlobLen(args)
        base == slot_data(j.slot) + off
    IN  /\ j.at = "argv"
        /\ IF off < 0 \/ off < DataRegion(j.f.file.phs).size THEN Fails(t, "NoSpace") /\ UNCHANGED seen
           ELSE /\ seen' = Blob(seen, args, base)
                /\ Gives(t, [at |-> "runs", f |-> j.f, slot |-> j.slot, args |-> args, blob |-> base,
                            entry |-> EntryIn(j.f.file, j.slot)])
                /\ UNCHANGED slotsUsed
        /\ UNCHANGED <<psram, icache, loads>>

\* The program ends and its slot is given back.
Exits(t) ==
    /\ jobs[t].at = "runs" /\ Fails(t, "none")
    /\ UNCHANGED <<seen, psram, icache, loads>>

\* The caches, at any time: a dirty line is evicted; the instruction cache
\* takes in a line, or gives one up.
Evict(i) ==
    /\ psram' = [psram EXCEPT ![i] = [o \in 0..(SLOT_SIZE - 1) |-> seen[slot_text_write(i) + o]]]
    /\ UNCHANGED <<jobs, slotsUsed, seen, icache, loads>>
Fetch(i) ==
    /\ icache' = [icache EXCEPT ![i] = IF @ = <<>> THEN psram[i] ELSE <<>>]
    /\ UNCHANGED <<jobs, slotsUsed, seen, psram, loads>>

LoaderInit ==
    /\ jobs = [t \in Loaders |-> Idle("none")] /\ slotsUsed = {} /\ loads = 0
    /\ seen = [a \in Cells |-> 7]
    /\ psram = [i \in SlotIds |-> [o \in 0..(SLOT_SIZE - 1) |-> 7]]
    /\ icache = [i \in SlotIds |-> <<>>]
LoaderNext ==
    \/ \E t \in Loaders :
          \/ \E f \in ImageFiles : LoadInner(t, f)
          \/ Place(t) \/ ApplyFixups(t) \/ SyncCaches(t) \/ Exits(t)
          \/ \E args \in ArgLists : WriteArgv(t, args)
    \/ \E i \in SlotIds : Evict(i) \/ Fetch(i)
LoaderSpec == LoaderInit /\ [][LoaderNext]_loadVars

-----------------------------------------------------------------------------
\* Every cell holds a 32-bit word, a byte or the rest of a word, whatever is
\* added to it: the biases wrap (apply_fixups' wrapping_add).
LoaderTypeOK ==
    /\ slotsUsed \subseteq SlotIds /\ loads \in 0..MAX_LOADS
    /\ \A a \in Cells : seen[a] \in TAIL..(WORD - 1)
    /\ \A t \in Loaders : jobs[t].at \in {"idle", "place", "writeback", "invalidate", "argv", "runs"}

\* The linker's word, with the image at slot i.
MovedWord(w, i) ==
    IF w.to = "none" THEN w.off ELSE (IF w.to = "text" THEN slot_text_exec(i) ELSE slot_data(i)) + w.off
RunsIntact(t) == jobs[t].at = "runs" /\ Intact(jobs[t].f)
FetchedAt(i, o) == IF icache[i] = <<>> THEN psram[i][o] ELSE icache[i][o]

\* A program is entered at its first word, and what it fetches is its own
\* code with every literal moved to its slot, whichever task loads, whatever either cache does and however
\* stale it was (sync_caches' order, elf.rs:243-247).
FetchesItsImage ==
    \A t \in Loaders : RunsIntact(t) =>
        LET j == jobs[t]
        IN  /\ j.entry = slot_text_exec(j.slot)
            /\ \A k \in DOMAIN j.f.img.text : FetchedAt(j.slot, 4 * (k - 1)) = MovedWord(j.f.img.text[k], j.slot)

\* The data of a running program is the linked data moved to its slot and a
\* zeroed .bss; no load into another slot touches it, also none that fails
\* or reads a damaged trailer (apply_fixups, elf.rs:292-297).
DataAsLinked ==
    \A t \in Loaders : RunsIntact(t) =>
        LET j == jobs[t]
        IN  /\ \A k \in DOMAIN j.f.img.data : seen[slot_data(j.slot) + 4 * (k - 1)] = MovedWord(j.f.img.data[k], j.slot)
            /\ \A k \in (Len(j.f.img.data) + 1)..(Len(j.f.img.data) + j.f.img.bss) : seen[slot_data(j.slot) + 4 * (k - 1)] = 0

\* A program finds its arguments from the one address it is given: counted,
\* NULL-terminated, each string whole, and all inside its own slot
\* (write_argv).
ArgvReads ==
    \A t \in Loaders : jobs[t].at = "runs" =>
        LET b == jobs[t].blob
            args == jobs[t].args
            ptr(k) == seen[b + 4 * k]
        IN  /\ b % 4 = 0 /\ ptr(0) = Len(args) /\ ptr(Len(args) + 1) = 0
            /\ \A k \in DOMAIN args :
                  /\ ptr(k) >= slot_data(jobs[t].slot)
                  /\ ptr(k) + Len(args[k]) < slot_data(jobs[t].slot) + SLOT_SIZE
                  /\ \A i \in DOMAIN args[k] : seen[ptr(k) + i - 1] = args[k][i]
                  /\ seen[ptr(k) + Len(args[k])] = 0

\* A slot is in use exactly while one task loads into it or one program runs
\* in it: every failure of place or write_argv gives it back.
SlotsAccounted ==
    /\ slotsUsed = {jobs[t].slot : t \in {u \in Loaders : jobs[u].at # "idle"}}
    /\ \A t, u \in Loaders : t # u /\ jobs[t].at # "idle" /\ jobs[u].at # "idle" => jobs[t].slot # jobs[u].slot

\* A slot in use holds one program, whole: the code it fetches, its data and
\* its arguments (load_inner, write_argv).
LoadedWhole ==
    /\ LoaderTypeOK /\ SlotsAccounted
    /\ FetchesItsImage /\ DataAsLinked /\ ArgvReads
=============================================================================
