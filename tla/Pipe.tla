-------------------------------- MODULE Pipe --------------------------------
(***************************************************************************)
(* Pipes and FIFOs (kernel/src/vfs/pipe.rs, kernel/src/fs/ramfs.rs): the   *)
(* byte buffer, the lists of blocked readers and writers, the reader and   *)
(* writer counts, and the blocking loops of read_at and write_at.          *)
(*                                                                         *)
(* smp = FALSE is the default build: a syscall runs with interrupts masked *)
(* and closing an end drops it under the fd table's lock, so each turn of  *)
(* a loop and each close is one step.  smp = TRUE is the smp feature: two  *)
(* cores meet between lock sections and between the atomics.  The initial  *)
(* state chooses the build.                                                *)
(*                                                                         *)
(* A definition named after the one that follows it (WakeIfLastZero before *)
(* WakeIfLast) is a mutant, wrong on purpose; nothing uses it.             *)
(*                                                                         *)
(* Fifo = FALSE is a pipe: its two inodes live as long as some fd refers   *)
(* to them.  Fifo = TRUE is a FIFO of ramfs: every call makes an inode for *)
(* itself and drops it when it returns.                                    *)
(***************************************************************************)
EXTENDS Naturals, Sequences, FiniteSets

CONSTANTS
    Readers, Writers,   \* tasks, each with one end open at the start
    Capacity,           \* Pipe::capacity (4096 in the code)
    UsizeMod,           \* 2^32: the counts are AtomicUsize
    MaxBytes,           \* how many bytes are written in all
    Builds,             \* values of smp
    Fifo

ASSUME PipeConstants ==
    /\ Readers \cap Writers = {}
    /\ Capacity \in Nat \ {0}
    /\ UsizeMod \in Nat /\ UsizeMod > 2
    /\ MaxBytes \in Nat
    /\ Builds \subseteq BOOLEAN /\ Fifo \in BOOLEAN

Task == Readers \cup Writers
Side(t) == IF t \in Readers THEN "r" ELSE "w"
Other(side) == IF side = "r" THEN "w" ELSE "r"
NoTask == "none"

VARIABLES
    smp,        \* the build; never changes
    pipe,       \* buffer; list: the blocked lists; count: reader_count and
                \* writer_count; asleep: the tasks that are Blocked
    owner,      \* who holds buffer.lock across steps (smp), or NoTask
    pc,         \* where a task is in its call
    open,       \* tasks whose fd is open
    result,     \* how a task's last call ended
    sent, got   \* how many bytes were written and read

vars == <<smp, pipe, owner, pc, open, result, sent, got>>
-----------------------------------------------------------------------------
(* unblock_task on everyone on a list, then clear it.                      *)
Wake(p, side) ==
    [p EXCEPT !.asleep = @ \ p.list[side], !.list[side] = {}]

(* Drop of a PipeReadInode or PipeWriteInode, in its two halves.           *)
Decrement(p, side) ==
    [p EXCEPT !.count[side] = (@ + UsizeMod - 1) % UsizeMod]

WakeIfLastZero(p, side, before) ==
    IF before = 0 THEN Wake(p, Other(side)) ELSE p

WakeIfLast(p, side, before) ==
    IF before = 1 THEN Wake(p, Other(side)) ELSE p

DropEnd(p, side) ==
    WakeIfLast(Decrement(p, side), side, p.count[side])

Enlist(p, t) == [p EXCEPT !.list[Side(t)] = @ \cup {t}]
Block(p, t) == [p EXCEPT !.asleep = @ \cup {t}]

(* A call returns: the FIFO's temporary inode goes with it.                *)
Return(t, p, res) ==
    /\ pipe' = IF Fifo THEN DropEnd(p, Side(t)) ELSE p
    /\ pc' = [pc EXCEPT ![t] = "idle"]
    /\ result' = [result EXCEPT ![t] = res]

Room(p) == Capacity - Len(p.buffer)

Drain(b, n) == SubSeq(b, n + 1, Len(b))

AtEofEmpty(p) == p.buffer = << >>
AtEof(p) == p.buffer = << >> /\ p.count["w"] = 0

Runs(t, at) == t \notin pipe.asleep /\ pc[t] = at
Locks(t, at) == Runs(t, at) /\ owner = NoTask
-----------------------------------------------------------------------------
Call(t) ==
    /\ Runs(t, "idle") /\ t \in open
    /\ pc' = [pc EXCEPT ![t] = "head"]
    /\ UNCHANGED <<pipe, owner, open, result, sent, got>>

(* read_at with data in the buffer: any number of bytes up to all of it.   *)
ReadData(t) ==
    /\ Locks(t, "head") /\ t \in Readers
    /\ \E n \in 1 .. Len(pipe.buffer) :
          /\ got' = got + n
          /\ Return(t, Wake([pipe EXCEPT !.buffer = Drain(@, n)], "w"), "ok")
    /\ UNCHANGED <<owner, open, sent>>

ReadEof(t) ==
    /\ Locks(t, "head") /\ t \in Readers
    /\ AtEof(pipe)
    /\ Return(t, pipe, "eof")
    /\ UNCHANGED <<owner, open, sent, got>>

(* Nothing to do now: enqueue and block with buffer.lock held, yield, and  *)
(* start over when woken.                                                  *)
Sleep(t) ==
    /\ IF smp
       THEN /\ owner' = t
            /\ pc' = [pc EXCEPT ![t] = "enlist"]
            /\ UNCHANGED pipe
       ELSE /\ pipe' = Block(Enlist(pipe, t), t)
            /\ pc' = [pc EXCEPT ![t] = "head"]
            /\ UNCHANGED owner
    /\ UNCHANGED <<open, result, sent, got>>

ReadEmpty(t) ==
    /\ Locks(t, "head") /\ t \in Readers
    /\ pipe.buffer = << >> /\ pipe.count["w"] # 0
    /\ Sleep(t)

SleepEnlist(t) ==
    /\ Runs(t, "enlist")
    /\ pipe' = Enlist(pipe, t)
    /\ pc' = [pc EXCEPT ![t] = "block"]
    /\ UNCHANGED <<owner, open, result, sent, got>>

SleepBlock(t) ==
    /\ Runs(t, "block")
    /\ pipe' = Block(pipe, t)
    /\ owner' = NoTask
    /\ pc' = [pc EXCEPT ![t] = "head"]
    /\ UNCHANGED <<open, result, sent, got>>

(* write_at loads reader_count before it takes buffer.lock.                *)
WriteBroken(t) ==
    /\ Runs(t, "head") /\ t \in Writers
    /\ pipe.count["r"] = 0
    /\ Return(t, pipe, "broken")
    /\ UNCHANGED <<owner, open, sent, got>>

WriteCheck(t) ==
    /\ smp
    /\ Runs(t, "head") /\ t \in Writers
    /\ pipe.count["r"] # 0
    /\ pc' = [pc EXCEPT ![t] = "lock"]
    /\ UNCHANGED <<pipe, owner, open, result, sent, got>>

WriteLocks(t) ==
    /\ t \in Writers
    /\ IF smp THEN Locks(t, "lock")
       ELSE Locks(t, "head") /\ pipe.count["r"] # 0

WriteData(t) ==
    /\ WriteLocks(t)
    /\ \E n \in 1 .. Room(pipe) :
          /\ sent + n <= MaxBytes
          /\ sent' = sent + n
          /\ Return(t, Wake([pipe EXCEPT
                               !.buffer = @ \o [i \in 1 .. n |-> sent + i]],
                            "r"), "ok")
    /\ UNCHANGED <<owner, open, got>>

WriteFull(t) ==
    /\ WriteLocks(t)
    /\ Room(pipe) <= 0
    /\ Sleep(t)

(* The fd is closed.  The last one of its side drops the pipe's inode.     *)
LastOf(t) == \A u \in open : Side(u) = Side(t) => u = t
Drops(t) == ~Fifo /\ LastOf(t)

Close(t) ==
    /\ Runs(t, "idle") /\ t \in open
    /\ open' = open \ {t}
    /\ IF Drops(t)
       THEN IF smp THEN /\ pipe' = Decrement(pipe, Side(t))
                        /\ pc' = [pc EXCEPT ![t] = "drop"]
            ELSE pipe' = DropEnd(pipe, Side(t)) /\ UNCHANGED pc
       ELSE UNCHANGED <<pipe, pc>>
    /\ UNCHANGED <<owner, result, sent, got>>

(* The second half of Drop, on the other core.                             *)
CloseWakes(t) ==
    /\ Runs(t, "drop")
    /\ pipe' = Wake(pipe, Other(Side(t)))
    /\ pc' = [pc EXCEPT ![t] = "idle"]
    /\ UNCHANGED <<owner, open, result, sent, got>>

(* sys_kill's unblock_task: the sleeper stays on its list.                 *)
Kill(t) ==
    /\ t \in pipe.asleep
    /\ pipe' = [pipe EXCEPT !.asleep = @ \ {t}]
    /\ UNCHANGED <<owner, pc, open, result, sent, got>>
-----------------------------------------------------------------------------
Init ==
    /\ smp \in Builds
    /\ pipe = [buffer |-> << >>, asleep |-> {},
               list |-> [r |-> {}, w |-> {}], count |-> [r |-> 1, w |-> 1]]
    /\ owner = NoTask
    /\ pc = [t \in Task |-> "idle"]
    /\ open = Task
    /\ result = [t \in Task |-> "none"]
    /\ sent = 0 /\ got = 0

(* The steps a call takes once it has begun.                               *)
CallStep(t) ==
    /\ \/ ReadData(t) \/ ReadEof(t) \/ ReadEmpty(t)
       \/ WriteBroken(t) \/ WriteCheck(t) \/ WriteData(t) \/ WriteFull(t)
       \/ SleepEnlist(t) \/ SleepBlock(t) \/ CloseWakes(t)
    /\ UNCHANGED smp

Next ==
    \E t \in Task :
        \/ CallStep(t)
        \/ (Call(t) \/ Close(t) \/ Kill(t)) /\ UNCHANGED smp

Spec == Init /\ [][Next]_vars

(* A task that is not Blocked is eventually dispatched (NotStarved of      *)
(* Scheduler), and finishes a step it can take.                            *)
FairSpec == Spec /\ \A t \in Task : WF_vars(CallStep(t))
-----------------------------------------------------------------------------
Sides == {"r", "w"}
PipeRec ==
    [buffer : Seq(1 .. MaxBytes), asleep : SUBSET Task,
     list : [Sides -> SUBSET Task], count : [Sides -> 0 .. UsizeMod - 1]]

(* Type invariant; the buffer never exceeds its capacity.                  *)
TypeOK ==
    /\ smp \in BOOLEAN
    /\ pipe \in PipeRec
    /\ Len(pipe.buffer) <= Capacity
    /\ owner \in Task \cup {NoTask}
    /\ pc \in [Task -> {"idle", "head", "lock", "enlist", "block", "drop"}]
    /\ open \subseteq Task
    /\ result \in [Task -> {"none", "ok", "eof", "broken"}]
    /\ sent \in 0 .. MaxBytes /\ got \in 0 .. sent

(* On one core no wakeup is lost: a Blocked task is on the list its waker  *)
(* walks, and what it waits for has not happened.  This is what the        *)
(* comment in read_at claims for enqueue and block under the buffer lock.  *)
(* With two cores it does not hold: see the README.                        *)
NoLostWakeup ==
    ~smp => \A t \in pipe.asleep :
        /\ t \in pipe.list[Side(t)]
        /\ IF t \in Readers THEN pipe.buffer = << >>
           ELSE Len(pipe.buffer) = Capacity
        /\ pipe.count[Other(Side(t))] # 0

(* Bytes come out in the order they went in, none lost, none twice.        *)
InOrder ==
    /\ got + Len(pipe.buffer) = sent
    /\ \A i \in 1 .. Len(pipe.buffer) : pipe.buffer[i] = got + i

(* Once the other side has closed, on one core, a call in progress comes   *)
(* back, with what was left in the buffer, end of file or a broken pipe.   *)
CallReturns ==
    \A t \in Task :
        (~smp /\ pc[t] # "idle" /\ \A u \in open : Side(u) = Side(t))
            ~> (pc[t] = "idle")

Chan == INSTANCE Channel
        WITH queue <- pipe.buffer,
             busy <- {t \in Task : pc[t] \notin {"idle", "drop"}}

(* A pipe is a Channel: the blocking loops, the lists and the counts       *)
(* implement the bounded queue, and never report end of file or a broken   *)
(* pipe to somebody whose peer still has its end open.                     *)
IsChannel == Chan!Spec
=============================================================================
