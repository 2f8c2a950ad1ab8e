------------------------------ MODULE Process ------------------------------
(***************************************************************************)
(* The life of a process on the default, single-core build: the process    *)
(* table (kernel/src/scheduler/process.rs), the syscalls that change it    *)
(* (spawn, wait, exit, kill, yield in kernel/src/syscall/handler.rs), the  *)
(* end of a syscall or timer trap (resched, then check_signals), and the   *)
(* kernel tasks that start and collect processes without a trap: the init  *)
(* supervisor (main.rs), the net task and its session shells               *)
(* (drivers/wifi.rs, drivers/ssh/channel.rs, shell/commands/mod.rs).       *)
(*                                                                         *)
(* A trap runs with interrupts masked, so a syscall is one step up to the  *)
(* signals its epilogue still has to deliver.  A kernel task calls the     *)
(* same functions directly with interrupts on: each of its steps is one    *)
(* lock section, and the timer may switch away between two of them.        *)
(* The two lock sections of spawn_inner are one step here; Scheduler has   *)
(* them apart, and the first only takes a number nobody else can name.     *)
(*                                                                         *)
(* A definition named after the one that follows it (UnslotForgets before  *)
(* Unslot) is a mutant, wrong on purpose; nothing uses it.                 *)
(*                                                                         *)
(* User processes install no signal handler.                               *)
(***************************************************************************)
EXTENDS ProcTable, FiniteSetsExt

CONSTANTS
    QUANTUM_TICKS,
    MaxSessions     \* how many sessions the net task starts

ASSUME ProcessConstants == QUANTUM_TICKS \in Nat \ {0} /\ MaxSessions \in Nat

VARIABLES
    sched,          \* the Scheduler struct
    need_resched,
    ptab,           \* PROCESS_TABLE: table, by_tid, next_pid
    slots_used,     \* SLOTS_USED of mm/psram_exec.rs
    fd_tables,      \* the pids that have an entry in PROCESS_FD_TABLES
    frame,          \* what each task is doing: role, program counter, locals
    mode,           \* "task", or "signals" while a trap still owes them
    sessions        \* sessions started so far

vars == <<sched, need_resched, ptab, slots_used, fd_tables, frame, mode,
          sessions>>

(* Every spawn of the kernel asks for the same priority; idle has 0.       *)
S == INSTANCE Scheduler
     WITH NCores <- 1, AnyCore <- 1, booted <- {0}, spawning <- {},
          priority <- [t \in Tid |-> IF t = 0 THEN 0 ELSE 10],
          affinity <- [t \in Tid |-> 1]
-----------------------------------------------------------------------------
FreeSlots == Slot \ slots_used

ExitSched(s, P, t) ==
    S!MarkZombie(IF ParentTask(P, t) = 0 THEN s
                 ELSE S!UnblockTask(s, ParentTask(P, t)), 0)
-----------------------------------------------------------------------------
cur == sched.current[0]
curpid == PidOfTid(ptab, cur)

(* A frame whose PC is in user text, the only kind check_signals touches.  *)
UserText(f, t) == f[t].role = "user" /\ f[t].pc \in {"user", "wait"}

SignalDue(s, P, f) ==
    LET t == s.current[0] IN
    /\ UserText(f, t)
    /\ PidOfTid(P, t) \in DOMAIN P.table
    /\ P.table[PidOfTid(P, t)].pending # {}

ModeAfter(s, P, f) == IF SignalDue(s, P, f) THEN "signals" ELSE "task"

(* The epilogue of a trap whose handler left s, P and f, and asked for a   *)
(* resched if nr.                                                          *)
EndTrap(s, P, f, nr) ==
    LET s1 == IF nr \/ need_resched[0] THEN S!PreemptSwitch(s, 0) ELSE s IN
    /\ sched' = s1
    /\ need_resched' = [c \in {0} |-> FALSE]
    /\ ptab' = P
    /\ frame' = f
    /\ mode' = ModeAfter(s1, P, f)

(* Task t runs: it is current, no trap is in progress.                     *)
Runs(t) == mode = "task" /\ cur = t

At(t, pc) == Runs(t) /\ frame[t].pc = pc
Goto(t, pc) == frame' = [frame EXCEPT ![t].pc = pc]

Traps(t) == Runs(t) /\ sched.tasks[t] = "Running"
-----------------------------------------------------------------------------
(* load_elf opens the image through the caller's fd table, then takes the  *)
(* lowest free slot.                                                       *)
CanLoad == curpid \in fd_tables /\ FreeSlots # {}

(* Syscalls.  A user task may issue any of them; it issues wait again when *)
(* it blocked in it, because the trap left its PC on the instruction.      *)

InUser(t) == Traps(t) /\ frame[t].role = "user" /\ frame[t].pc = "user"

SysYield(t) ==
    /\ InUser(t)
    /\ EndTrap(sched, ptab, frame, TRUE)
    /\ UNCHANGED <<slots_used, fd_tables, sessions>>

SysExit(t) ==
    /\ InUser(t)
    /\ EndTrap(ExitSched(sched, ptab, t), ExitTable(ptab, t), frame, TRUE)
    /\ UNCHANGED <<slots_used, fd_tables, sessions>>

(* sys_spawn when load_elf, write_argv and spawn_blocked succeed; when one *)
(* fails the slot is given back in the same trap and nothing has changed.  *)
SysSpawn(t) ==
    LET new == sched.next_tid
        slot == Min(FreeSlots)
        P == RegisterProcess(ptab, "program", new, t, slot)
        s == S!UnblockTask(S!InsertTask([sched EXCEPT !.next_tid = @ + 1],
                                        new, TRUE), new)
    IN /\ InUser(t)
       /\ CanLoad
       /\ new + 1 <= TidMax
       /\ slots_used' = slots_used \cup {slot}
       /\ fd_tables' = CloneFdTable(fd_tables, curpid, ptab.next_pid)
       /\ EndTrap(s, P, [frame EXCEPT ![new] = StartAs("user", "trampoline")],
                  FALSE)
       /\ UNCHANGED sessions

(* sys_wait, from a user task or from a kernel task's wait_all.            *)
WaitReaps(t, child, then) ==
    /\ child \in ZombieChildren(ptab, curpid)
    /\ slots_used' = FreeSlot(slots_used, SlotOf(ptab, child))
    /\ fd_tables' = fd_tables \ {child}
    /\ EndTrap(sched, RemoveProcess(ptab, child),
               [frame EXCEPT ![t].pc = then], FALSE)
    /\ UNCHANGED <<sessions>>

WaitReturns(t, then) ==
    /\ EndTrap(sched, ptab, [frame EXCEPT ![t].pc = then], FALSE)
    /\ UNCHANGED <<slots_used, fd_tables, sessions>>

WaitBlocks(t) ==
    /\ EndTrap(S!BlockCurrent(sched, 0), ptab,
               [frame EXCEPT ![t].pc = "wait"], TRUE)
    /\ UNCHANGED <<slots_used, fd_tables, sessions>>

SysWait(t, nohang, then) ==
    \/ \E child \in Pid : WaitReaps(t, child, then)
    \/ /\ ZombieChildren(ptab, curpid) = {}
       /\ IF nohang \/ Children(ptab, curpid) = {}
          THEN WaitReturns(t, then)
          ELSE WaitBlocks(t)

UserWait(t) ==
    /\ Traps(t) /\ frame[t].role = "user"
    /\ \/ frame[t].pc = "user" /\ \E nohang \in BOOLEAN :
                                      SysWait(t, nohang, "user")
       \/ frame[t].pc = "wait" /\ SysWait(t, FALSE, "user")

SysKill(t, pid, sig) ==
    /\ InUser(t)
    /\ pid \in DOMAIN ptab.table
    /\ EndTrap(S!UnblockTask(sched, ptab.table[pid].task),
               [ptab EXCEPT !.table[pid].pending = @ \cup {sig}], frame, TRUE)
    /\ UNCHANGED <<slots_used, fd_tables, sessions>>

(* check_signals, with interrupts still masked.  9, 2 and 15 end the       *)
(* process through scheduler::exit, whose Exit trap nests in this one and  *)
(* may find another process with a signal; any other signal is dropped.    *)
CheckSignals ==
    LET sig == Min(ptab.table[curpid].pending)
        P == [ptab EXCEPT !.table[curpid].pending = @ \ {sig}]
    IN /\ mode = "signals"
       /\ IF sig \in {2, 9, 15}
          THEN EndTrap(ExitSched(S!MarkZombie(sched, 0), P, cur),
                       ExitTable(P, cur), frame, TRUE)
          ELSE /\ ptab' = P
               /\ mode' = "task"
               /\ UNCHANGED <<sched, need_resched, frame>>
       /\ UNCHANGED <<slots_used, fd_tables, sessions>>

(* The timer interrupt, while no trap is in progress.                      *)
Timer ==
    LET s == S!TickDown(sched) IN
    /\ mode = "task"
    /\ EndTrap(s, ptab, frame, s.slice_remaining = 0)
    /\ UNCHANGED <<slots_used, fd_tables, sessions>>

(* task_trampoline reaches the program's entry point.                      *)
EnterUser(t) ==
    /\ At(t, "trampoline")
    /\ Goto(t, "user")
    /\ UNCHANGED <<sched, need_resched, ptab, slots_used, fd_tables, mode,
                   sessions>>
-----------------------------------------------------------------------------
(* Kernel tasks.  tid 1 is the init supervisor (pid 1), tid 2 the net task *)
(* (no pid); the net task starts session shells, and a shell and the       *)
(* supervisor start programs and wait for them.                            *)

Role(t) == frame[t].role
Local == <<sched, need_resched, mode>>

(* take_zombie_child(1), of the supervisor's drain loop.                   *)
Drain(t) ==
    /\ At(t, "drain")
    /\ \/ \E child \in ZombieChildren(ptab, 1) :
             /\ ptab' = RemoveProcess(ptab, child)
             /\ frame' = [frame EXCEPT ![t].pc = "drain_free",
                                      ![t].pid = child,
                                      ![t].slot = SlotOf(ptab, child)]
       \/ /\ ZombieChildren(ptab, 1) = {}
          /\ Goto(t, "sweep")
          /\ UNCHANGED ptab
    /\ UNCHANGED <<Local, slots_used, fd_tables, sessions>>

(* reap_orphans: the pids to reap are collected under the lock, then each  *)
(* is removed (again under it), its slot and its fd table given back.      *)
Sweep(t) ==
    /\ At(t, "sweep")
    /\ frame' = [frame EXCEPT ![t].pc = "reap", ![t].dead = Orphans(ptab)]
    /\ UNCHANGED <<Local, ptab, slots_used, fd_tables, sessions>>

Reap(t) ==
    LET pid == Min(frame[t].dead) IN
    /\ At(t, "reap")
    /\ IF frame[t].dead = {}
       THEN /\ Goto(t, IF Role(t) = "sup" THEN "load" ELSE "yield")
            /\ UNCHANGED ptab
       ELSE /\ ptab' = RemoveProcess(ptab, pid)
            /\ frame' = [frame EXCEPT ![t].pc = "reap_free",
                                     ![t].dead = @ \ {pid},
                                     ![t].pid = pid,
                                     ![t].slot = SlotOf(ptab, pid)]
    /\ UNCHANGED <<Local, slots_used, fd_tables, sessions>>

(* slot_free and cleanup_process_fds, after either removal.                *)
GiveBackSlot(t) ==
    /\ At(t, "drain_free") \/ At(t, "reap_free")
    /\ slots_used' = FreeSlot(slots_used, frame[t].slot)
    /\ frame' = [frame EXCEPT ![t].slot = 0,
                   ![t].pc = IF @ = "drain_free" THEN "drain_fds"
                             ELSE "reap_fds"]
    /\ UNCHANGED <<Local, ptab, fd_tables, sessions>>

CleanupFds(t) ==
    /\ At(t, "drain_fds") \/ At(t, "reap_fds")
    /\ fd_tables' = fd_tables \ {frame[t].pid}
    /\ frame' = [frame EXCEPT ![t].pid = 0,
                   ![t].pc = IF @ = "drain_fds" THEN "drain" ELSE "reap"]
    /\ UNCHANGED <<Local, ptab, slots_used, sessions>>

(* Where run_program returns to.                                           *)
AfterRun(t) == IF Role(t) = "sup" THEN "yield" ELSE "prompt"

(* load_elf: a slot, or an error (no such file, a bad image, no slot).     *)
Load(t) ==
    /\ At(t, "load")
    /\ \/ /\ CanLoad
          /\ slots_used' = slots_used \cup {Min(FreeSlots)}
          /\ frame' = [frame EXCEPT ![t].pc = "spawn",
                                   ![t].slot = Min(FreeSlots)]
       \/ Goto(t, AfterRun(t)) /\ UNCHANGED slots_used
    /\ UNCHANGED <<Local, ptab, fd_tables, sessions>>

(* spawn_blocked.  It, or write_argv before it, may fail.                  *)
Spawn(t) ==
    LET new == sched.next_tid
        child == IF Role(t) = "net" THEN StartAs("shell", "prompt")
                 ELSE StartAs("user", "trampoline")
    IN /\ At(t, "spawn")
       /\ \/ /\ new + 1 <= TidMax
             /\ sched' = S!InsertTask([sched EXCEPT !.next_tid = @ + 1],
                                      new, TRUE)
             /\ frame' = [frame EXCEPT ![new] = child,
                                      ![t].tid = new, ![t].pc = "register"]
          \/ /\ Goto(t, IF Role(t) = "net" THEN "sweep" ELSE "unslot")
             /\ UNCHANGED sched
       /\ UNCHANGED <<need_resched, mode, ptab, slots_used, fd_tables,
                      sessions>>

UnslotForgets(t) ==
    /\ At(t, "unslot")
    /\ frame' = [frame EXCEPT ![t].slot = 0, ![t].pc = AfterRun(t)]
    /\ UNCHANGED <<Local, slots_used, ptab, fd_tables, sessions>>

(* The error paths of spawn_child after load_elf.                          *)
Unslot(t) ==
    /\ At(t, "unslot")
    /\ slots_used' = FreeSlot(slots_used, frame[t].slot)
    /\ frame' = [frame EXCEPT ![t].slot = 0, ![t].pc = AfterRun(t)]
    /\ UNCHANGED <<Local, ptab, fd_tables, sessions>>

ChildName(t) == CASE Role(t) = "sup" -> "init"
                  [] Role(t) = "net" -> "ssh-shell"
                  [] OTHER -> "program"

Register(t) ==
    /\ At(t, "register")
    /\ ptab' = RegisterProcess(ptab, ChildName(t), frame[t].tid, t,
                               frame[t].slot)
    /\ fd_tables' = CloneFdTable(fd_tables, curpid, ptab.next_pid)
    /\ frame' = [frame EXCEPT ![t].pc = "arrange", ![t].slot = 0,
                             ![t].pid = ptab.next_pid]
    /\ UNCHANGED <<Local, slots_used, sessions>>

(* seed_fd_table for a session; dup2_in and close_in for a program.        *)
Arrange(t) ==
    /\ At(t, "arrange")
    /\ fd_tables' = IF Role(t) = "net" THEN fd_tables \cup {frame[t].pid}
                    ELSE fd_tables
    /\ Goto(t, "start")
    /\ UNCHANGED <<Local, ptab, slots_used, sessions>>

StartChild(t) ==
    /\ At(t, "start")
    /\ sched' = S!UnblockTask(sched, frame[t].tid)
    /\ frame' = [frame EXCEPT ![t].pid = 0, ![t].tid = 0,
                   ![t].pc = IF Role(t) = "net" THEN "sweep" ELSE "wait"]
    /\ UNCHANGED <<need_resched, mode, ptab, slots_used, fd_tables, sessions>>

(* wait_all of a single child.                                             *)
KernelWait(t) ==
    /\ Traps(t) /\ frame[t].pc = "wait" /\ Role(t) \in {"sup", "shell"}
    /\ SysWait(t, FALSE, AfterRun(t))

KernelYield(t) ==
    /\ At(t, "yield")
    /\ EndTrap(sched, ptab,
               [frame EXCEPT ![t].pc = CASE Role(t) = "sup" -> "drain"
                                         [] Role(t) = "net" -> "net"
                                         [] OTHER -> "yield"], TRUE)
    /\ UNCHANGED <<slots_used, fd_tables, sessions>>

(* A turn of net_task: perhaps SessionShell::start, then reap_orphans.     *)
NetLoop(t) ==
    /\ At(t, "net")
    /\ \/ /\ sessions < MaxSessions
          /\ sessions' = sessions + 1
          /\ Goto(t, "spawn")
       \/ Goto(t, "sweep") /\ UNCHANGED sessions
    /\ UNCHANGED <<Local, ptab, slots_used, fd_tables>>

(* run_session: run a program, or return to task_trampoline.               *)
Prompt(t) ==
    /\ At(t, "prompt")
    /\ \/ Goto(t, "load")
       \/ Goto(t, "exit_mark")
    /\ UNCHANGED <<Local, ptab, slots_used, fd_tables, sessions>>

(* scheduler::exit, called by task_trampoline with interrupts on.          *)
ExitMark(t) ==
    /\ At(t, "exit_mark")
    /\ sched' = S!MarkZombie(sched, 0)
    /\ Goto(t, "exit_flag")
    /\ UNCHANGED <<need_resched, mode, ptab, slots_used, fd_tables, sessions>>

ExitFlag(t) ==
    /\ At(t, "exit_flag")
    /\ need_resched' = [c \in {0} |-> TRUE]
    /\ Goto(t, "exit_trap")
    /\ UNCHANGED <<sched, mode, ptab, slots_used, fd_tables, sessions>>

ExitTrap(t) ==
    /\ At(t, "exit_trap")
    /\ EndTrap(ExitSched(sched, ptab, t), ExitTable(ptab, t), frame, TRUE)
    /\ UNCHANGED <<slots_used, fd_tables, sessions>>
-----------------------------------------------------------------------------
(* main: the supervisor and the net task exist when the scheduler starts.  *)
BootSched ==
    S!Dispatch(S!InsertTask(S!InsertTask([S!InitSched EXCEPT !.next_tid = 3],
                                         1, FALSE), 2, FALSE), 0)

Init ==
    /\ sched = BootSched
    /\ need_resched = [c \in {0} |-> FALSE]
    /\ ptab = RegisterProcess([table |-> << >>, by_tid |-> << >>,
                               next_pid |-> 1], "init-sup", 1, 0, 0)
    /\ slots_used = {}
    /\ fd_tables = {1}
    /\ frame = [t \in Tid |-> CASE t = 1 -> StartAs("sup", "drain")
                               [] t = 2 -> StartAs("net", "net")
                               [] OTHER -> Idle]
    /\ mode = "task"
    /\ sessions = 0

UserStep(t) ==
    \/ SysYield(t) \/ SysExit(t) \/ SysSpawn(t) \/ UserWait(t)
    \/ \E pid \in Pid, sig \in Sigs : SysKill(t, pid, sig)
    \/ EnterUser(t)

KernelStep(t) ==
    \/ Drain(t) \/ Sweep(t) \/ Reap(t) \/ GiveBackSlot(t) \/ CleanupFds(t)
    \/ Load(t) \/ Spawn(t) \/ Unslot(t) \/ Register(t) \/ Arrange(t)
    \/ StartChild(t) \/ KernelWait(t) \/ KernelYield(t) \/ NetLoop(t)
    \/ Prompt(t) \/ ExitMark(t) \/ ExitFlag(t) \/ ExitTrap(t)

Next ==
    \/ Timer
    \/ CheckSignals
    \/ \E t \in Tid : UserStep(t) \/ KernelStep(t)

Spec == Init /\ [][Next]_vars

(* A step of a task that is on the core again and again happens: a time    *)
(* slice is longer than a lock section.  The timer keeps firing while some *)
(* task waits for the core, and a signal check that is due is carried out. *)
(* Each implication is the SF or WF of its action with what enables the    *)
(* action spelled out.                                                     *)
FairSpec ==
    /\ Spec
    /\ \A t \in {1, 2} : []<>Runs(t) => []<><<KernelStep(t)>>_vars
    /\ <>[](mode = "task" /\ sched.ready # << >>) => []<><<Timer>>_vars
    /\ <>[](mode = "signals") => []<><<CheckSignals>>_vars
-----------------------------------------------------------------------------
(* Properties.                                                             *)

(* Type invariant.                                                         *)
TypeOK ==
    /\ sched \in S!SchedType
    /\ need_resched \in [{0} -> BOOLEAN]
    /\ DOMAIN ptab.table \subseteq Pid
    /\ \A p \in DOMAIN ptab.table : ptab.table[p] \in Process
    /\ DOMAIN ptab.by_tid \subseteq Tid
    /\ ptab.next_pid \in Nat
    /\ slots_used \subseteq Slot
    /\ fd_tables \subseteq Pid
    /\ mode \in {"task", "signals"}
    /\ sessions \in 0 .. MaxSessions

(* The scheduler's invariant survives the handlers that chain several of   *)
(* its operations in one trap (sys_exit, sys_spawn, sys_wait, sys_kill,    *)
(* scheduler::exit from check_signals).                                    *)
SchedulerSound == S!SchedInv(sched, {0})

(* The family tree: remove_process and register_process keep children and  *)
(* parent_pid telling the same story, through adoption by pid 1, and       *)
(* by_tid the inverse of main_task.                                        *)
FamilyTree ==
    LET T == ptab.table IN
    /\ \A p \in DOMAIN T : \A c \in Pid :
          c \in T[p].children <=> (c \in DOMAIN T /\ T[c].parent = p)
    /\ \A p \in DOMAIN T : T[p].parent = 0 \/ T[p].parent \in DOMAIN T
    /\ \A p \in DOMAIN T : PidOfTid(ptab, T[p].task) = p
    /\ \A t \in DOMAIN ptab.by_tid :
          /\ ptab.by_tid[t] \in DOMAIN T
          /\ T[ptab.by_tid[t]].task = t

(* Who holds slot s: a process, or a kernel task between taking the slot   *)
(* and handing it to a process, or between removing one and freeing it.    *)
Holders(s) ==
    {p \in DOMAIN ptab.table : ptab.table[p].slot = s}
    \cup {TidMax + 1 + t : t \in {u \in Tid : frame[u].slot = s}}

(* Every slot in use has one holder and every free slot none: no slot is   *)
(* leaked and no two programs are loaded over each other, whoever reaps    *)
(* and whatever is preempted (load_elf, sys_wait, reap, the drain loop).   *)
SlotsExclusive ==
    \A s \in Slot : Cardinality(Holders(s)) = IF s \in slots_used THEN 1 ELSE 0

(* The process table is well-formed, and so are the scheduler under it and *)
(* the slots, after every handler that changes them together (sys_spawn,   *)
(* sys_exit, sys_wait, sys_kill, reap).                                    *)
ProcessInv == TypeOK /\ SchedulerSound /\ FamilyTree /\ SlotsExclusive

(* A user process and its task end together: the process is Zombie exactly *)
(* when its task is, or has been freed.  So nothing reaps the process of a *)
(* task that still runs (process.rs asks this of every exit path).         *)
UserExitsWhole ==
    \A p \in DOMAIN ptab.table :
        LET proc == ptab.table[p] IN
        proc.slot # 0 =>
            (proc.state = "Zombie"
               <=> \/ ~S!Alive(sched, proc.task)
                   \/ sched.tasks[proc.task] = "Zombie")

(* A user task that can still execute user code has its process, and the   *)
(* process its fd table, so no fd operation falls through to pid 0.        *)
UserHasProcess ==
    \A t \in DOMAIN sched.tasks :
        (UserText(frame, t) /\ sched.tasks[t] # "Zombie")
            => PidOfTid(ptab, t) \in fd_tables

StuckInWait(t) ==
    /\ frame[t].pc = "wait"
    /\ S!Alive(sched, t) /\ sched.tasks[t] = "Blocked"
    /\ \/ ZombieChildren(ptab, PidOfTid(ptab, t)) # {}
       \/ Children(ptab, PidOfTid(ptab, t)) = {}

(* Nobody but pid 1 sleeps in sys_wait with a child to collect or with     *)
(* none left: the exit of the last one wakes it.  Pid 1 is left out: it    *)
(* may adopt a process that has already exited, and nothing wakes it then. *)
WaiterNotStuck == \A t \in Tid \ {1} : ~StuckInWait(t)

(* An exit that has begun is completed: the process of a task that is gone *)
(* is Zombie, the one condition reap_orphans sweeps for.                   *)
ExitReachesProcess ==
    \A p \in DOMAIN ptab.table :
        ptab.table[p].state = "Running" => S!Alive(sched, ptab.table[p].task)

(* A finished session is collected: an exited process without a parent     *)
(* leaves the table (net_task calls reap_orphans on every turn).           *)
OrphanCollected ==
    \A p \in Pid :
        (IsZombie(ptab, p) /\ ptab.table[p].parent = 0)
            ~> (p \notin DOMAIN ptab.table)
=============================================================================
