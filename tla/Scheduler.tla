----------------------------- MODULE Scheduler -----------------------------
(***************************************************************************)
(* The task scheduler of the kernel (kernel/src/scheduler/mod.rs and       *)
(* policy.rs): the task map, the ready queue, the task each core runs, the *)
(* time slice and the per-core NEED_RESCHED flag.                          *)
(*                                                                         *)
(* Everything behind the SCHED lock is one record, `sched`, and each       *)
(* function that takes the lock is an operator from a record to a record,  *)
(* so that the modules composing the scheduler with the process table or   *)
(* with pipes can chain several of them in one handler.                    *)
(*                                                                         *)
(* The definitions whose name extends that of the definition after them    *)
(* (BeatsLast, DispatchStale, RequeueAlways...) are wrong on purpose: the  *)
(* mutants that show each property can fail.  Nothing uses them.           *)
(*                                                                         *)
(* Cores = 0 .. NCores-1.  NCores = 1 is the default build, NCores = 2 the *)
(* `smp` feature.  As in the code, core c's idle task has tid c.           *)
(***************************************************************************)
EXTENDS Naturals, Sequences, FiniteSets

CONSTANTS
    NCores,         \* 1, or 2 with the smp feature
    TidMax,         \* the largest tid (u32::MAX in the code)
    QUANTUM_TICKS,  \* ticks of a time slice
    priority,       \* Task::priority, by tid
    affinity,       \* Task::affinity, by tid: a core, or AnyCore
    AnyCore         \* Option::None as an affinity

Cores == 0 .. NCores - 1
Tid == 0 .. TidMax
IdleTids == Cores
TaskState == {"Ready", "Running", "Blocked", "Zombie"}

ASSUME SchedConstants ==
    /\ NCores \in Nat \ {0}
    /\ TidMax \in Nat /\ NCores <= TidMax
    /\ QUANTUM_TICKS \in Nat \ {0}
    /\ priority \in [Tid -> 0 .. 255]
    /\ affinity \in [Tid -> Cores \cup {AnyCore}]

VARIABLES
    sched,          \* the Scheduler struct
    need_resched,   \* NEED_RESCHED, by core
    booted,         \* cores that have entered run / run_secondary
    spawning        \* tids reserved by a spawn whose task is not inserted yet

vars == <<sched, need_resched, booted, spawning>>

-----------------------------------------------------------------------------
(* Operators of the Scheduler struct.                                      *)

InQueue(q, t) == \E i \in DOMAIN q : q[i] = t

(* Vec::remove(i).                                                         *)
DropAt(q, i) ==
    [j \in 1 .. Len(q) - 1 |-> IF j < i THEN q[j] ELSE q[j + 1]]

(* Vec::retain(|x| x not in S).  The first two cases are instances of the  *)
(* last one; they are what happens while the queue holds a tid once, and   *)
(* they can be reasoned about without induction on the queue.              *)
Retain(q, S) ==
    LET hits == {i \in DOMAIN q : q[i] \in S} IN
    IF hits = {} THEN q
    ELSE IF \A i, j \in hits : i = j THEN DropAt(q, CHOOSE i \in hits : TRUE)
    ELSE SelectSeq(q, LAMBDA t : t \notin S)

Alive(s, t) == t \in DOMAIN s.tasks

(* The positions next_ready considers on core c.                           *)
Eligible(s, c) ==
    {i \in DOMAIN s.ready : /\ Alive(s, s.ready[i])
                            /\ affinity[s.ready[i]] \in {c, AnyCore}}

BeatsLast(s, i, j) ==
    LET pi == priority[s.ready[i]]
        pj == priority[s.ready[j]]
    IN pi > pj \/ (pi = pj /\ i >= j)

(* The position it settles on: a strictly higher priority replaces the     *)
(* candidate, so it is the earliest of the highest.                        *)
Beats(s, i, j) ==
    LET pi == priority[s.ready[i]]
        pj == priority[s.ready[j]]
    IN pi > pj \/ (pi = pj /\ i <= j)

BestIdx(s, c) ==
    CHOOSE i \in Eligible(s, c) : \A j \in Eligible(s, c) : Beats(s, i, j)

(* next_ready(s, c).unwrap_or(idle), with the chosen tid out of the queue. *)
NextReady(s, c) ==
    IF Eligible(s, c) = {}
    THEN [tid |-> c, ready |-> s.ready]
    ELSE [tid |-> s.ready[BestIdx(s, c)],
          ready |-> DropAt(s.ready, BestIdx(s, c))]

DispatchStale(s, c) ==
    LET n == NextReady(s, c) IN
    [s EXCEPT !.tasks[n.tid] = "Running",
              !.ready = n.ready,
              !.slice_remaining = IF c = 0 THEN QUANTUM_TICKS ELSE @]

(* What run, run_secondary and preempt_switch do with the chosen task.     *)
Dispatch(s, c) ==
    LET n == NextReady(s, c) IN
    [s EXCEPT !.tasks[n.tid] = "Running",
              !.ready = n.ready,
              !.current[c] = n.tid,
              !.slice_remaining = IF c = 0 THEN QUANTUM_TICKS ELSE @]

DeadExceptSwapped(s, keep) ==
    {t \in DOMAIN s.tasks : /\ s.tasks[t] = "Zombie"
                            /\ t = keep
                            /\ \A c \in Cores : s.current[c] # t}

DeadExcept(s, keep) ==
    {t \in DOMAIN s.tasks : /\ s.tasks[t] = "Zombie"
                            /\ t # keep
                            /\ \A c \in Cores : s.current[c] # t}

ReapZombiesExcept(s, keep) ==
    LET dead == DeadExcept(s, keep) IN
    [s EXCEPT !.tasks = [t \in DOMAIN s.tasks \ dead |-> s.tasks[t]],
              !.ready = Retain(@, dead)]

RequeueAlways(s, c) ==
    LET cur == s.current[c] IN
    [s EXCEPT !.tasks[cur] = "Ready",
              !.ready = IF cur = c THEN @ ELSE Append(@, cur)]

(* A task that is still Running goes back to the queue; idle does not.     *)
Requeue(s, c) ==
    LET cur == s.current[c] IN
    IF s.tasks[cur] # "Running" THEN s
    ELSE [s EXCEPT !.tasks[cur] = "Ready",
                   !.ready = IF cur = c THEN @ ELSE Append(@, cur)]

PreemptSwitch(s, c) ==
    Dispatch(Requeue(ReapZombiesExcept(s, s.current[c]), c), c)

(* Core c's task stops being runnable: mark_zombie and block_current.      *)
PutAside(s, c, state) ==
    [s EXCEPT !.tasks[s.current[c]] = state,
              !.ready = Retain(@, {s.current[c]})]

MarkZombie(s, c) == PutAside(s, c, "Zombie")

BlockCurrent(s, c) == PutAside(s, c, "Blocked")

UnblockTask(s, t) ==
    IF Alive(s, t) /\ s.tasks[t] = "Blocked"
    THEN [s EXCEPT !.tasks[t] = "Ready", !.ready = Append(@, t)]
    ELSE s

InsertTask(s, t, start_blocked) ==
    [s EXCEPT
        !.tasks = [u \in DOMAIN s.tasks \cup {t} |->
                      IF u = t
                      THEN IF start_blocked THEN "Blocked" ELSE "Ready"
                      ELSE s.tasks[u]],
        !.ready = IF start_blocked THEN @ ELSE Append(@, t)]

TickDown(s) ==
    [s EXCEPT !.slice_remaining = IF @ > 0 THEN @ - 1 ELSE 0]
-----------------------------------------------------------------------------
(* scheduler::init.                                                        *)
InitSched ==
    [tasks |-> [t \in IdleTids |-> "Ready"],
     ready |-> << >>,
     current |-> [c \in Cores |-> c],
     next_tid |-> NCores,
     slice_remaining |-> QUANTUM_TICKS]

Init ==
    /\ sched = InitSched
    /\ need_resched = [c \in Cores |-> FALSE]
    /\ booted = {}
    /\ spawning = {}

(* Core c executes kernel code: main before run(), a task after it.  Once  *)
(* the task has blocked itself it does nothing but switch away.  The idle  *)
(* task only yields.                                                       *)
Booting(c) == c = 0 /\ 0 \notin booted
TaskRuns(c) ==
    /\ c \in booted
    /\ sched.current[c] # c
    /\ sched.tasks[sched.current[c]] = "Running"
Executes(c) ==
    \/ Booting(c)
    \/ TaskRuns(c)
    \/ c \in booted /\ sched.tasks[sched.current[c]] = "Zombie"

(* spawn_inner: the tid is reserved under the lock, the task is allocated  *)
(* with the lock released (and may fail), then inserted under the lock.    *)
SpawnReserve(c) ==
    /\ Booting(c) \/ TaskRuns(c)
    /\ sched.next_tid + 1 <= TidMax     \* checked_add, else TableFull
    /\ sched' = [sched EXCEPT !.next_tid = @ + 1]
    /\ spawning' = spawning \cup {sched.next_tid}
    /\ UNCHANGED <<need_resched, booted>>

SpawnInsert(c, t, start_blocked) ==
    /\ Booting(c) \/ TaskRuns(c)
    /\ t \in spawning
    /\ sched' = InsertTask(sched, t, start_blocked)
    /\ spawning' = spawning \ {t}
    /\ UNCHANGED <<need_resched, booted>>

SpawnFail(c, t) ==
    /\ Booting(c) \/ TaskRuns(c)
    /\ t \in spawning
    /\ spawning' = spawning \ {t}
    /\ UNCHANGED <<sched, need_resched, booted>>

(* run on core 0, run_secondary on the other.                              *)
Run(c) ==
    /\ c \notin booted
    /\ sched' = Dispatch(sched, c)
    /\ booted' = booted \cup {c}
    /\ UNCHANGED <<need_resched, spawning>>

(* The first step of exit; sys_exit repeats it.                            *)
Exit(c) ==
    /\ TaskRuns(c)
    /\ sched' = MarkZombie(sched, c)
    /\ UNCHANGED <<need_resched, booted, spawning>>

(* block_current_noswitch.                                                 *)
BlockCurrentNoswitch(c) ==
    /\ TaskRuns(c)
    /\ sched' = BlockCurrent(sched, c)
    /\ need_resched' = [need_resched EXCEPT ![c] = TRUE]
    /\ UNCHANGED <<booted, spawning>>

Unblock(c, t) ==
    /\ Executes(c)
    /\ Alive(sched, t)
    /\ sched.tasks[t] = "Blocked"
    /\ sched' = UnblockTask(sched, t)
    /\ UNCHANGED <<need_resched, booted, spawning>>

(* set_need_resched, by sys_yield, sys_kill, exit and sys_exit.            *)
SetNeedResched(c) ==
    /\ c \in booted
    /\ ~need_resched[c]
    /\ need_resched' = [need_resched EXCEPT ![c] = TRUE]
    /\ UNCHANGED <<sched, booted, spawning>>

(* The end of the syscall trap: switch if a resched is due.                *)
TrapEpilogue(c) ==
    /\ c \in booted
    /\ need_resched[c]
    /\ sched' = PreemptSwitch(sched, c)
    /\ need_resched' = [need_resched EXCEPT ![c] = FALSE]
    /\ UNCHANGED <<booted, spawning>>

(* The timer interrupt, routed to core 0 only: tick, then the switch in    *)
(* the same interrupt if the slice is over or a resched was due.           *)
TimerInterrupt ==
    LET s == TickDown(sched)
        expired == s.slice_remaining = 0 IN
    /\ 0 \in booted
    /\ IF expired \/ need_resched[0]
       THEN /\ sched' = PreemptSwitch(s, 0)
            /\ need_resched' = [need_resched EXCEPT ![0] = FALSE]
       ELSE /\ sched' = s
            /\ UNCHANGED need_resched
    /\ UNCHANGED <<booted, spawning>>

CoreStep(c) ==
    \/ SpawnReserve(c)
    \/ \E t \in spawning : \/ \E b \in BOOLEAN : SpawnInsert(c, t, b)
                           \/ SpawnFail(c, t)
    \/ Run(c)
    \/ Exit(c)
    \/ BlockCurrentNoswitch(c)
    \/ \E t \in DOMAIN sched.tasks : Unblock(c, t)
    \/ SetNeedResched(c)
    \/ TrapEpilogue(c)

Next == TimerInterrupt \/ \E c \in Cores : CoreStep(c)

Spec == Init /\ [][Next]_vars

(* The boot code reaches run(), and from then on the timer fires for ever  *)
(* and no task keeps interrupts off for ever.                              *)
FairSpec == Spec /\ WF_vars(Run(0) \/ TimerInterrupt)
-----------------------------------------------------------------------------
(* Properties.                                                             *)

(* Type invariant: every field of the Scheduler struct has its type; the   *)
(* task map holds only tids below next_tid, and not those still reserved.  *)
SchedType ==
    [tasks : UNION {[D -> TaskState] : D \in SUBSET Tid},
     ready : Seq(Tid),
     current : [Cores -> Tid],
     next_tid : NCores .. TidMax,
     slice_remaining : 0 .. QUANTUM_TICKS]

TypeOK ==
    /\ sched \in SchedType
    /\ DOMAIN sched.tasks \subseteq 0 .. sched.next_tid - 1
    /\ need_resched \in [Cores -> BOOLEAN]
    /\ booted \subseteq Cores
    /\ spawning \subseteq NCores .. sched.next_tid - 1
    /\ spawning \cap DOMAIN sched.tasks = {}

NoDup(q) == \A i, j \in DOMAIN q : q[i] = q[j] => i = j

QueueSound(s) ==
    /\ NoDup(s.ready)
    /\ \A t \in Tid \ IdleTids :
          InQueue(s.ready, t) <=> (Alive(s, t) /\ s.tasks[t] = "Ready")
    /\ \A t \in IdleTids : ~InQueue(s.ready, t)

(* The ready queue holds exactly the Ready tasks that are not idle, each   *)
(* once: a Ready task missing from it would never run again, and one that  *)
(* is there twice, or is Blocked or Zombie, would be dispatched when it    *)
(* must not be (push and retain in preempt_switch, unblock_task,           *)
(* mark_zombie, block_current_noswitch and next_ready together).           *)
ReadyQueueSound == QueueSound(sched)

CurSound(s, on) ==
    /\ IdleTids \subseteq DOMAIN s.tasks
    /\ \A c \in Cores : Alive(s, s.current[c])
    /\ \A t \in DOMAIN s.tasks :
          s.tasks[t] = "Running" => \E c \in on : s.current[c] = t

(* A core's current task is in the task map, so the unwrap() of run and    *)
(* preempt_switch cannot panic and nobody runs on a freed stack; and a     *)
(* task marked Running is the current task of some booted core.            *)
CurrentSound == CurSound(sched, booted)

(* The strengthening the two above need: an idle task is never blocked,    *)
(* ends or changes core, and a core that has not booted is on its own.     *)
IdleSound(s, on) ==
    \A c \in Cores :
        /\ s.tasks[c] \in {"Ready", "Running"}
        /\ s.current[c] \in IdleTids => s.current[c] = c
        /\ c \notin on => s.current[c] = c /\ s.tasks[c] = "Ready"

SchedInv(s, on) == QueueSound(s) /\ CurSound(s, on) /\ IdleSound(s, on)

(* The inductive invariant of the scheduler.                               *)
Inv == TypeOK /\ SchedInv(sched, booted)

ZombieStep(t) ==
    /\ sched.tasks[t] = "Zombie" /\ t \in DOMAIN sched'.tasks
          => sched'.tasks[t] = "Zombie"
    /\ t \notin DOMAIN sched'.tasks
          => /\ sched.tasks[t] = "Zombie"
             /\ \A c \in Cores : sched'.current[c] # t

(* exit never returns: a Zombie task stays one until its stack is freed,   *)
(* and it is freed by reap_zombies_except only while no core is on it.     *)
ZombieIsFinal == [][\A t \in DOMAIN sched.tasks : ZombieStep(t)]_vars

(* Round robin: while all tasks have one priority, as every spawn of the   *)
(* kernel gives them, a task in the ready queue is eventually dispatched.  *)
NotStarved ==
    \A t \in Tid \ IdleTids : InQueue(sched.ready, t) ~> ~InQueue(sched.ready, t)

(* The stack of a task that exited is eventually freed.                    *)
ZombieFreed ==
    \A t \in Tid \ IdleTids :
        (Alive(sched, t) /\ sched.tasks[t] = "Zombie") ~> ~Alive(sched, t)
=============================================================================
