------------------------------ MODULE ProcTable ------------------------------
(***************************************************************************)
(* The process table of kernel/src/scheduler/process.rs as a value: what   *)
(* register_process, remove_process, take_zombie_child, reap_orphans and   *)
(* the exit of a process make of it.  Process puts the scheduler and the   *)
(* system calls around it.                                                 *)
(*                                                                         *)
(* A definition named after the one that follows it is a mutant, wrong on  *)
(* purpose; nothing uses it.  Pids, slots and tids start at 1; 0 stands    *)
(* for None.                                                               *)
(***************************************************************************)
EXTENDS Naturals, FiniteSets

CONSTANTS
    TidMax,         \* the last tid, and so the last pid
    NSlots,         \* SLOT_COUNT of mm/psram_exec.rs
    Sigs            \* the signals processes send, of 1 .. 31

ASSUME TableConstants ==
    /\ TidMax \in Nat /\ TidMax >= 3
    /\ NSlots \in Nat
    /\ Sigs \subseteq 1 .. 31

Tid == 0 .. TidMax
Pid == 1 .. TidMax
Slot == 1 .. NSlots

Process ==
    [parent : Pid \cup {0}, task : Tid, state : {"Running", "Zombie"},
     name : {"init-sup", "init", "ssh-shell", "program"},
     children : SUBSET Pid, slot : Slot \cup {0}, pending : SUBSET Sigs]

-----------------------------------------------------------------------------
(* The process table.  `children` is a Vec in the code; which of several   *)
(* exited children is taken first is left open here.                       *)

PidOfTid(P, t) == IF t \in DOMAIN P.by_tid THEN P.by_tid[t] ELSE 0

Without(f, x) == [y \in DOMAIN f \ {x} |-> f[y]]
With(f, x, v) == [y \in DOMAIN f \cup {x} |-> IF y = x THEN v ELSE f[y]]

RemoveProcessOrphans(P, pid) ==
    IF pid \notin DOMAIN P.table THEN P
    ELSE [P EXCEPT !.table = Without(@, pid),
                   !.by_tid = Without(@, P.table[pid].task)]

RemoveProcess(P, pid) ==
    LET gone == P.table[pid]
        to_init == pid # 1 /\ 1 \in DOMAIN P.table
        heir == IF to_init THEN 1 ELSE 0
        Adopt(q, p) ==
            [p EXCEPT
                !.parent = IF q \in gone.children THEN heir ELSE @,
                !.children =
                    (IF q = gone.parent THEN @ \ {pid} ELSE @)
                    \cup (IF q = heir THEN gone.children ELSE {})]
    IN IF pid \notin DOMAIN P.table THEN P
       ELSE [P EXCEPT
               !.table = [q \in DOMAIN P.table \ {pid} |->
                             Adopt(q, P.table[q])],
               !.by_tid = Without(@, gone.task)]

IsZombie(P, pid) == pid \in DOMAIN P.table /\ P.table[pid].state = "Zombie"

Children(P, pid) ==
    IF pid \in DOMAIN P.table THEN P.table[pid].children ELSE {}

ZombieChildrenAny(P, pid) == Children(P, pid)

(* The exited children take_zombie_child may detach.                       *)
ZombieChildren(P, pid) == {c \in Children(P, pid) : IsZombie(P, c)}

SlotOf(P, pid) == IF pid \in DOMAIN P.table THEN P.table[pid].slot ELSE 0

(* register_process, called by task `by` for the new task t.               *)
RegisterProcess(P, name, t, by, slot) ==
    LET pid == P.next_pid
        parent == PidOfTid(P, by)
        proc == [parent |-> parent, task |-> t, name |-> name,
                 state |-> "Running", children |-> {}, slot |-> slot,
                 pending |-> {}]
        grown == With(P.table, pid, proc)
    IN [table |-> IF parent \in DOMAIN P.table
                  THEN [grown EXCEPT ![parent].children = @ \cup {pid}]
                  ELSE grown,
        by_tid |-> With(P.by_tid, t, pid),
        next_pid |-> pid + 1]

CloneFdTable(tables, parent, child) ==
    IF parent \in tables THEN tables \cup {child} ELSE tables

FreeSlot(used, s) == used \ {s}

OrphansOfInit(P) ==
    {p \in DOMAIN P.table : IsZombie(P, p) /\ P.table[p].parent = 1}

(* What reap_orphans looks for.                                            *)
Orphans(P) == {p \in DOMAIN P.table : IsZombie(P, p) /\ P.table[p].parent = 0}

ExitTableKept(P, t) == P

ParentTaskNone(P, t) == 0

(* sys_exit up to set_need_resched: the process, then its parent, then the *)
(* task.                                                                   *)
ExitTable(P, t) ==
    LET pid == PidOfTid(P, t) IN
    IF pid \in DOMAIN P.table
    THEN [P EXCEPT !.table[pid].state = "Zombie"] ELSE P

ParentTask(P, t) ==
    LET pid == PidOfTid(P, t)
        parent == IF pid \in DOMAIN P.table THEN P.table[pid].parent ELSE 0
    IN IF parent \in DOMAIN P.table THEN P.table[parent].task ELSE 0
-----------------------------------------------------------------------------
(* What a task is doing: its role, its position and the locals it keeps.   *)
Idle == [role |-> "idle", pc |-> "yield", slot |-> 0, tid |-> 0, pid |-> 0,
         dead |-> {}]
StartAs(role, pc) == [Idle EXCEPT !.role = role, !.pc = pc]
=============================================================================
