------------------------------- MODULE Locks -------------------------------
(***************************************************************************)
(* The kernel's Mutex (kernel/src/arch/xtensa/sync.rs) on one core or two, *)
(* the timer interrupt that comes whenever it is not masked, and the lock  *)
(* sections of the kernel: which mutex is taken while which is held.       *)
(*                                                                         *)
(* A core holds no guard when it changes tasks, so what it executes is one *)
(* section after another, in any order.  Taking a mutex twice in a row at  *)
(* the same place is left to once.  Mutexes under which nothing else is    *)
(* taken, and that are taken alone, are left out; "LEAF" stands for the    *)
(* ones taken under NET_SOCKETS (CURRENT_IP, the rings, RX_IMAGE,          *)
(* remote_endpoint), "LIST" for a pipe's two lists, "KID" for the body of  *)
(* a node below the one that "BODY" is of.                                 *)
(***************************************************************************)
EXTENDS Naturals, Sequences, FiniteSets

CONSTANT CoreIds          \* current_core_id: {1}, or {1, 2} with smp

ASSUME CoreIdsAssumption == CoreIds \subseteq Nat \ {0} /\ CoreIds # {}

In(m, inner) == <<<<"lock", m>>>> \o inner \o <<<<"drop", m>>>>
Only(m) == In(m, << >>)

(* unblock_task on everyone on a pipe's list.                              *)
WakesList == In("LIST", Only("SCHED"))

(* Dropping the last descriptor of a socket: its handle is read first.     *)
DropSocket == Only("HANDLE") \o Only("NET")

(* reap_orphans: the pids, then for each its entry and its fd table.       *)
Reaps(dropped) == Only("TABLE") \o In("FDS", dropped)

(* The timer interrupt: tick, preempt_switch, check_signals.               *)
Timer == Only("SCHED") \o Only("TABLE")

RegisterProcess == In("TABLE", Only("FDS") \o Only("SCHED"))

Kill == In("TABLE", Only("SCHED"))
Transfer == In("BUFFER", WakesList)
SleepOnPipe == In("BUFFER", Only("SCHED") \o Only("LIST") \o Only("SCHED"))
ClosePipe == In("FDS", WakesList)
CloseSocket == In("FDS", DropSocket)
Accept == In("NET", Only("HANDLE"))
Exchange == In("NET", Only("LEAF"))
OpenShell == In("NET", Only("SESSIONS") \o Only("SCHED") \o Only("TABLE") \o Only("FDS"))
Sweep(dropped) == In("NET", Reaps(dropped))
Unlink == In("BODY", Only("KID"))

Sections ==
    [schedule |-> Only("SCHED"), process |-> Only("TABLE"), descriptor |-> Only("FDS"),
     kill |-> Kill, register |-> RegisterProcess, transfer |-> Transfer, sleep |-> SleepOnPipe,
     closePipe |-> ClosePipe, closeSocket |-> CloseSocket, accept |-> Accept, exchange |-> Exchange,
     openShell |-> OpenShell, sweep |-> Sweep(WakesList), sweepSocket |-> Sweep(DropSocket),
     unlink |-> Unlink, timer |-> Timer]

Mutexes == {"SCHED", "TABLE", "FDS", "BUFFER", "LIST", "NET", "HANDLE", "LEAF", "SESSIONS", "BODY", "KID"}

VARIABLES
    locked,     \* SpinLock::locked of each mutex
    owner,      \* Mutex::owner, a core or 0
    irq,        \* whether a core takes interrupts
    frames,     \* what a core executes, an interrupt on top: the section, the
                \* place in it, how far the operation there has got, and the
                \* irq_state of the guards
    panicked    \* the sections in which lock() panicked

lockVars == <<locked, owner, irq, frames, panicked>>
-----------------------------------------------------------------------------
Frame(name) == [run |-> name, at |-> 1, step |-> "start", saved |-> << >>]
Busy(c) == frames[c] # << >> /\ panicked[c] = "none"
Top(c) == frames[c][Len(frames[c])]
Ops(c) == Sections[Top(c).run]
Doing(c, what, step) ==
    /\ Busy(c) /\ Top(c).at <= Len(Ops(c)) /\ Ops(c)[Top(c).at][1] = what
    /\ Top(c).step = step
Wanted(c) == Ops(c)[Top(c).at][2]

Goes(c, step) == frames' = [frames EXCEPT ![c][Len(frames[c])].step = step]
Passes(c, saved) ==
    frames' = [frames EXCEPT ![c][Len(frames[c])] =
                  [Top(c) EXCEPT !.at = @ + 1, !.step = "start", !.saved = saved]]
-----------------------------------------------------------------------------
BeginSection(c, name) ==
    /\ frames[c] = << >> /\ name # "timer"
    /\ frames' = [frames EXCEPT ![c] = <<Frame(name)>>]
    /\ UNCHANGED <<locked, owner, irq, panicked>>

(* An interrupt is taken with further ones masked; returning from it       *)
(* restores the state it found.                                            *)
Interrupt(c) ==
    /\ irq[c] /\ panicked[c] = "none" /\ Len(frames[c]) <= 1
    /\ frames' = [frames EXCEPT ![c] = Append(@, Frame("timer"))]
    /\ irq' = [irq EXCEPT ![c] = FALSE]
    /\ UNCHANGED <<locked, owner, panicked>>

EndSection(c) ==
    /\ Busy(c) /\ Top(c).at > Len(Ops(c))
    /\ frames' = [frames EXCEPT ![c] = SubSeq(@, 1, Len(@) - 1)]
    /\ irq' = IF Top(c).run = "timer" THEN [irq EXCEPT ![c] = TRUE] ELSE irq
    /\ UNCHANGED <<locked, owner, panicked>>

(* Mutex::lock: mask, see that this core is not the owner, spin, own.      *)
LockMaskKeepsIrq(c) ==
    /\ Doing(c, "lock", "start") /\ owner[Wanted(c)] # c
    /\ frames' = [frames EXCEPT ![c][Len(frames[c])] =
                     [Top(c) EXCEPT !.step = "spin", !.saved = Append(@, <<Wanted(c), irq[c]>>)]]
    /\ UNCHANGED <<locked, owner, irq, panicked>>

LockMask(c) ==
    /\ Doing(c, "lock", "start") /\ owner[Wanted(c)] # c
    /\ frames' = [frames EXCEPT ![c][Len(frames[c])] =
                     [Top(c) EXCEPT !.step = "spin", !.saved = Append(@, <<Wanted(c), irq[c]>>)]]
    /\ irq' = [irq EXCEPT ![c] = FALSE]
    /\ UNCHANGED <<locked, owner, panicked>>

LockPanics(c) ==
    /\ Doing(c, "lock", "start") /\ owner[Wanted(c)] = c
    /\ panicked' = [panicked EXCEPT ![c] = Top(c).run]
    /\ UNCHANGED <<locked, owner, irq, frames>>

LockSpin(c) ==
    /\ Doing(c, "lock", "spin")
    /\ \/ /\ ~locked[Wanted(c)]
          /\ locked' = [locked EXCEPT ![Wanted(c)] = TRUE]
          /\ Goes(c, "own")
       \/ locked[Wanted(c)] /\ UNCHANGED <<locked, frames>>
    /\ UNCHANGED <<owner, irq, panicked>>

LockOwn(c) ==
    /\ Doing(c, "lock", "own")
    /\ owner' = [owner EXCEPT ![Wanted(c)] = c]
    /\ Passes(c, Top(c).saved)
    /\ UNCHANGED <<locked, irq, panicked>>

(* Drop of a MutexGuard: disown, unlock, restore.                          *)
DropDisown(c) ==
    /\ Doing(c, "drop", "start")
    /\ owner' = [owner EXCEPT ![Wanted(c)] = 0]
    /\ Goes(c, "unlock")
    /\ UNCHANGED <<locked, irq, panicked>>

DropUnlock(c) ==
    /\ Doing(c, "drop", "unlock")
    /\ locked' = [locked EXCEPT ![Wanted(c)] = FALSE]
    /\ Goes(c, "restore")
    /\ UNCHANGED <<owner, irq, panicked>>

DropRestore(c) ==
    /\ Doing(c, "drop", "restore")
    /\ LET saved == Top(c).saved
           g == CHOOSE i \in DOMAIN saved : saved[i][1] = Wanted(c)
       IN  /\ irq' = [irq EXCEPT ![c] = saved[g][2]]
           /\ Passes(c, SubSeq(saved, 1, g - 1) \o SubSeq(saved, g + 1, Len(saved)))
    /\ UNCHANGED <<locked, owner, panicked>>
-----------------------------------------------------------------------------
LockInit ==
    /\ locked = [m \in Mutexes |-> FALSE]
    /\ owner = [m \in Mutexes |-> 0]
    /\ irq = [c \in CoreIds |-> TRUE]
    /\ frames = [c \in CoreIds |-> << >>]
    /\ panicked = [c \in CoreIds |-> "none"]

LockNext ==
    \E c \in CoreIds :
        \/ \E name \in DOMAIN Sections : BeginSection(c, name)
        \/ Interrupt(c) \/ EndSection(c)
        \/ LockMask(c) \/ LockPanics(c) \/ LockSpin(c) \/ LockOwn(c)
        \/ DropDisown(c) \/ DropUnlock(c) \/ DropRestore(c)

LockSpec == LockInit /\ [][LockNext]_lockVars
-----------------------------------------------------------------------------
(* The mutexes a core is inside of: it has a guard, or is making or        *)
(* dropping one with the spin lock taken.                                  *)
Guards(c) == UNION {{f.saved[j][1] : j \in DOMAIN f.saved} : f \in {frames[c][i] : i \in DOMAIN frames[c]}}
Spins(c) == Doing(c, "lock", "spin")
InsideOf(c) == Guards(c) \ (IF Spins(c) \/ Doing(c, "drop", "restore") THEN {Wanted(c)} ELSE {})

(* The types; and a mutex that records an owner is locked, so that the     *)
(* owner it records is the one inside.                                     *)
LockTypeOK ==
    /\ locked \in [Mutexes -> BOOLEAN] /\ owner \in [Mutexes -> CoreIds \cup {0}]
    /\ irq \in [CoreIds -> BOOLEAN]
    /\ \A c \in CoreIds : Len(frames[c]) <= 2 /\ panicked[c] \in DOMAIN Sections \cup {"none"}
    /\ \A m \in Mutexes : owner[m] # 0 => locked[m]

(* A mutex has one core inside at a time, whatever the interrupts do.      *)
MutualExclusion == \A c, d \in CoreIds : c # d => InsideOf(c) \cap InsideOf(d) = {}

(* lock() finds its own core as the owner, and panics, in one place only:  *)
(* when net_task sweeps up an orphan that still holds a socket, whose drop *)
(* takes NET_SOCKETS again.  Nowhere else, in particular not in the timer  *)
(* interrupt, whatever it interrupts.                                      *)
ReentersOnlySweeping == \A c \in CoreIds : panicked[c] \in {"none", "sweepSocket"}

(* Two cores spin on each other for ever in one way only: net_task, which  *)
(* reaps and seeds fd tables inside NET_SOCKETS, against the close of a    *)
(* socket, which drops it inside PROCESS_FD_TABLES.                        *)
OneDeadlyEmbrace ==
    \A c, d \in CoreIds :
        /\ c # d /\ Spins(c) /\ Spins(d)
        /\ owner[Wanted(c)] = d /\ owner[Wanted(d)] = c
        => {Wanted(c), Wanted(d)} = {"NET", "FDS"}

(* The mutex is sound: one core inside, nobody waits for itself but in the *)
(* sweep, no two for each other but in the one inversion.                  *)
LockInv == LockTypeOK /\ MutualExclusion /\ ReentersOnlySweeping /\ OneDeadlyEmbrace
=============================================================================
