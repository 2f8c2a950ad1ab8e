---------------------------- MODULE ProcessTraps ----------------------------
(***************************************************************************)
(* The steps of Process that go through the trap handler (the timer, the   *)
(* yields, exit, kill, wait and spawn) keep IInv, so every step does.      *)
(***************************************************************************)
EXTENDS ProcessSteps

(* A trap whose handler asked for a resched.                               *)
LEMMA TrapSwitches ==
    ASSUME SchedulerView, NEW s, NEW P, NEW f, EndTrap(s, P, f, TRUE), SchedOK(s),
           WorldOf(s, P, slots_used', fd_tables', f),
           sessions' \in 0 .. MaxSessions
    PROVE  IInv'
<1>1. /\ sched' = S!PreemptSwitch(s, 0) /\ ptab' = P /\ frame' = f
      /\ need_resched' = [c \in {0} |-> FALSE]
      /\ mode' = ModeAfter(sched', ptab', frame')
  BY Zenon DEF EndTrap
<1> QED BY <1>1, EpilogueKeeps, Zenon

(* A trap whose handler did not, and left a task that is not Blocked.      *)
LEMMA TrapReturns ==
    ASSUME SchedulerView, NEW s, NEW P, NEW f, EndTrap(s, P, f, FALSE), SchedOK(s),
           WorldOf(s, P, slots_used', fd_tables', f),
           s.current[0] \notin Asleep(s), sessions' \in 0 .. MaxSessions
    PROVE  IInv'
<1>1. /\ \/ sched' = S!PreemptSwitch(s, 0)
         \/ sched' = s /\ s.current[0] \notin Asleep(s)
      /\ ptab' = P /\ frame' = f
      /\ need_resched' = [c \in {0} |-> FALSE]
      /\ mode' = ModeAfter(sched', ptab', frame')
  BY Zenon DEF EndTrap
<1> QED BY <1>1, EpilogueKeeps, Zenon

(* The timer interrupt.                                                    *)
LEMMA TimerKeeps ==
    ASSUME SchedulerView, IInv, Timer PROVE IInv'
<1> DEFINE s == S!TickDown(sched)
<1>1. /\ SchedOK(s) /\ s.next_tid = sched.next_tid /\ s.current = sched.current
      /\ DeadTids(s) = DeadTids(sched) /\ Asleep(s) = Asleep(sched)
  BY TickView, Zenon DEF IInv
<1>2. /\ WorldOf(s, ptab, slots_used, fd_tables, frame)
      /\ s.current[0] \notin Asleep(s)
  BY <1>1, Zenon DEF IInv, WorldOf, cur
<1>3. sessions' \in 0 .. MaxSessions /\ UNCHANGED <<slots_used, fd_tables>>
  BY Zenon DEF IInv, Timer
<1>4. EndTrap(s, ptab, frame, TRUE) \/ EndTrap(s, ptab, frame, FALSE)
  BY Zenon DEF Timer, EndTrap
<1> HIDE DEF s
<1>5. WorldOf(s, ptab, slots_used', fd_tables', frame)
  BY <1>2, <1>3, Zenon
<1> QED BY <1>1, <1>2, <1>3, <1>4, <1>5, TrapSwitches, TrapReturns, Zenon

(* sys_yield.                                                              *)
LEMMA SysYieldKeeps ==
    ASSUME SchedulerView, IInv, NEW t \in Tid, SysYield(t) PROVE IInv'
<1>1. /\ EndTrap(sched, ptab, frame, TRUE)
      /\ UNCHANGED <<slots_used, fd_tables, sessions>>
  BY Zenon DEF SysYield
<1>2. /\ SchedOK(sched) /\ WorldOf(sched, ptab, slots_used', fd_tables', frame)
      /\ sessions' \in 0 .. MaxSessions
  BY <1>1, Zenon DEF IInv
<1> QED BY <1>1, <1>2, TrapSwitches, Zenon

(* yield_now of the supervisor, of net_task and of idle.                   *)
LEMMA KernelYieldKeeps ==
    ASSUME SchedulerView, IInv, NEW t \in Tid, KernelYield(t) PROVE IInv'
<1> DEFINE x == CASE Role(t) = "sup" -> "drain"
                  [] Role(t) = "net" -> "net"
                  [] OTHER -> "yield"
           f == [frame EXCEPT ![t].pc = x]
<1>1. cur = t /\ frame[t].pc = "yield"
  BY Zenon DEF KernelYield, At, Runs
<1>2. /\ frame[t].role \in {"idle", "sup", "net"} /\ frame[t].slot = 0
      /\ frame[t].role # "idle" => t \notin DeadTids(sched)
  BY <1>1, Here, PcRoles, Zenon DEF SlotPcs, ExitPcs
<1>3. /\ t \notin Asleep(sched) /\ frame \in [Tid -> Frame] /\ SchedOK(sched)
      /\ TaskOK(DeadTids(sched), Asleep(sched), sched.next_tid, ptab,
                fd_tables, t, frame[t])
      /\ SlotsOK(ptab, slots_used, frame) /\ TableType(sched.next_tid, ptab)
      /\ World(DeadTids(sched), Asleep(sched), sched.next_tid, ptab,
               slots_used, fd_tables, frame)
      /\ sessions \in 0 .. MaxSessions /\ slots_used \in SUBSET Slot
      /\ frame[t].role # "idle" => t # 0 /\ ~(t >= sched.next_tid)
  BY <1>1, Running, Zenon
<1>4. EndTrap(sched, ptab, f, TRUE) /\ UNCHANGED <<slots_used, fd_tables, sessions>>
  BY Zenon DEF KernelYield
<1>5. /\ x \in Pcs /\ x \in PcsOf(frame[t].role)
      /\ x \notin StartPcs \cup ReapPcs /\ x # "spawn" /\ x # "register"
      /\ frame[t].role = "idle" => x = frame[t].pc
  BY <1>1, <1>2, RolePcs, Zenon DEF Pcs, StartPcs, ReapPcs, Role
<1> HIDE DEF x
<1>6. Moved(frame, f, t, x, frame[t].slot, frame[t].tid, frame[t].pid,
            frame[t].dead)
  BY <1>3, <1>5, PutPc, Zenon
<1> DEFINE r == f[t]
<1>7. /\ f = [frame EXCEPT ![t] = r] /\ r \in Frame
      /\ r.role = frame[t].role /\ r.slot = frame[t].slot /\ r.pc = x
      /\ r.dead = frame[t].dead
      /\ r.tid = frame[t].tid /\ r.pid = frame[t].pid
  BY <1>6, Zenon DEF Moved
<1> HIDE DEF r, f
<1>8. TaskOK(DeadTids(sched), Asleep(sched), sched.next_tid, ptab,
             fd_tables, t, r)
  <2>1. CASE frame[t].role # "idle"
    BY <1>2, <1>3, <1>5, <1>7, <2>1, GotoTask, Zenon
  <2>2. CASE frame[t].role = "idle"
    <3>1. r = frame[t]
      BY <1>3, <1>5, <1>7, <2>2, FrameFields, Zenon
    <3> QED BY <1>3, <3>1, Zenon
  <2> QED BY <2>1, <2>2, Zenon
<1>9. SlotsOK(ptab, slots_used, f)
  BY <1>3, <1>7, SlotsSteps, Zenon DEF TableType
<1>10. World(DeadTids(sched), Asleep(sched), sched.next_tid, ptab,
             slots_used, fd_tables, f)
  <2>1. r.pc \notin StartPcs /\ r.pc # "register" /\ frame[t].pc # "register"
    BY <1>1, <1>5, <1>7, Zenon
  <2> QED BY <1>3, <1>7, <1>8, <1>9, <2>1, FrameStep, Zenon
<1>11. WorldOf(sched, ptab, slots_used', fd_tables', f)
  BY <1>4, <1>10, Zenon DEF WorldOf
<1>12. sessions' \in 0 .. MaxSessions
  BY <1>3, <1>4, Zenon
<1> QED BY <1>3, <1>4, <1>11, <1>12, TrapSwitches, Zenon

(* The end of the running task, of a user task or of a session shell.      *)
LEMMA ExitKeeps ==
    ASSUME SchedulerView, IInv, NEW t \in Tid, cur = t,
           \/ frame[t].role = "user" /\ frame[t].pc # "trampoline"
           \/ frame[t].role = "shell" /\ frame[t].pc \in ExitPcs,
           EndTrap(ExitSched(sched, ptab, t), ExitTable(ptab, t), frame, TRUE),
           UNCHANGED <<slots_used, fd_tables, sessions>>
    PROVE  IInv'
<1> DEFINE s == ExitSched(sched, ptab, t)
           Q == ExitTable(ptab, t)
           D == DeadTids(sched)
           B == Asleep(sched)
           X == Asleep(s)
<1>1. /\ SchedOK(sched) /\ t # 0 /\ sched.current[0] = t
      /\ World(D, B, sched.next_tid, ptab, slots_used, fd_tables, frame)
      /\ sessions \in 0 .. MaxSessions
  BY Running, Zenon DEF cur
<1>2. /\ SchedOK(s) /\ s.next_tid = sched.next_tid
      /\ DeadTids(s) = D \cup {t}
      /\ X \subseteq B \ {t} /\ B \ {t, ParentTask(ptab, t)} \subseteq X
      /\ ParentTask(ptab, t) = 0 \/ ParentTask(ptab, t) \notin X
  BY <1>1, ExitView, Zenon
<1>3. Q = ExitTable(ptab, t)
  BY Zenon
<1> HIDE DEF Q, X, D, B
<1>4. World(D \cup {t}, X, sched.next_tid, Q, slots_used, fd_tables, frame)
  BY <1>1, <1>2, <1>3, ExitWorld
<1>5. EndTrap(s, Q, frame, TRUE)
  BY Zenon DEF Q
<1> HIDE DEF s
<1>6. WorldOf(s, Q, slots_used', fd_tables', frame)
  BY <1>2, <1>4, Zenon DEF WorldOf, X
<1> QED BY <1>1, <1>2, <1>5, <1>6, TrapSwitches, Zenon

(* sys_exit.                                                               *)
LEMMA SysExitKeeps ==
    ASSUME SchedulerView, IInv, NEW t \in Tid, SysExit(t) PROVE IInv'
<1>1. cur = t /\ frame[t].role = "user" /\ frame[t].pc = "user"
  BY Zenon DEF SysExit, InUser, Traps, Runs
<1> QED BY <1>1, ExitKeeps, Zenon DEF SysExit

(* The Exit trap at the end of scheduler::exit.                            *)
LEMMA ExitTrapKeeps ==
    ASSUME SchedulerView, IInv, NEW t \in Tid, ExitTrap(t) PROVE IInv'
<1>1. cur = t /\ frame[t].pc = "exit_trap"
  BY Zenon DEF ExitTrap, At, Runs
<1>2. frame[t].role = "shell" /\ frame[t].pc \in ExitPcs
  BY <1>1, Here, PcRoles, Zenon DEF ExitPcs
<1> QED BY <1>1, <1>2, ExitKeeps, Zenon DEF ExitTrap

(* scheduler::exit marks the task, with interrupts on.                     *)
LEMMA ExitMarkKeeps ==
    ASSUME SchedulerView, IInv, NEW t \in Tid, ExitMark(t) PROVE IInv'
<1> DEFINE r == frame'[t]
           x == "exit_flag"
           z == "Zombie"
<1>1. cur = t /\ frame[t].pc = "exit_mark" /\ mode = "task"
  BY Zenon DEF ExitMark, At, Runs
<1>2. frame[t].role = "shell" /\ frame[t].slot = 0
  BY <1>1, Here, PcRoles, Zenon DEF SlotPcs
<1>3. /\ t \notin Asleep(sched) /\ frame \in [Tid -> Frame] /\ SchedOK(sched)
      /\ TaskOK(DeadTids(sched), Asleep(sched), sched.next_tid, ptab,
                fd_tables, t, frame[t])
      /\ SlotsOK(ptab, slots_used, frame) /\ TableType(sched.next_tid, ptab)
      /\ World(DeadTids(sched), Asleep(sched), sched.next_tid, ptab,
               slots_used, fd_tables, frame)
      /\ need_resched \in [{0} -> BOOLEAN] /\ sessions \in 0 .. MaxSessions
      /\ slots_used \in SUBSET Slot /\ t # 0 /\ ~(t >= sched.next_tid)
  BY <1>1, <1>2, Running, Zenon
<1>4. UNCHANGED <<need_resched, mode, ptab, slots_used, fd_tables, sessions>>
  BY Zenon DEF ExitMark
<1>5. /\ frame' = [frame EXCEPT ![t].pc = x] /\ x \in Pcs
      /\ sched' = S!PutAside(sched, 0, z)
  BY Zenon DEF ExitMark, Goto, Pcs, S!MarkZombie
<1>6. x \in PcsOf(frame[t].role) /\ x \notin StartPcs \cup ReapPcs /\ x # "spawn"
      /\ x \in ExitPcs
  BY <1>2, RolePcs, Zenon DEF StartPcs, ReapPcs, ExitPcs
<1> HIDE DEF x
<1>7. Moved(frame, frame', t, x, frame[t].slot, frame[t].tid, frame[t].pid,
            frame[t].dead)
  BY <1>3, <1>5, PutPc, Zenon
<1>8. /\ frame' = [frame EXCEPT ![t] = r] /\ r \in Frame /\ frame'[t] = r
      /\ r.role = frame[t].role /\ r.slot = frame[t].slot /\ r.pc = x
      /\ r.dead = frame[t].dead
  BY <1>7, Zenon DEF Moved
<1> HIDE DEF r
<1>9. TaskOK(DeadTids(sched), Asleep(sched), sched.next_tid, ptab,
             fd_tables, t, r)
  BY <1>2, <1>3, <1>6, <1>8, GotoTask, Zenon
<1>10. SlotsOK(ptab, slots_used, frame')
  BY <1>3, <1>8, SlotsSteps, Zenon DEF TableType
<1>11. World(DeadTids(sched), Asleep(sched), sched.next_tid, ptab,
             slots_used, fd_tables, frame')
  <2>1. r.pc \notin StartPcs /\ r.pc # "register" /\ frame[t].pc # "register"
    BY <1>1, <1>6, <1>8, Zenon DEF StartPcs
  <2> QED BY <1>3, <1>8, <1>9, <1>10, <2>1, FrameStep, Zenon
<1>12. World(DeadTids(sched) \cup {t}, Asleep(sched) \ {t}, sched.next_tid,
             ptab, slots_used, fd_tables, frame')
  BY <1>2, <1>6, <1>8, <1>11, MarkWorld, Zenon
<1>13. /\ SchedOK(sched') /\ sched'.next_tid = sched.next_tid
       /\ sched'.current = sched.current
       /\ DeadTids(sched') = DeadTids(sched) \cup {t}
       /\ Asleep(sched') = Asleep(sched) \ {t}
  <2>1. z \in {"Blocked", "Zombie"} /\ sched.current[0] = t /\ z = "Zombie"
    BY <1>1, Zenon DEF cur
  <2> HIDE DEF z
  <2> QED BY <1>3, <1>5, <2>1, PutAsideView, Zenon
<1>14. /\ WorldOf(sched', ptab', slots_used', fd_tables', frame')
       /\ sched'.current[0] \notin Asleep(sched')
  BY <1>1, <1>3, <1>4, <1>12, <1>13, Zenon DEF WorldOf, cur
<1> QED BY <1>1, <1>3, <1>4, <1>13, <1>14, SectionKeeps, Zenon

(* sys_kill: the signal is queued, the target's task woken.                *)
LEMMA SysKillKeeps ==
    ASSUME SchedulerView, IInv, NEW t \in Tid, NEW pid \in Pid, NEW sig \in Sigs,
           SysKill(t, pid, sig)
    PROVE  IInv'
<1> DEFINE x == ptab.table[pid].task
           s == S!UnblockTask(sched, x)
           G == ptab.table[pid].pending \cup {sig}
           Q == [ptab EXCEPT !.table[pid].pending = G]
           D == DeadTids(sched)
           B == Asleep(sched)
<1>1. /\ pid \in DOMAIN ptab.table /\ EndTrap(s, Q, frame, TRUE)
      /\ UNCHANGED <<slots_used, fd_tables, sessions>>
  BY Zenon DEF SysKill
<1>2. /\ World(D, B, sched.next_tid, ptab, slots_used, fd_tables, frame)
      /\ SchedOK(sched) /\ sessions' \in 0 .. MaxSessions
  BY <1>1, Zenon DEF IInv, WorldOf
<1>3. G \in SUBSET Sigs
  BY <1>1, <1>2, Zenon DEF World, TableType, Process
<1>4. Q = [ptab EXCEPT !.table[pid].pending = G]
  BY Zenon
<1> HIDE DEF Q, G, D, B
<1>5. World(D, B, sched.next_tid, Q, slots_used, fd_tables, frame)
  BY <1>1, <1>2, <1>3, <1>4, PendingWorld, Zenon
<1>6. \A u \in Tid : frame[u].pc = "register" => frame[u].tid # x
  <2>1. x \in DOMAIN ptab.by_tid
    BY <1>1, <1>2, Zenon DEF World, Kinship
  <2> QED BY <1>2, <2>1, Zenon DEF World, TasksOK, TaskOK
<1>7. World(D, B \ {x}, sched.next_tid, Q, slots_used, fd_tables, frame)
  BY <1>5, <1>6, WakeWorld, Zenon
<1>8. /\ SchedOK(s) /\ s.next_tid = sched.next_tid
      /\ DeadTids(s) = D /\ Asleep(s) = B \ {x}
  BY <1>2, UnblockView DEF D, B
<1> HIDE DEF s, x
<1>9. WorldOf(s, Q, slots_used', fd_tables', frame)
  BY <1>1, <1>7, <1>8, Zenon DEF WorldOf
<1> QED BY <1>1, <1>2, <1>8, <1>9, TrapSwitches, Zenon

(* check_signals: the lowest one ends the process, or is dropped.          *)
LEMMA CheckSignalsKeeps ==
    ASSUME SchedulerView, IInv, CheckSignals PROVE IInv'
<1> DEFINE t == cur
           p == PidOfTid(ptab, t)
           G == ptab.table[p].pending \ {Min(ptab.table[p].pending)}
           P == [ptab EXCEPT !.table[p].pending = G]
           D == DeadTids(sched)
           B == Asleep(sched)
<1>1. mode = "signals" /\ UNCHANGED <<slots_used, fd_tables, sessions>>
  BY Zenon DEF CheckSignals
<1>2. /\ p \in DOMAIN ptab.table
      /\ frame[t].role = "user" /\ frame[t].pc # "trampoline"
  BY <1>1, Zenon DEF IInv, SignalDue, UserText, cur
<1>3. t \in Tid /\ sched.current[0] = t
  BY SchedTypes, Zenon DEF IInv, cur
<1>4. /\ SchedOK(sched) /\ t # 0
      /\ World(D, B, sched.next_tid, ptab, slots_used, fd_tables, frame)
      /\ need_resched \in [{0} -> BOOLEAN]
      /\ sessions \in 0 .. MaxSessions /\ t \notin B
  BY <1>2, <1>3, Running, Zenon
<1>5. G \in SUBSET Sigs
  BY <1>2, <1>4, Zenon DEF World, TableType, Process
<1>6. P = [ptab EXCEPT !.table[p].pending = G]
  BY Zenon
<1>7. World(D, B, sched.next_tid, P, slots_used, fd_tables, frame)
  <2> HIDE DEF P, G, D, B
  <2> QED BY <1>2, <1>4, <1>5, <1>6, PendingWorld, Zenon
<1>8. \/ EndTrap(ExitSched(S!MarkZombie(sched, 0), P, t), ExitTable(P, t),
                 frame, TRUE)
      \/ ptab' = P /\ mode' = "task" /\ UNCHANGED <<sched, need_resched, frame>>
  BY Zenon DEF CheckSignals, curpid
<1> HIDE DEF P, G
<1>9. ASSUME EndTrap(ExitSched(S!MarkZombie(sched, 0), P, t), ExitTable(P, t),
                     frame, TRUE)
      PROVE  IInv'
  <2> DEFINE z == "Zombie"
             m == S!PutAside(sched, 0, z)
             s == ExitSched(m, P, t)
             Q == ExitTable(P, t)
             X == Asleep(s)
  <2>1. EndTrap(s, Q, frame, TRUE)
    BY <1>9, Zenon DEF S!MarkZombie
  <2>2. /\ SchedOK(m) /\ m.next_tid = sched.next_tid /\ m.current = sched.current
        /\ DeadTids(m) = D \cup {t} /\ Asleep(m) = B \ {t}
    <3>1. z \in {"Blocked", "Zombie"} /\ z = "Zombie"
      BY Zenon
    <3> HIDE DEF z
    <3> QED BY <1>3, <1>4, <3>1, PutAsideView, Zenon
  <2> HIDE DEF m
  <2>3. /\ SchedOK(s) /\ s.next_tid = m.next_tid
        /\ DeadTids(s) = DeadTids(m) \cup {t}
        /\ X \subseteq Asleep(m) \ {t}
        /\ Asleep(m) \ {t, ParentTask(P, t)} \subseteq X
        /\ ParentTask(P, t) = 0 \/ ParentTask(P, t) \notin X
    <3>1. m.current[0] = t
      BY <1>3, <2>2, Zenon
    <3> HIDE DEF t
    <3> QED BY <1>4, <2>2, <3>1, ExitView
  <2>4. /\ s.next_tid = sched.next_tid /\ DeadTids(s) = D \cup {t}
        /\ X \subseteq B \ {t} /\ B \ {t, ParentTask(P, t)} \subseteq X
    BY <2>2, <2>3, Zenon
  <2>5. Q = ExitTable(P, t)
    BY Zenon
  <2> HIDE DEF Q, X, D, B, t, s
  <2>6. World(D \cup {t}, X, sched.next_tid, Q, slots_used, fd_tables, frame)
    BY <1>2, <1>3, <1>7, <2>3, <2>4, <2>5, ExitWorld
  <2>7. WorldOf(s, Q, slots_used', fd_tables', frame)
    BY <1>1, <2>4, <2>6, Zenon DEF WorldOf, X
  <2> QED BY <1>1, <1>4, <2>1, <2>3, <2>7, TrapSwitches, Zenon
<1>10. CASE /\ ptab' = P /\ mode' = "task"
            /\ UNCHANGED <<sched, need_resched, frame>>
  <2>1. WorldOf(sched', ptab', slots_used', fd_tables', frame')
    BY <1>1, <1>7, <1>10, Zenon DEF WorldOf
  <2> QED BY <1>1, <1>3, <1>4, <1>10, <2>1, SectionKeeps, Zenon
<1> QED BY <1>8, <1>9, <1>10, Zenon

(* A task in sys_wait moves to x in the world with table P, slots U and fd *)
(* tables F.                                                               *)
LEMMA WaitMoves ==
    ASSUME IInv, NEW t \in Tid, cur = t,
           frame[t].role \in {"user", "sup", "shell"},
           frame[t].pc \in {"user", "wait"},
           NEW x, x \in {"user", "wait", "yield", "prompt"},
           x \in PcsOf(frame[t].role),
           NEW P, NEW U, NEW F,
           World(DeadTids(sched), Asleep(sched), sched.next_tid, P, U, F, frame),
           NEW f, f = [frame EXCEPT ![t].pc = x]
    PROVE  World(DeadTids(sched), Asleep(sched), sched.next_tid, P, U, F, f)
<1> DEFINE r == f[t]
<1>1. /\ t \notin Asleep(sched) /\ frame \in [Tid -> Frame]
      /\ t # 0 /\ ~(t >= sched.next_tid)
  BY Running, Zenon
<1>2. /\ frame[t].slot = 0
      /\ t \in DeadTids(sched) => frame[t].role = "user"
  BY Here, Zenon DEF SlotPcs, ExitPcs
<1>3. /\ TaskOK(DeadTids(sched), Asleep(sched), sched.next_tid, P, F, t, frame[t])
      /\ SlotsOK(P, U, frame) /\ U \in SUBSET Slot
      /\ \A p \in DOMAIN P.table : P.table[p] \in Process
  BY Zenon DEF World, TasksOK, TableType
<1>4. /\ x \in Pcs /\ x \notin StartPcs \cup ReapPcs
      /\ x \notin {"spawn", "register"}
  BY Zenon DEF Pcs, StartPcs, ReapPcs
<1>5. Moved(frame, f, t, x, frame[t].slot, frame[t].tid, frame[t].pid,
            frame[t].dead)
  BY <1>1, <1>4, PutPc, Zenon
<1>6. /\ f = [frame EXCEPT ![t] = r] /\ r \in Frame
      /\ r.role = frame[t].role /\ r.slot = frame[t].slot /\ r.pc = x
      /\ r.dead = frame[t].dead
  BY <1>5, Zenon DEF Moved
<1> HIDE DEF r
<1>7. TaskOK(DeadTids(sched), Asleep(sched), sched.next_tid, P, F, t, r)
  BY <1>1, <1>2, <1>3, <1>4, <1>6, GotoTask, Zenon
<1>8. SlotsOK(P, U, f)
  BY ONLY t \in Tid, <1>1, <1>3, <1>6, SlotsSteps, Zenon
<1>9. r.pc \notin StartPcs /\ r.pc # "register" /\ frame[t].pc # "register"
  BY <1>4, <1>6, Zenon
<1>10. World(DeadTids(sched), Asleep(sched), sched.next_tid, P, U, F, frame)
  BY Zenon
<1> QED BY ONLY t \in Tid, <1>1, <1>3, <1>6, <1>7, <1>8, <1>9, <1>10, FrameStep, Zenon

(* sys_wait: a zombie child is collected, there is none to wait for, or    *)
(* the task sleeps.                                                        *)
LEMMA SysWaitKeeps ==
    ASSUME SchedulerView, IInv, NEW t \in Tid, Traps(t),
           frame[t].role \in {"user", "sup", "shell"},
           frame[t].pc \in {"user", "wait"},
           NEW then, then \in {"user", "yield", "prompt"},
           then \in PcsOf(frame[t].role), NEW nohang, SysWait(t, nohang, then)
    PROVE  IInv'
<1> DEFINE D == DeadTids(sched)
           B == Asleep(sched)
           p == PidOfTid(ptab, t)
<1>1. cur = t /\ sched.current[0] = t /\ sched.tasks[t] = "Running"
  BY Zenon DEF Traps, Runs, cur
<1>2. /\ SchedOK(sched) /\ t \notin B /\ t # 0
      /\ World(D, B, sched.next_tid, ptab, slots_used, fd_tables, frame)
      /\ TableType(sched.next_tid, ptab)
      /\ sessions \in 0 .. MaxSessions
  BY <1>1, Running, Zenon
<1>3. ASSUME NEW c \in Pid, WaitReaps(t, c, then) PROVE IInv'
  <2> DEFINE Q == RemoveProcess(ptab, c)
             f == [frame EXCEPT ![t].pc = then]
             E == fd_tables \ {c}
  <2>1. /\ c \in DOMAIN ptab.table /\ ptab.table[c].state = "Zombie"
        /\ slots_used' = slots_used \ {ptab.table[c].slot} /\ fd_tables' = E
        /\ EndTrap(sched, Q, f, FALSE) /\ sessions' = sessions
    BY <1>3, Zenon DEF WaitReaps, ZombieChildren, IsZombie, SlotOf, FreeSlot
  <2>2. Q = RemoveProcess(ptab, c) /\ f = [frame EXCEPT ![t].pc = then]
    BY Zenon
  <2>3. fd_tables \ {c} \subseteq E /\ E \subseteq fd_tables
    BY Zenon
  <2> HIDE DEF Q, f, E
  <2>4. World(D, B, sched.next_tid, Q, slots_used', E, frame)
    BY <1>2, <2>1, <2>2, <2>3, RemoveWorld, Zenon
  <2>5. World(D, B, sched.next_tid, Q, slots_used', E, f)
    BY <1>1, <2>2, <2>4, WaitMoves, Zenon
  <2>6. WorldOf(sched, Q, slots_used', fd_tables', f)
    BY <2>1, <2>5, Zenon DEF WorldOf
  <2> QED BY <1>1, <1>2, <2>1, <2>6, TrapReturns, Zenon
<1>4. ASSUME WaitReturns(t, then) PROVE IInv'
  <2> DEFINE f == [frame EXCEPT ![t].pc = then]
  <2>1. /\ EndTrap(sched, ptab, f, FALSE)
        /\ UNCHANGED <<slots_used, fd_tables, sessions>>
    BY <1>4, Zenon DEF WaitReturns
  <2>2. f = [frame EXCEPT ![t].pc = then]
    BY Zenon
  <2> HIDE DEF f
  <2>3. World(D, B, sched.next_tid, ptab, slots_used, fd_tables, f)
    BY <1>1, <1>2, <2>2, WaitMoves, Zenon
  <2>4. /\ WorldOf(sched, ptab, slots_used', fd_tables', f)
        /\ sessions' \in 0 .. MaxSessions
    BY <1>2, <2>1, <2>3, Zenon DEF WorldOf
  <2> QED BY <1>1, <1>2, <2>1, <2>4, TrapReturns, Zenon
<1>5. ASSUME WaitBlocks(t), Children(ptab, p) # {}, ZombieChildren(ptab, p) = {}
      PROVE  IInv'
  <2> DEFINE b == "Blocked"
             x == "wait"
             f == [frame EXCEPT ![t].pc = x]
             s == S!PutAside(sched, 0, b)
  <2>1. /\ EndTrap(s, ptab, f, TRUE)
        /\ UNCHANGED <<slots_used, fd_tables, sessions>>
    BY <1>5, Zenon DEF WaitBlocks, S!BlockCurrent
  <2>2. /\ f = [frame EXCEPT ![t].pc = x] /\ x \in PcsOf(frame[t].role)
        /\ x \in {"user", "wait", "yield", "prompt"}
    BY RolePcs, Zenon
  <2> HIDE DEF f, x
  <2>3. World(D, B, sched.next_tid, ptab, slots_used, fd_tables, f)
    BY <1>1, <1>2, <2>2, WaitMoves
  <2>4. t \notin D
    BY <1>1, <1>2, SchedTypes, Zenon DEF DeadTids, S!Alive
  <2>5. World(D, B \cup {t}, sched.next_tid, ptab, slots_used, fd_tables, f)
    BY <1>5, <2>3, <2>4, SleepWorld, Zenon
  <2>6. /\ SchedOK(s) /\ s.next_tid = sched.next_tid
        /\ DeadTids(s) = D /\ Asleep(s) = B \cup {t}
    <3>1. b \in {"Blocked", "Zombie"} /\ b = "Blocked"
      BY Zenon
    <3> HIDE DEF b
    <3>2. /\ SchedOK(s) /\ s.next_tid = sched.next_tid
          /\ DeadTids(s) = DeadTids(sched) \ {sched.current[0]}
          /\ Asleep(s) = Asleep(sched) \cup {sched.current[0]}
      BY <1>1, <1>2, <3>1, PutAsideView
    <3> QED BY <1>1, <2>4, <3>2, Zenon
  <2> HIDE DEF s
  <2>7. /\ WorldOf(s, ptab, slots_used', fd_tables', f)
        /\ sessions' \in 0 .. MaxSessions
    BY <1>2, <2>1, <2>5, <2>6, Zenon DEF WorldOf
  <2> QED BY <2>1, <2>6, <2>7, TrapSwitches, Zenon
<1>6. \/ \E c \in Pid : WaitReaps(t, c, then)
      \/ WaitReturns(t, then)
      \/ /\ WaitBlocks(t) /\ Children(ptab, p) # {}
         /\ ZombieChildren(ptab, p) = {}
  BY <1>1, Zenon DEF SysWait, curpid
<1> QED BY <1>3, <1>4, <1>5, <1>6, Zenon

(* sys_wait from a program, at its first issue or again after a wake-up.   *)
LEMMA UserWaitKeeps ==
    ASSUME SchedulerView, IInv, NEW t \in Tid, UserWait(t) PROVE IInv'
<1> DEFINE x == "user"
<1>1. Traps(t) /\ frame[t].role = "user" /\ frame[t].pc \in {"user", "wait"}
  BY Zenon DEF UserWait
<1>2. PICK nohang \in BOOLEAN : SysWait(t, nohang, x)
  BY Zenon DEF UserWait
<1>3. x \in {"user", "yield", "prompt"} /\ x \in PcsOf(frame[t].role)
  BY <1>1, RolePcs, Zenon
<1> HIDE DEF x
<1> QED BY <1>1, <1>2, <1>3, SysWaitKeeps, Zenon

(* wait_all of the supervisor or of a session shell.                       *)
LEMMA KernelWaitKeeps ==
    ASSUME SchedulerView, IInv, NEW t \in Tid, KernelWait(t) PROVE IInv'
<1> DEFINE x == AfterRun(t)
           no == FALSE
<1>1. /\ Traps(t) /\ frame[t].role \in {"sup", "shell"}
      /\ frame[t].pc \in {"user", "wait"}
  BY Zenon DEF KernelWait, Role
<1>2. SysWait(t, no, x)
  BY Zenon DEF KernelWait
<1>3. x \in {"user", "yield", "prompt"} /\ x \in PcsOf(frame[t].role)
  BY <1>1, RolePcs, Zenon DEF AfterRun, Role
<1> HIDE DEF x, no
<1> QED BY <1>1, <1>2, <1>3, SysWaitKeeps, Zenon

(* sys_spawn: the task, the process and the fd table in one trap.          *)
LEMMA SysSpawnKeeps ==
    ASSUME SchedulerView, IInv, NEW t \in Tid, SysSpawn(t) PROVE IInv'
<1> DEFINE n == sched.next_tid
           a == Min(FreeSlots)
           c == StartAs("user", "trampoline")
           P == RegisterProcess(ptab, "program", n, t, a)
           f == [frame EXCEPT ![n] = c]
           i == S!InsertTask([sched EXCEPT !.next_tid = @ + 1], n, TRUE)
           s == S!UnblockTask(i, n)
           D == DeadTids(sched)
           B == Asleep(sched)
<1>1. /\ cur = t /\ CanLoad /\ n + 1 <= TidMax
      /\ slots_used' = slots_used \cup {a}
      /\ fd_tables' = CloneFdTable(fd_tables, PidOfTid(ptab, t), ptab.next_pid)
      /\ EndTrap(s, P, f, FALSE) /\ sessions' = sessions
  BY Zenon DEF SysSpawn, InUser, Traps, Runs, curpid, FreeSlots
<1>2. /\ SchedOK(sched) /\ t \notin B /\ sched.current[0] = t
      /\ World(D, B, n, ptab, slots_used, fd_tables, frame)
      /\ sessions \in 0 .. MaxSessions /\ n \in 1 .. TidMax
  BY <1>1, Running, Zenon DEF cur
<1>3. a \in Slot \ slots_used
  <2>1. FreeSlots \subseteq Nat /\ FreeSlots # {}
    BY <1>1 DEF CanLoad, FreeSlots, Slot
  <2>2. a \in FreeSlots
    BY <2>1, MinIn, Zenon
  <2> QED BY <2>2, Zenon DEF FreeSlots
<1>4. PidOfTid(ptab, t) \in fd_tables
  BY <1>1, Zenon DEF CanLoad, curpid
<1>5. /\ c \in Frame /\ c.slot = 0 /\ c.dead = {} /\ c.role = "user"
      /\ c.pc = "trampoline"
  BY StartFrame, Zenon
<1>6. n \notin B
  BY <1>2, SchedTypes DEF SchedOK, Asleep, S!Alive
<1>7. P = RegisterProcess(ptab, "program", n, t, a) /\ f = [frame EXCEPT ![n] = c]
  BY Zenon
<1>8. World(D \ {n}, B, n + 1, P, slots_used', fd_tables', f)
  <2> HIDE DEF n, a, c, P, f, D, B
  <2>1. n + 1 <= TidMax
    BY <1>1, Zenon
  <2>2. World(D \ {n}, B, n + 1, P, slots_used \cup {a}, fd_tables', f)
    BY <1>1, <1>2, <1>3, <1>4, <1>5, <1>6, <1>7, <2>1, SysSpawnWorld, Zenon
  <2> QED BY <1>1, <2>2, Zenon
<1>9. /\ SchedOK(i) /\ i.next_tid = n + 1 /\ i.current = sched.current
      /\ DeadTids(i) = D \ {n} /\ Asleep(i) = B \cup {n}
  <2>1. i = S!InsertTask(Reserved(sched), n, TRUE)
    BY Zenon DEF Reserved
  <2> HIDE DEF i
  <2> QED BY <1>1, <1>2, <2>1, SpawnView, Zenon
<1> HIDE DEF i
<1>10. /\ SchedOK(s) /\ s.next_tid = i.next_tid /\ s.current = i.current
       /\ DeadTids(s) = DeadTids(i) /\ Asleep(s) = Asleep(i) \ {n}
  BY <1>9, UnblockView
<1> HIDE DEF s, P, f, D, B
<1>11. /\ s.next_tid = n + 1 /\ DeadTids(s) = D \ {n} /\ Asleep(s) = B
       /\ s.current[0] \notin Asleep(s)
  BY <1>2, <1>6, <1>9, <1>10, Zenon
<1>12. WorldOf(s, P, slots_used', fd_tables', f)
  BY <1>8, <1>11, Zenon DEF WorldOf
<1> QED BY <1>1, <1>2, <1>10, <1>11, <1>12, TrapReturns, Zenon

-----------------------------------------------------------------------------
(* The invariant.                                                          *)

(* The frames when the scheduler starts.                                   *)
LEMMA BootFrames ==
    ASSUME Init
    PROVE  /\ frame \in [Tid -> Frame]
           /\ \A t \in Tid : /\ frame[t].slot = 0 /\ frame[t].dead = {}
                             /\ frame[t].pc \in {"drain", "net", "yield"}
                             /\ frame[t].role # "user"
                             /\ frame[t].pc \in PcsOf(frame[t].role)
                             /\ t \notin {1, 2} => frame[t] = Idle
<1>1. 0 \in Tid /\ {} \in SUBSET Pid
  BY TableConstants DEF Tid
<1>2. /\ StartAs("sup", "drain") \in Frame
      /\ StartAs("sup", "drain").role = "sup"
      /\ StartAs("sup", "drain").pc = "drain"
      /\ StartAs("sup", "drain").slot = 0 /\ StartAs("sup", "drain").dead = {}
      /\ StartAs("net", "net") \in Frame
      /\ StartAs("net", "net").role = "net"
      /\ StartAs("net", "net").pc = "net"
      /\ StartAs("net", "net").slot = 0 /\ StartAs("net", "net").dead = {}
      /\ Idle \in Frame /\ Idle.role = "idle" /\ Idle.pc = "yield"
      /\ Idle.slot = 0 /\ Idle.dead = {}
  BY ONLY <1>1, Zenon DEF StartAs, Idle, Frame, Pcs
<1>3. ASSUME NEW w, w \in {StartAs("sup", "drain"), StartAs("net", "net"), Idle}
      PROVE  /\ w \in Frame /\ w.slot = 0 /\ w.dead = {}
             /\ w.pc \in {"drain", "net", "yield"} /\ w.role # "user"
             /\ w.pc \in PcsOf(w.role)
  BY <1>2, <1>3, RolePcs
<1>4. frame = [t \in Tid |-> CASE t = 1 -> StartAs("sup", "drain")
                               [] t = 2 -> StartAs("net", "net")
                               [] OTHER -> Idle]
  BY Zenon DEF Init
<1> DEFINE a == StartAs("sup", "drain")
           b == StartAs("net", "net")
<1> HIDE DEF a, b
<1>5. \A t \in Tid : /\ frame[t] \in {a, b, Idle}
                     /\ t \notin {1, 2} => frame[t] = Idle
  BY <1>4, Zenon DEF a, b
<1>6. \A t \in Tid : frame[t] \in Frame
  BY <1>3, <1>5, Zenon DEF a, b
<1>7. frame \in [Tid -> Frame]
  BY <1>4, <1>6, Zenon
<1> QED BY <1>3, <1>5, <1>7, Zenon DEF a, b

(* The process table when the scheduler starts: pid 1, of task 1.          *)
LEMMA BootTable ==
    ASSUME Init
    PROVE  /\ TableType(3, ptab) /\ Kinship(ptab) /\ ptab.next_pid = 2
           /\ DOMAIN ptab.table = {1}
           /\ ptab.table[1].slot = 0 /\ ptab.table[1].state = "Running"
<1> DEFINE e == [table |-> << >>, by_tid |-> << >>, next_pid |-> 1]
           n == 3
           i == 1
           z == 0
           name == "init-sup"
<1>1. /\ e.next_pid = 1 /\ DOMAIN e.table = {} /\ DOMAIN e.by_tid = {}
      /\ e = [table |-> e.table, by_tid |-> e.by_tid, next_pid |-> e.next_pid]
  OBVIOUS
<1>2. ptab = RegisterProcess(e, name, i, z, z)
  BY Zenon DEF Init
<1> HIDE DEF e
<1>3. TableType(n, e) /\ Kinship(e) /\ PidOfTid(e, z) = 0
  BY <1>1 DEF TableType, Kinship, PidOfTid
<1>4. /\ n \in Nat /\ e.next_pid \in Pid /\ i \in 1 .. n - 1 /\ i \in Tid
      /\ z \in Slot \cup {0} /\ i \notin DOMAIN e.by_tid
      /\ name \in {"init-sup", "init", "ssh-shell", "program"} /\ i = 1
  BY <1>1, TableConstants DEF Pid, Tid
<1> HIDE DEF n, i, z, name
<1>5. Registered(n, e, ptab, i, z, z)
  BY <1>2, <1>3, <1>4, RegisterFacts, Zenon
<1>6. Kinship(ptab)
  BY <1>2, <1>3, <1>4, RegisterKin, Zenon
<1> QED BY <1>1, <1>5, <1>6 DEF Registered, n, z

(* The invariant holds when the scheduler starts.                          *)
LEMMA InitIInv ==
    ASSUME SchedulerView PROVE Init => IInv
<1> SUFFICES ASSUME Init PROVE IInv
  BY Zenon
<1> DEFINE D == Tid \ {0, 1, 2}
           B == {}
           n == 3
<1>1. /\ SchedOK(sched) /\ sched.next_tid = n
      /\ DeadTids(sched) = D /\ Asleep(sched) = B
  BY Zenon DEF SchedulerView, Booted, Init
<1>2. /\ slots_used = {} /\ fd_tables = {1} /\ mode = "task" /\ sessions = 0
      /\ need_resched \in [{0} -> BOOLEAN]
  BY Zenon DEF Init
<1>3. n \in 1 .. TidMax /\ fd_tables \subseteq Pid
  BY <1>2, TableConstants DEF Pid
<1>4. TasksOK(D, B, n, ptab, fd_tables, frame)
  <2> SUFFICES ASSUME NEW t \in Tid
               PROVE  TaskOK(D, B, n, ptab, fd_tables, t, frame[t])
    BY Zenon DEF TasksOK
  <2>1. t = 0 \/ t >= n => t \notin {1, 2}
    BY DEF Tid
  <2>2. t \in D => t \notin {1, 2}
    BY Zenon
  <2>3. frame[t].pc \notin StartPcs \cup ReapPcs \cup {"spawn", "wait"}
    BY BootFrames, Zenon DEF StartPcs, ReapPcs
  <2>4. frame[t] \in Frame
    BY BootFrames, Zenon
  <2> HIDE DEF D, B, n
  <2> QED BY <2>1, <2>2, <2>3, <2>4, BootFrames DEF TaskOK, Idle, StartPcs
<1>5. PairsOK(D, ptab, fd_tables, frame)
  BY BootFrames, Zenon DEF PairsOK, Registers, StartPcs
<1>6. CountOK(n, ptab, frame)
  <2>1. {t \in Tid : frame[t].pc = "register"} = {}
    BY BootFrames, Zenon
  <2>2. Cardinality({t \in Tid : frame[t].pc = "register"}) = 0
    BY <2>1, FS_EmptySet, Zenon
  <2>3. ptab.next_pid + 0 < n
    BY BootTable
  <2> QED BY <2>2, <2>3, Zenon DEF CountOK
<1>7. SlotsOK(ptab, slots_used, frame)
  <2>1. 0 \notin Slot
    BY DEF Slot
  <2> QED BY <1>2, <2>1, BootFrames, BootTable, Zenon DEF SlotsOK
<1>8. Ends(D, ptab, frame)
  BY BootTable, Zenon DEF Ends
<1>9. World(D, B, n, ptab, slots_used, fd_tables, frame)
  BY <1>2, <1>3, <1>4, <1>5, <1>6, <1>7, <1>8, BootFrames, BootTable DEF World
<1>10. WorldOf(sched, ptab, slots_used, fd_tables, frame)
  BY <1>1, <1>9, Zenon DEF WorldOf
<1>11. cur \notin Asleep(sched) /\ sessions \in 0 .. MaxSessions
  BY <1>1, <1>2, ProcessConstants
<1> QED BY <1>1, <1>2, <1>10, <1>11, Zenon DEF IInv

(* A step of a user task keeps it.                                         *)
LEMMA UserStepKeeps ==
    ASSUME SchedulerView, IInv, NEW t \in Tid, UserStep(t) PROVE IInv'
<1>1. CASE SysYield(t)
  BY <1>1, SysYieldKeeps, Zenon
<1>2. CASE SysExit(t)
  BY <1>2, SysExitKeeps, Zenon
<1>3. CASE SysSpawn(t)
  BY <1>3, SysSpawnKeeps, Zenon
<1>4. CASE UserWait(t)
  BY <1>4, UserWaitKeeps, Zenon
<1>5. CASE \E pid \in Pid, sig \in Sigs : SysKill(t, pid, sig)
  BY <1>5, SysKillKeeps, Zenon
<1>6. CASE EnterUser(t)
  BY <1>6, EnterUserKeeps, Zenon
<1> QED BY ONLY UserStep(t), <1>1, <1>2, <1>3, <1>4, <1>5, <1>6, Zenon DEF UserStep

(* A step of a kernel task keeps it.                                       *)
LEMMA KernelStepKeeps ==
    ASSUME SchedulerView, IInv, NEW t \in Tid, KernelStep(t) PROVE IInv'
<1>1. CASE Drain(t)
  BY <1>1, DrainKeeps, Zenon
<1>2. CASE Sweep(t)
  BY <1>2, SweepKeeps, Zenon
<1>3. CASE Reap(t)
  BY <1>3, ReapKeeps, Zenon
<1>4. CASE GiveBackSlot(t)
  BY <1>4, GiveBackSlotKeeps, Zenon
<1>5. CASE CleanupFds(t)
  BY <1>5, CleanupFdsKeeps, Zenon
<1>6. CASE Load(t)
  BY <1>6, LoadKeeps, Zenon
<1>7. CASE Spawn(t)
  BY <1>7, SpawnKeeps, Zenon
<1>8. CASE Unslot(t)
  BY <1>8, UnslotKeeps, Zenon
<1>9. CASE Register(t)
  BY <1>9, RegisterKeeps, Zenon
<1>10. CASE Arrange(t)
  BY <1>10, ArrangeKeeps, Zenon
<1>11. CASE StartChild(t)
  BY <1>11, StartChildKeeps, Zenon
<1>12. CASE KernelWait(t)
  BY <1>12, KernelWaitKeeps, Zenon
<1>13. CASE KernelYield(t)
  BY <1>13, KernelYieldKeeps, Zenon
<1>14. CASE NetLoop(t)
  BY <1>14, NetLoopKeeps, Zenon
<1>15. CASE Prompt(t)
  BY <1>15, PromptKeeps, Zenon
<1>16. CASE ExitMark(t)
  BY <1>16, ExitMarkKeeps, Zenon
<1>17. CASE ExitFlag(t)
  BY <1>17, ExitFlagKeeps, Zenon
<1>18. CASE ExitTrap(t)
  BY <1>18, ExitTrapKeeps, Zenon
<1> QED BY ONLY KernelStep(t), <1>1, <1>2, <1>3, <1>4, <1>5, <1>6, <1>7, <1>8,
           <1>9, <1>10, <1>11, <1>12, <1>13, <1>14, <1>15, <1>16, <1>17, <1>18, Zenon
        DEF KernelStep

(* Every step keeps the invariant.                                         *)
LEMMA StepIInv ==
    ASSUME SchedulerView PROVE IInv /\ [Next]_vars => IInv'
<1> SUFFICES ASSUME IInv, [Next]_vars PROVE IInv'
  BY Zenon
<1>1. CASE Timer
  BY <1>1, TimerKeeps, Zenon
<1>2. CASE CheckSignals
  BY <1>2, CheckSignalsKeeps, Zenon
<1>3. CASE \E t \in Tid : UserStep(t) \/ KernelStep(t)
  BY <1>3, UserStepKeeps, KernelStepKeeps, Zenon
<1>4. CASE UNCHANGED vars
  <2>1. /\ sched' = sched /\ ptab' = ptab /\ slots_used' = slots_used
        /\ fd_tables' = fd_tables /\ frame' = frame /\ mode' = mode
        /\ need_resched' = need_resched /\ sessions' = sessions
    BY <1>4, Zenon DEF vars
  <2>2. cur' = cur
    BY <2>1, Zenon DEF cur
  <2> QED BY ONLY IInv, <2>1, <2>2, Zenon DEF IInv
<1> QED BY ONLY [Next]_vars, <1>1, <1>2, <1>3, <1>4, Zenon DEF Next
=============================================================================
