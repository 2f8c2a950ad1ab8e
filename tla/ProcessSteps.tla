---------------------------- MODULE ProcessSteps ----------------------------
(***************************************************************************)
(* The inductive invariant of Process, and the steps of the kernel between *)
(* traps, which keep it.  A switch changes nothing the World sees, so the  *)
(* epilogue of a trap is dealt with once (EpilogueKeeps), and each handler *)
(* is a step from one World to another.                                    *)
(***************************************************************************)
EXTENDS Process, ProcessWorld

DeadTids(s) == {t \in Tid : ~S!Alive(s, t) \/ s.tasks[t] = "Zombie"}
Asleep(s) == {t \in Tid : S!Alive(s, t) /\ s.tasks[t] = "Blocked"}

SchedOK(s) ==
    /\ s \in S!SchedType
    /\ S!SchedInv(s, {0})
    /\ DOMAIN s.tasks \subseteq 0 .. s.next_tid - 1

WorldOf(s, P, U, F, f) ==
    World(DeadTids(s), Asleep(s), s.next_tid, P, U, F, f)

(* The inductive invariant: nothing Blocked is on the core, and signals    *)
(* are owed only to a user task that has some.                             *)
IInv ==
    /\ SchedOK(sched)
    /\ WorldOf(sched, ptab, slots_used, fd_tables, frame)
    /\ cur \notin Asleep(sched)
    /\ need_resched \in [{0} -> BOOLEAN]
    /\ mode \in {"task", "signals"}
    /\ mode = "signals" => SignalDue(sched, ptab, frame)
    /\ sessions \in 0 .. MaxSessions
-----------------------------------------------------------------------------
(* What a step of the scheduler does to what IInv sees of it: the tids     *)
(* that name no live task (DeadTids) and the tasks that sleep (Asleep).    *)

(* The fields of the Scheduler struct that the views are made of.          *)
Fields(s) ==
    /\ DOMAIN s.tasks \subseteq Tid
    /\ s.current[0] \in Tid /\ s.current[0] \in DOMAIN s.tasks
    /\ s.next_tid \in 1 .. TidMax
    /\ s.current \in [{0} -> Tid]

(* preempt_switch ends no task, wakes none and leaves a Running one.       *)
Switched(s, r) ==
    /\ SchedOK(r) /\ r.next_tid = s.next_tid
    /\ DeadTids(r) = DeadTids(s) /\ Asleep(r) = Asleep(s)
    /\ r.current[0] \notin Asleep(r)

(* mark_zombie and block_current_noswitch.                                 *)
SetAside(s, st, r) ==
    /\ SchedOK(r) /\ r.next_tid = s.next_tid /\ r.current = s.current
    /\ st = "Zombie" => /\ DeadTids(r) = DeadTids(s) \cup {s.current[0]}
                        /\ Asleep(r) = Asleep(s) \ {s.current[0]}
    /\ st = "Blocked" => /\ DeadTids(r) = DeadTids(s) \ {s.current[0]}
                         /\ Asleep(r) = Asleep(s) \cup {s.current[0]}

(* unblock_task, of any tid.                                               *)
Woken(s, t, r) ==
    /\ SchedOK(r) /\ r.next_tid = s.next_tid /\ r.current = s.current
    /\ DeadTids(r) = DeadTids(s) /\ Asleep(r) = Asleep(s) \ {t}

(* tick counts down and touches no task.                                   *)
Ticked(s, r) ==
    /\ SchedOK(r) /\ r.next_tid = s.next_tid /\ r.current = s.current
    /\ DeadTids(r) = DeadTids(s) /\ Asleep(r) = Asleep(s)

(* spawn_blocked: both lock sections of spawn_inner.                       *)
Reserved(s) == [s EXCEPT !.next_tid = @ + 1]
Born(s, r) ==
    /\ SchedOK(r) /\ r.next_tid = s.next_tid + 1 /\ r.current = s.current
    /\ DeadTids(r) = DeadTids(s) \ {s.next_tid}
    /\ Asleep(r) = Asleep(s) \cup {s.next_tid}

(* main: three idle and kernel tasks, one of them dispatched.              *)
Booted(r) ==
    /\ SchedOK(r) /\ r.next_tid = 3
    /\ DeadTids(r) = Tid \ {0, 1, 2} /\ Asleep(r) = {}

(* All of it.  SchedulerKnown, in ProcessProofs, proves it.                *)
SchedulerView ==
    /\ \A s : SchedOK(s) => /\ Fields(s)
                            /\ Switched(s, S!PreemptSwitch(s, 0))
                            /\ Ticked(s, S!TickDown(s))
    /\ \A s, t : SchedOK(s) => Woken(s, t, S!UnblockTask(s, t))
    /\ \A s : \A st \in {"Blocked", "Zombie"} :
          SchedOK(s) /\ s.current[0] # 0 => SetAside(s, st, S!PutAside(s, 0, st))
    /\ \A s : SchedOK(s) /\ s.next_tid + 1 <= TidMax
                => Born(s, S!InsertTask(Reserved(s), s.next_tid, TRUE))
    /\ Booted(BootSched)

(* Each part of it.                                                        *)
LEMMA SchedTypes ==
    ASSUME SchedulerView, NEW s, SchedOK(s)
    PROVE  /\ DOMAIN s.tasks \subseteq Tid
           /\ s.current[0] \in Tid /\ s.current[0] \in DOMAIN s.tasks
           /\ s.next_tid \in 1 .. TidMax
           /\ s.current \in [{0} -> Tid]
BY Zenon DEF SchedulerView, Fields

(* ... of preempt_switch,                                                  *)
LEMMA SwitchView ==
    ASSUME SchedulerView, NEW s, SchedOK(s), NEW r, r = S!PreemptSwitch(s, 0)
    PROVE  /\ SchedOK(r) /\ r.next_tid = s.next_tid
           /\ DeadTids(r) = DeadTids(s) /\ Asleep(r) = Asleep(s)
           /\ r.current[0] \notin Asleep(r)
BY Zenon DEF SchedulerView, Switched

(* ... of mark_zombie and block_current_noswitch,                          *)
LEMMA PutAsideView ==
    ASSUME SchedulerView, NEW s, SchedOK(s), s.current[0] # 0,
           NEW st \in {"Blocked", "Zombie"}, NEW r, r = S!PutAside(s, 0, st)
    PROVE  /\ SchedOK(r) /\ r.next_tid = s.next_tid /\ r.current = s.current
           /\ st = "Zombie" => /\ DeadTids(r) = DeadTids(s) \cup {s.current[0]}
                               /\ Asleep(r) = Asleep(s) \ {s.current[0]}
           /\ st = "Blocked" => /\ DeadTids(r) = DeadTids(s) \ {s.current[0]}
                                /\ Asleep(r) = Asleep(s) \cup {s.current[0]}
<1>1. SetAside(s, st, r)
  BY Zenon DEF SchedulerView
<1> QED BY <1>1, Zenon DEF SetAside

(* ... of unblock_task,                                                    *)
LEMMA UnblockView ==
    ASSUME SchedulerView, NEW s, SchedOK(s), NEW t, NEW r, r = S!UnblockTask(s, t)
    PROVE  /\ SchedOK(r) /\ r.next_tid = s.next_tid /\ r.current = s.current
           /\ DeadTids(r) = DeadTids(s) /\ Asleep(r) = Asleep(s) \ {t}
BY Zenon DEF SchedulerView, Woken

(* ... of tick,                                                            *)
LEMMA TickView ==
    ASSUME SchedulerView, NEW s, SchedOK(s), NEW r, r = S!TickDown(s)
    PROVE  /\ SchedOK(r) /\ r.next_tid = s.next_tid /\ r.current = s.current
           /\ DeadTids(r) = DeadTids(s) /\ Asleep(r) = Asleep(s)
BY Zenon DEF SchedulerView, Ticked

(* ... and of spawn_blocked.                                               *)
LEMMA SpawnView ==
    ASSUME SchedulerView, NEW s, SchedOK(s), s.next_tid + 1 <= TidMax,
           NEW r, r = S!InsertTask(Reserved(s), s.next_tid, TRUE)
    PROVE  /\ SchedOK(r) /\ r.next_tid = s.next_tid + 1 /\ r.current = s.current
           /\ DeadTids(r) = DeadTids(s) \ {s.next_tid}
           /\ Asleep(r) = Asleep(s) \cup {s.next_tid}
BY Zenon DEF SchedulerView, Born

(* ExitSched of the running task: the parent wakes, the task is marked.    *)
LEMMA ExitView ==
    ASSUME SchedulerView, NEW s, SchedOK(s), s.current[0] # 0, NEW P,
           NEW r, r = ExitSched(s, P, s.current[0])
    PROVE  /\ SchedOK(r) /\ r.next_tid = s.next_tid /\ r.current = s.current
           /\ DeadTids(r) = DeadTids(s) \cup {s.current[0]}
           /\ Asleep(r) \subseteq Asleep(s) \ {s.current[0]}
           /\ Asleep(s) \ {s.current[0], ParentTask(P, s.current[0])} \subseteq Asleep(r)
           /\ ParentTask(P, s.current[0]) = 0
                 \/ ParentTask(P, s.current[0]) \notin Asleep(r)
<1> DEFINE t == s.current[0]
           x == ParentTask(P, t)
           a == S!UnblockTask(s, x)
           b == IF x = 0 THEN s ELSE a
           z == "Zombie"
<1>1. r = S!PutAside(b, 0, z)
  BY Zenon DEF ExitSched, S!MarkZombie
<1>2. /\ SchedOK(a) /\ a.next_tid = s.next_tid /\ a.current = s.current
      /\ DeadTids(a) = DeadTids(s) /\ Asleep(a) = Asleep(s) \ {x}
  BY UnblockView, Zenon
<1> HIDE DEF a, x
<1>3. /\ SchedOK(b) /\ b.next_tid = s.next_tid /\ b.current = s.current
      /\ DeadTids(b) = DeadTids(s)
      /\ Asleep(b) = IF x = 0 THEN Asleep(s) ELSE Asleep(s) \ {x}
  BY <1>2, Zenon
<1>4. z \in {"Blocked", "Zombie"} /\ b.current[0] # 0
  BY <1>3, Zenon
<1> HIDE DEF b
<1>5. /\ SchedOK(r) /\ r.next_tid = b.next_tid /\ r.current = b.current
      /\ z = "Zombie" => /\ DeadTids(r) = DeadTids(b) \cup {b.current[0]}
                         /\ Asleep(r) = Asleep(b) \ {b.current[0]}
  <2> HIDE DEF z
  <2> QED BY <1>1, <1>3, <1>4, PutAsideView
<1> QED BY <1>3, <1>5, Zenon DEF x
-----------------------------------------------------------------------------
(* One lemma per step.                                                     *)

(* The epilogue of a trap keeps the invariant if the handler does.         *)
LEMMA EpilogueKeeps ==
    ASSUME SchedulerView, NEW s, SchedOK(s),
           WorldOf(s, ptab', slots_used', fd_tables', frame'),
           \/ sched' = S!PreemptSwitch(s, 0)
           \/ sched' = s /\ s.current[0] \notin Asleep(s),
           need_resched' = [c \in {0} |-> FALSE],
           mode' = ModeAfter(sched', ptab', frame'),
           sessions' \in 0 .. MaxSessions
    PROVE  IInv'
<1>1. /\ SchedOK(sched') /\ sched'.next_tid = s.next_tid
      /\ DeadTids(sched') = DeadTids(s) /\ Asleep(sched') = Asleep(s)
      /\ sched'.current[0] \notin Asleep(sched')
  <2>1. CASE sched' = S!PreemptSwitch(s, 0)
    BY <2>1, SwitchView, Zenon
  <2>2. CASE sched' = s /\ s.current[0] \notin Asleep(s)
    BY <2>2, Zenon
  <2> QED BY <2>1, <2>2, Zenon
<1>2. WorldOf(sched', ptab', slots_used', fd_tables', frame')
  BY <1>1, Zenon DEF WorldOf
<1>3. /\ mode' \in {"task", "signals"}
      /\ mode' = "signals" => SignalDue(sched', ptab', frame')
  BY Zenon DEF ModeAfter
<1>4. need_resched' \in [{0} -> BOOLEAN]
  BY Zenon
<1> QED BY <1>1, <1>2, <1>3, <1>4, Zenon DEF IInv, cur

(* A lock section of a kernel task keeps it if the world stays sound.      *)
LEMMA SectionKeeps ==
    ASSUME SchedOK(sched'), sched'.current[0] \notin Asleep(sched'),
           WorldOf(sched', ptab', slots_used', fd_tables', frame'),
           need_resched' \in [{0} -> BOOLEAN], mode' = "task",
           sessions' \in 0 .. MaxSessions
    PROVE  IInv'
BY Zenon DEF IInv, cur

(* What the running task may rely on.                                      *)
LEMMA Running ==
    ASSUME IInv, NEW t \in Tid, cur = t
    PROVE  /\ t \notin Asleep(sched)
           /\ frame \in [Tid -> Frame] /\ frame[t] \in Frame
           /\ TaskOK(DeadTids(sched), Asleep(sched), sched.next_tid, ptab,
                     fd_tables, t, frame[t])
           /\ SchedOK(sched) /\ TableType(sched.next_tid, ptab) /\ Kinship(ptab)
           /\ SlotsOK(ptab, slots_used, frame)
           /\ slots_used \subseteq Slot /\ fd_tables \subseteq Pid
           /\ World(DeadTids(sched), Asleep(sched), sched.next_tid, ptab,
                    slots_used, fd_tables, frame)
           /\ need_resched \in [{0} -> BOOLEAN] /\ sessions \in 0 .. MaxSessions
           /\ sched.next_tid \in 1 .. TidMax /\ sched.next_tid \in Nat
           /\ frame[t].role # "idle" => t # 0 /\ ~(t >= sched.next_tid)
<1>1. World(DeadTids(sched), Asleep(sched), sched.next_tid, ptab,
            slots_used, fd_tables, frame)
  BY Zenon DEF IInv, WorldOf
<1>2. TaskOK(DeadTids(sched), Asleep(sched), sched.next_tid, ptab,
             fd_tables, t, frame[t])
  BY <1>1, Zenon DEF World, TasksOK
<1>3. sched.next_tid \in 1 .. TidMax /\ sched.next_tid \in Nat
  BY <1>1 DEF World
<1>4. frame[t].role # "idle" => t # 0 /\ ~(t >= sched.next_tid)
  BY <1>2, <1>3 DEF TaskOK, Idle
<1> QED BY <1>1, <1>2, <1>3, <1>4, Zenon DEF IInv, World

(* A lock section of the running task t that leaves the scheduler alone.   *)
Section(t) ==
    /\ mode = "task" /\ cur = t /\ mode' = "task" /\ sched' = sched
    /\ need_resched' \in [{0} -> BOOLEAN] /\ sessions' \in 0 .. MaxSessions

(* Such a section, from which the task comes with frame r.                 *)
LEMMA MoveKeeps ==
    ASSUME IInv, NEW t \in Tid, Section(t), NEW U,
           World(DeadTids(sched), Asleep(sched), sched.next_tid, ptab', U,
                 fd_tables', frame),
           NEW r, frame' = [frame EXCEPT ![t] = r], r.role = frame[t].role,
           TaskOK(DeadTids(sched), Asleep(sched), sched.next_tid, ptab',
                  fd_tables', t, r),
           frame[t].pc # "register", r.pc # "register",
           r.pc \in StartPcs
              => frame[t].pc \in StartPcs /\ r.tid = frame[t].tid,
           SlotsOK(ptab', slots_used', frame'), slots_used' \in SUBSET Slot
    PROVE  IInv'
<1>1. cur = t
  BY Zenon DEF Section
<1>2. t \notin Asleep(sched) /\ SchedOK(sched)
  BY <1>1, Running, Zenon
<1>3. World(DeadTids(sched), Asleep(sched), sched.next_tid, ptab',
            slots_used', fd_tables', frame')
  BY <1>2, FrameStep, Zenon
<1>4. WorldOf(sched', ptab', slots_used', fd_tables', frame')
  BY <1>3, Zenon DEF WorldOf, Section
<1> QED BY <1>1, <1>2, <1>4, SectionKeeps, Zenon DEF Section, cur

(* The running task goes to x, where it uses none of its locals.           *)
Goes(t, x) ==
    /\ Section(t) /\ frame' = [frame EXCEPT ![t].pc = x]
    /\ frame[t].role # "idle" /\ x \in Pcs /\ x \in PcsOf(frame[t].role)
    /\ x \notin StartPcs \cup ReapPcs
    /\ x = "spawn" => frame[t].role = "net" /\ frame[t].slot = 0
    /\ frame[t].slot # 0 => x \in SlotPcs
    /\ frame[t].pc # "register"
    /\ frame[t].role # "user" => frame[t].pc \notin ExitPcs \/ x \in ExitPcs
    /\ UNCHANGED <<ptab, slots_used, fd_tables>>

(* Going there keeps the invariant.                                        *)
LEMMA GotoKeeps ==
    ASSUME IInv, NEW t \in Tid, NEW x, Goes(t, x)
    PROVE  IInv'
<1> DEFINE r == frame'[t]
<1>1. cur = t /\ frame[t].role # "idle"
  BY Zenon DEF Goes, Section
<1>2. /\ t \notin Asleep(sched) /\ frame \in [Tid -> Frame]
      /\ TaskOK(DeadTids(sched), Asleep(sched), sched.next_tid, ptab,
                fd_tables, t, frame[t])
      /\ SlotsOK(ptab, slots_used, frame)
      /\ TableType(sched.next_tid, ptab)
      /\ World(DeadTids(sched), Asleep(sched), sched.next_tid, ptab,
               slots_used, fd_tables, frame)
      /\ slots_used \in SUBSET Slot /\ t # 0 /\ ~(t >= sched.next_tid)
  BY <1>1, Running, Zenon
<1>3. Moved(frame, frame', t, x, frame[t].slot, frame[t].tid, frame[t].pid,
            frame[t].dead)
  BY <1>2, PutPc, Zenon DEF Goes
<1>4. /\ frame' = [frame EXCEPT ![t] = r] /\ r \in Frame
      /\ r.role = frame[t].role /\ r.pc = x /\ r.slot = frame[t].slot
      /\ r.dead = frame[t].dead
  BY <1>3, Zenon DEF Moved
<1> HIDE DEF r
<1>5. t \in DeadTids(sched) /\ frame[t].role # "user" => x \in ExitPcs
  BY <1>1, <1>2, Zenon DEF TaskOK, Goes, Frame
<1>6. r.pc # "register" /\ frame[t].pc # "register" /\ r.pc \notin StartPcs
  BY <1>4, Zenon DEF Goes, StartPcs
<1>7. TaskOK(DeadTids(sched), Asleep(sched), sched.next_tid, ptab,
             fd_tables, t, r)
  BY <1>2, <1>4, <1>5, <1>6, GotoTask, Zenon DEF Goes
<1>8. SlotsOK(ptab, slots_used, frame')
  BY <1>2, <1>4, SlotsSteps, Zenon DEF TableType
<1>9. /\ Section(t)
      /\ ptab' = ptab /\ slots_used' = slots_used /\ fd_tables' = fd_tables
  BY Zenon DEF Goes
<1> QED BY <1>2, <1>4, <1>6, <1>7, <1>8, <1>9, MoveKeeps, Zenon

(* What Running says of a task whose PC is known.                          *)
LEMMA Here ==
    ASSUME IInv, NEW t \in Tid, cur = t
    PROVE  /\ frame[t] \in Frame /\ frame[t].pc \in PcsOf(frame[t].role)
           /\ frame[t].pc \notin SlotPcs => frame[t].slot = 0
           /\ frame[t].role \notin {"idle", "user"} /\ frame[t].pc \notin ExitPcs
                 => t \notin DeadTids(sched)
BY Running, Zenon DEF TaskOK, Frame

(* task_trampoline reaches the program.                                    *)
LEMMA EnterUserKeeps ==
    ASSUME IInv, NEW t \in Tid, EnterUser(t) PROVE IInv'
<1>1. cur = t /\ frame[t].pc = "trampoline"
  BY Zenon DEF EnterUser, At, Runs
<1>2. need_resched \in [{0} -> BOOLEAN] /\ sessions \in 0 .. MaxSessions
  BY <1>1, Running, Zenon
<1>3. frame[t].role = "user" /\ frame[t].slot = 0
  BY <1>1, Here, PcRoles, Zenon DEF SlotPcs
<1>4. Section(t) /\ UNCHANGED <<ptab, slots_used, fd_tables>>
  BY <1>1, <1>2, Zenon DEF EnterUser, At, Runs, Section
<1> DEFINE x == "user"
<1>5. frame' = [frame EXCEPT ![t].pc = x]
  BY Zenon DEF EnterUser, Goto
<1>6. /\ x \in Pcs /\ x \in PcsOf(frame[t].role)
      /\ x \notin StartPcs \cup ReapPcs /\ x # "spawn"
  BY <1>3, RolePcs, Zenon DEF Pcs, StartPcs, ReapPcs
<1>7. Goes(t, x)
  BY <1>1, <1>3, <1>4, <1>5, <1>6, Zenon DEF Goes
<1> HIDE DEF x
<1> QED BY <1>7, GotoKeeps, Zenon

(* run_session: run a program, or return to task_trampoline.               *)
LEMMA PromptKeeps ==
    ASSUME IInv, NEW t \in Tid, Prompt(t) PROVE IInv'
<1>1. cur = t /\ frame[t].pc = "prompt"
  BY Zenon DEF Prompt, At, Runs
<1>2. need_resched \in [{0} -> BOOLEAN] /\ sessions \in 0 .. MaxSessions
  BY <1>1, Running, Zenon
<1>3. frame[t].role = "shell" /\ frame[t].slot = 0
  BY <1>1, Here, PcRoles, Zenon DEF SlotPcs
<1>4. Section(t) /\ UNCHANGED <<ptab, slots_used, fd_tables>>
  BY <1>1, <1>2, Zenon DEF Prompt, At, Runs, Section, Local
<1>5. PICK x \in {"load", "exit_mark"} : frame' = [frame EXCEPT ![t].pc = x]
  BY Zenon DEF Prompt, Goto
<1>6. /\ x \in Pcs /\ x \in PcsOf(frame[t].role)
      /\ x \notin StartPcs \cup ReapPcs /\ x # "spawn"
      /\ frame[t].pc \notin ExitPcs
  BY <1>1, <1>3, RolePcs, Zenon DEF Pcs, StartPcs, ReapPcs, ExitPcs
<1>7. Goes(t, x)
  BY <1>1, <1>3, <1>4, <1>5, <1>6, Zenon DEF Goes
<1> QED BY <1>7, GotoKeeps, Zenon

(* scheduler::exit asks for a resched.                                     *)
LEMMA ExitFlagKeeps ==
    ASSUME IInv, NEW t \in Tid, ExitFlag(t) PROVE IInv'
<1>1. cur = t /\ frame[t].pc = "exit_flag"
  BY Zenon DEF ExitFlag, At, Runs
<1>2. sessions \in 0 .. MaxSessions
  BY <1>1, Running, Zenon
<1>3. frame[t].role = "shell" /\ frame[t].slot = 0
  BY <1>1, Here, PcRoles, Zenon DEF SlotPcs
<1>4. Section(t) /\ UNCHANGED <<ptab, slots_used, fd_tables>>
  BY <1>1, <1>2, Zenon DEF ExitFlag, At, Runs, Section
<1> DEFINE x == "exit_trap"
<1>5. frame' = [frame EXCEPT ![t].pc = x]
  BY Zenon DEF ExitFlag, Goto
<1>6. /\ x \in Pcs /\ x \in PcsOf(frame[t].role)
      /\ x \notin StartPcs \cup ReapPcs /\ x # "spawn" /\ x \in ExitPcs
  BY <1>3, RolePcs, Zenon DEF Pcs, StartPcs, ReapPcs, ExitPcs
<1>7. Goes(t, x)
  BY <1>1, <1>3, <1>4, <1>5, <1>6, Zenon DEF Goes
<1> HIDE DEF x
<1> QED BY <1>7, GotoKeeps, Zenon

(* A turn of net_task begins: perhaps a session shell.                     *)
LEMMA NetLoopKeeps ==
    ASSUME IInv, NEW t \in Tid, NetLoop(t) PROVE IInv'
<1>1. cur = t /\ frame[t].pc = "net"
  BY Zenon DEF NetLoop, At, Runs
<1>2. /\ need_resched \in [{0} -> BOOLEAN] /\ sessions \in 0 .. MaxSessions
      /\ sessions' \in 0 .. MaxSessions
  <2>1. need_resched \in [{0} -> BOOLEAN] /\ sessions \in 0 .. MaxSessions
    BY <1>1, Running, Zenon
  <2>2. \/ sessions' = sessions
        \/ sessions < MaxSessions /\ sessions' = sessions + 1
    BY Zenon DEF NetLoop
  <2> QED BY <2>1, <2>2, ProcessConstants
<1>3. frame[t].role = "net" /\ frame[t].slot = 0
  BY <1>1, Here, PcRoles, Zenon DEF SlotPcs
<1>4. Section(t) /\ UNCHANGED <<ptab, slots_used, fd_tables>>
  BY <1>1, <1>2, Zenon DEF NetLoop, At, Runs, Section, Local
<1>5. PICK x \in {"spawn", "sweep"} : frame' = [frame EXCEPT ![t].pc = x]
  BY Zenon DEF NetLoop, Goto
<1>6. /\ x \in Pcs /\ x \in PcsOf(frame[t].role)
      /\ x \notin StartPcs \cup ReapPcs /\ frame[t].pc \notin ExitPcs
  BY <1>1, <1>3, RolePcs, Zenon DEF Pcs, StartPcs, ReapPcs, ExitPcs
<1>7. Goes(t, x)
  BY <1>1, <1>3, <1>4, <1>5, <1>6, Zenon DEF Goes
<1> QED BY <1>7, GotoKeeps, Zenon

(* reap_orphans collects what it will reap: zombies, which stay zombies.   *)
LEMMA SweepKeeps ==
    ASSUME IInv, NEW t \in Tid, Sweep(t) PROVE IInv'
<1> DEFINE r == frame'[t]
           d == Orphans(ptab)
           x == "reap"
<1>1. cur = t /\ frame[t].pc = "sweep"
  BY Zenon DEF Sweep, At, Runs
<1>2. /\ frame[t].role \in {"sup", "net"} /\ frame[t].slot = 0
      /\ t \notin DeadTids(sched)
  BY <1>1, Here, PcRoles, Zenon DEF SlotPcs, ExitPcs
<1>3. /\ t \notin Asleep(sched) /\ frame \in [Tid -> Frame]
      /\ TaskOK(DeadTids(sched), Asleep(sched), sched.next_tid, ptab,
                fd_tables, t, frame[t])
      /\ SlotsOK(ptab, slots_used, frame) /\ TableType(sched.next_tid, ptab)
      /\ World(DeadTids(sched), Asleep(sched), sched.next_tid, ptab,
               slots_used, fd_tables, frame)
      /\ need_resched \in [{0} -> BOOLEAN] /\ sessions \in 0 .. MaxSessions
      /\ slots_used \in SUBSET Slot /\ t # 0 /\ ~(t >= sched.next_tid)
  BY <1>1, <1>2, Running, Zenon
<1>4. Section(t) /\ UNCHANGED <<ptab, slots_used, fd_tables>>
  BY <1>1, <1>3, Zenon DEF Sweep, At, Runs, Section, Local
<1>5. /\ d \in SUBSET Pid
      /\ \A q \in d : q < ptab.next_pid /\ IsZombie(ptab, q)
  BY <1>3 DEF Orphans, TableType, Pid
<1>6. frame' = [frame EXCEPT ![t].pc = x, ![t].dead = d] /\ x \in Pcs
  BY Zenon DEF Sweep, Pcs
<1> HIDE DEF d, x
<1>7. Moved(frame, frame', t, x, frame[t].slot, frame[t].tid, frame[t].pid, d)
  BY <1>3, <1>5, <1>6, PutPcDead, Zenon
<1>8. /\ frame' = [frame EXCEPT ![t] = r] /\ r \in Frame
      /\ r.role = frame[t].role /\ r.pc = "reap" /\ r.slot = frame[t].slot
      /\ r.dead = d
  BY <1>7, Zenon DEF Moved, x
<1> HIDE DEF r
<1>9. r.pc \in PcsOf(r.role) /\ r.pc \notin StartPcs \cup ReapPcs /\ r.slot = 0
  BY <1>2, <1>8, RolePcs, Zenon DEF StartPcs, ReapPcs
<1>10. TaskOK(DeadTids(sched), Asleep(sched), sched.next_tid, ptab,
              fd_tables, t, r)
  BY <1>2, <1>3, <1>5, <1>8, <1>9, GotoTask, Zenon
<1>11. SlotsOK(ptab, slots_used, frame')
  BY <1>3, <1>8, SlotsSteps, Zenon DEF TableType
<1>12. ptab' = ptab /\ slots_used' = slots_used /\ fd_tables' = fd_tables
  BY <1>4, Zenon
<1>13. frame[t].pc # "register" /\ r.pc # "register" /\ r.pc \notin StartPcs
  BY <1>1, <1>8, <1>9, Zenon
<1> QED BY <1>3, <1>4, <1>8, <1>10, <1>11, <1>12, <1>13, MoveKeeps, Zenon

(* slot_free, once the process that held the slot is removed.              *)
LEMMA GiveBackSlotKeeps ==
    ASSUME IInv, NEW t \in Tid, GiveBackSlot(t) PROVE IInv'
<1> DEFINE r == frame'[t]
           a == 0
           x == IF frame[t].pc = "drain_free" THEN "drain_fds" ELSE "reap_fds"
<1>1. cur = t /\ frame[t].pc \in {"drain_free", "reap_free"}
  BY Zenon DEF GiveBackSlot, At, Runs
<1>2. /\ frame[t].pc = "drain_free" => frame[t].role = "sup"
      /\ frame[t].role \in {"sup", "net"} /\ t \notin DeadTids(sched)
  BY <1>1, Here, PcRoles, Zenon DEF ExitPcs
<1>3. /\ t \notin Asleep(sched) /\ frame \in [Tid -> Frame]
      /\ TaskOK(DeadTids(sched), Asleep(sched), sched.next_tid, ptab,
                fd_tables, t, frame[t])
      /\ SlotsOK(ptab, slots_used, frame) /\ TableType(sched.next_tid, ptab)
      /\ World(DeadTids(sched), Asleep(sched), sched.next_tid, ptab,
               slots_used, fd_tables, frame)
      /\ need_resched \in [{0} -> BOOLEAN] /\ sessions \in 0 .. MaxSessions
      /\ slots_used \in SUBSET Slot /\ t # 0 /\ ~(t >= sched.next_tid)
  BY <1>1, <1>2, Running, Zenon
<1>4. Section(t) /\ UNCHANGED <<ptab, fd_tables>>
  BY <1>1, <1>3, Zenon DEF GiveBackSlot, At, Runs, Section, Local
<1>5. a \in Slot \cup {0} /\ x \in Pcs
  BY Zenon DEF Pcs
<1>6. /\ frame' = [frame EXCEPT ![t].slot = a, ![t].pc = x]
      /\ slots_used' = slots_used \ {frame[t].slot}
  BY Zenon DEF GiveBackSlot, FreeSlot
<1> HIDE DEF a, x
<1>7. Moved(frame, frame', t, x, a, frame[t].tid, frame[t].pid, frame[t].dead)
  BY <1>3, <1>5, <1>6, PutSlotPc, Zenon
<1>8. /\ frame' = [frame EXCEPT ![t] = r] /\ r \in Frame
      /\ r.role = frame[t].role /\ r.slot = 0 /\ r.pid = frame[t].pid
      /\ r.pc = IF frame[t].pc = "drain_free" THEN "drain_fds" ELSE "reap_fds"
      /\ r.dead = frame[t].dead
  BY <1>7, Zenon DEF Moved, a, x
<1> HIDE DEF r
<1>9. /\ r.pc \in PcsOf(r.role) /\ r.pc \notin StartPcs
      /\ r.pc \in {"drain_fds", "reap_fds"} /\ frame[t].pc # "register"
  BY <1>1, <1>2, <1>8, RolePcs, Zenon DEF StartPcs
<1>10. TaskOK(DeadTids(sched), Asleep(sched), sched.next_tid, ptab,
              fd_tables, t, r)
  BY <1>1, <1>2, <1>3, <1>8, <1>9, Zenon DEF TaskOK, ReapPcs
<1>11. SlotsOK(ptab, slots_used', frame') /\ slots_used' \in SUBSET Slot
  BY <1>3, <1>6, <1>8, SlotsSteps, Zenon DEF TableType
<1>12. ptab' = ptab /\ fd_tables' = fd_tables
  BY <1>4, Zenon
<1> QED BY <1>3, <1>4, <1>8, <1>9, <1>10, <1>11, <1>12, MoveKeeps, Zenon

(* slot_free on the error paths of spawn_child.                            *)
LEMMA UnslotKeeps ==
    ASSUME IInv, NEW t \in Tid, Unslot(t) PROVE IInv'
<1> DEFINE r == frame'[t]
           a == 0
           x == AfterRun(t)
<1>1. cur = t /\ frame[t].pc = "unslot"
  BY Zenon DEF Unslot, At, Runs
<1>2. frame[t].role \in {"sup", "shell"} /\ t \notin DeadTids(sched)
  BY <1>1, Here, PcRoles, Zenon DEF ExitPcs
<1>3. /\ t \notin Asleep(sched) /\ frame \in [Tid -> Frame]
      /\ TaskOK(DeadTids(sched), Asleep(sched), sched.next_tid, ptab,
                fd_tables, t, frame[t])
      /\ SlotsOK(ptab, slots_used, frame) /\ TableType(sched.next_tid, ptab)
      /\ World(DeadTids(sched), Asleep(sched), sched.next_tid, ptab,
               slots_used, fd_tables, frame)
      /\ need_resched \in [{0} -> BOOLEAN] /\ sessions \in 0 .. MaxSessions
      /\ slots_used \in SUBSET Slot /\ t # 0 /\ ~(t >= sched.next_tid)
  BY <1>1, <1>2, Running, Zenon
<1>4. Section(t) /\ UNCHANGED <<ptab, fd_tables>>
  BY <1>1, <1>3, Zenon DEF Unslot, At, Runs, Section, Local
<1>5. a \in Slot \cup {0} /\ x \in Pcs /\ x \in {"yield", "prompt"}
  BY Zenon DEF Pcs, AfterRun
<1>6. /\ frame' = [frame EXCEPT ![t].slot = a, ![t].pc = x]
      /\ slots_used' = slots_used \ {frame[t].slot}
  BY Zenon DEF Unslot, FreeSlot
<1>7. x \in PcsOf(frame[t].role)
  BY <1>2, RolePcs, Zenon DEF AfterRun, Role
<1> HIDE DEF a, x
<1>8. Moved(frame, frame', t, x, a, frame[t].tid, frame[t].pid, frame[t].dead)
  BY <1>3, <1>5, <1>6, PutSlotPc, Zenon
<1>9. /\ frame' = [frame EXCEPT ![t] = r] /\ r \in Frame
      /\ r.role = frame[t].role /\ r.slot = 0 /\ r.pc = x
      /\ r.dead = frame[t].dead
  BY <1>8, Zenon DEF Moved, a
<1> HIDE DEF r
<1>10. /\ r.pc \in PcsOf(r.role) /\ r.pc \notin StartPcs \cup ReapPcs
       /\ r.pc # "spawn" /\ r.pc # "register" /\ frame[t].pc # "register"
  BY <1>1, <1>5, <1>7, <1>9, Zenon DEF StartPcs, ReapPcs
<1>11. TaskOK(DeadTids(sched), Asleep(sched), sched.next_tid, ptab,
              fd_tables, t, r)
  BY <1>2, <1>3, <1>9, <1>10, GotoTask, Zenon
<1>12. SlotsOK(ptab, slots_used', frame') /\ slots_used' \in SUBSET Slot
  BY <1>3, <1>6, <1>9, SlotsSteps, Zenon DEF TableType
<1>13. ptab' = ptab /\ fd_tables' = fd_tables
  BY <1>4, Zenon
<1> QED BY <1>3, <1>4, <1>9, <1>10, <1>11, <1>12, <1>13, MoveKeeps, Zenon

(* cleanup_process_fds, for a process that is removed.                     *)
LEMMA CleanupFdsKeeps ==
    ASSUME IInv, NEW t \in Tid, CleanupFds(t) PROVE IInv'
<1> DEFINE r == frame'[t]
           p == 0
           x == IF frame[t].pc = "drain_fds" THEN "drain" ELSE "reap"
<1>1. cur = t /\ frame[t].pc \in {"drain_fds", "reap_fds"}
  BY Zenon DEF CleanupFds, At, Runs
<1>2. /\ frame[t].pc = "drain_fds" => frame[t].role = "sup"
      /\ frame[t].role \in {"sup", "net"} /\ t \notin DeadTids(sched)
      /\ frame[t].slot = 0
  BY <1>1, Here, PcRoles, Zenon DEF ExitPcs, SlotPcs
<1>3. /\ t \notin Asleep(sched) /\ frame \in [Tid -> Frame]
      /\ TaskOK(DeadTids(sched), Asleep(sched), sched.next_tid, ptab,
                fd_tables, t, frame[t])
      /\ SlotsOK(ptab, slots_used, frame) /\ TableType(sched.next_tid, ptab)
      /\ World(DeadTids(sched), Asleep(sched), sched.next_tid, ptab,
               slots_used, fd_tables, frame)
      /\ need_resched \in [{0} -> BOOLEAN] /\ sessions \in 0 .. MaxSessions
      /\ slots_used \in SUBSET Slot /\ t # 0 /\ ~(t >= sched.next_tid)
  BY <1>1, <1>2, Running, Zenon
<1>4. Section(t) /\ UNCHANGED <<ptab, slots_used>>
  BY <1>1, <1>3, Zenon DEF CleanupFds, At, Runs, Section, Local
<1>5. p \in Pid \cup {0} /\ x \in Pcs
  BY Zenon DEF Pcs
<1>6. /\ frame' = [frame EXCEPT ![t].pid = p, ![t].pc = x]
      /\ fd_tables' = fd_tables \ {frame[t].pid}
  BY Zenon DEF CleanupFds
<1> HIDE DEF p, x
<1>7. Moved(frame, frame', t, x, frame[t].slot, frame[t].tid, p, frame[t].dead)
  BY <1>3, <1>5, <1>6, PutPidPc, Zenon
<1>8. /\ frame' = [frame EXCEPT ![t] = r] /\ r \in Frame
      /\ r.role = frame[t].role /\ r.slot = frame[t].slot
      /\ r.pc = IF frame[t].pc = "drain_fds" THEN "drain" ELSE "reap"
      /\ r.dead = frame[t].dead
  BY <1>7, Zenon DEF Moved, x
<1> HIDE DEF r
<1>9. /\ r.pc \in PcsOf(r.role) /\ r.pc \notin StartPcs \cup ReapPcs
      /\ r.pc # "spawn" /\ r.pc # "register" /\ frame[t].pc # "register"
      /\ r.slot = 0
  BY <1>1, <1>2, <1>8, RolePcs, Zenon DEF StartPcs, ReapPcs
<1>10. frame[t].pid \notin DOMAIN ptab.table
  BY <1>1, <1>3, Zenon DEF TaskOK, ReapPcs
<1>11. World(DeadTids(sched), Asleep(sched), sched.next_tid, ptab,
             slots_used, fd_tables', frame)
  BY <1>3, <1>6, <1>10, FdsGo, Zenon
<1>12. TaskOK(DeadTids(sched), Asleep(sched), sched.next_tid, ptab,
              fd_tables', t, frame[t])
  BY <1>11, Zenon DEF World, TasksOK
<1>13. TaskOK(DeadTids(sched), Asleep(sched), sched.next_tid, ptab,
              fd_tables', t, r)
  BY <1>2, <1>3, <1>8, <1>9, <1>12, GotoTask, Zenon
<1>14. SlotsOK(ptab, slots_used, frame')
  BY <1>3, <1>8, SlotsSteps, Zenon DEF TableType
<1>15. ptab' = ptab /\ slots_used' = slots_used
  BY <1>4, Zenon
<1> QED BY <1>3, <1>4, <1>8, <1>9, <1>11, <1>13, <1>14, <1>15, MoveKeeps, Zenon

(* The lowest of some slots, pids or signals is one of them.               *)
LEMMA MinIn ==
    ASSUME NEW T, T \subseteq Nat, T # {}
    PROVE  Min(T) \in T
<1> DEFINE R == OpToRel(<, Nat)
<1>1. IsWellFoundedOn(R, Nat)
  BY NatLessThanWellFounded, Zenon
<1> HIDE DEF R
<1>2. PICK x \in T : \A y \in T : ~(<<y, x>> \in R)
  BY <1>1, WFMin, Zenon
<1>3. \A y \in T : ~(y < x)
  BY <1>2, Zenon DEF R, OpToRel
<1>4. \A y \in T : x <= y
  BY <1>3
<1> QED BY <1>4, Zenon DEF Min

(* seed_fd_table, or dup2_in and close_in, for a child not yet started.    *)
LEMMA ArrangeKeeps ==
    ASSUME IInv, NEW t \in Tid, Arrange(t) PROVE IInv'
<1> DEFINE r == frame'[t]
           x == "start"
<1>1. cur = t /\ frame[t].pc = "arrange"
  BY Zenon DEF Arrange, At, Runs
<1>2. /\ frame[t].role \in {"sup", "net", "shell"} /\ t \notin DeadTids(sched)
      /\ frame[t].slot = 0
  BY <1>1, Here, PcRoles, Zenon DEF ExitPcs, SlotPcs, StartPcs
<1>3. /\ t \notin Asleep(sched) /\ frame \in [Tid -> Frame]
      /\ TaskOK(DeadTids(sched), Asleep(sched), sched.next_tid, ptab,
                fd_tables, t, frame[t])
      /\ SlotsOK(ptab, slots_used, frame) /\ TableType(sched.next_tid, ptab)
      /\ World(DeadTids(sched), Asleep(sched), sched.next_tid, ptab,
               slots_used, fd_tables, frame)
      /\ need_resched \in [{0} -> BOOLEAN] /\ sessions \in 0 .. MaxSessions
      /\ slots_used \in SUBSET Slot /\ t # 0 /\ ~(t >= sched.next_tid)
      /\ fd_tables \subseteq Pid
  BY <1>1, <1>2, Running, Zenon
<1>4. Section(t) /\ UNCHANGED <<ptab, slots_used>>
  BY <1>1, <1>3, Zenon DEF Arrange, At, Runs, Section, Local
<1>5. fd_tables' \in SUBSET Pid /\ fd_tables \subseteq fd_tables'
  <2>1. frame[t].pid \in Pid
    BY <1>1, <1>3, Zenon DEF TaskOK, Frame
  <2> QED BY <1>3, <2>1, Zenon DEF Arrange
<1>6. frame' = [frame EXCEPT ![t].pc = x] /\ x \in Pcs
  BY Zenon DEF Arrange, Goto, Pcs
<1> HIDE DEF x
<1>7. Moved(frame, frame', t, x, frame[t].slot, frame[t].tid, frame[t].pid,
            frame[t].dead)
  BY <1>3, <1>6, PutPc, Zenon
<1>8. /\ frame' = [frame EXCEPT ![t] = r] /\ r \in Frame
      /\ r.role = frame[t].role /\ r.pc = "start"
      /\ r.slot = frame[t].slot /\ r.slot = 0
      /\ r.tid = frame[t].tid /\ r.dead = frame[t].dead
  BY <1>2, <1>7, Zenon DEF Moved, x
<1> HIDE DEF r
<1>9. /\ r.pc \in PcsOf(r.role) /\ frame[t].pc \in StartPcs
      /\ r.pc # "register" /\ frame[t].pc # "register"
  BY <1>1, <1>2, <1>8, RolePcs, Zenon DEF StartPcs
<1>10. World(DeadTids(sched), Asleep(sched), sched.next_tid, ptab,
             slots_used, fd_tables', frame)
  BY <1>3, <1>5, FdsCome, Zenon
<1>11. TaskOK(DeadTids(sched), Asleep(sched), sched.next_tid, ptab,
              fd_tables', t, r)
  BY <1>2, <1>3, <1>8, <1>9, Zenon DEF TaskOK, ReapPcs
<1>12. SlotsOK(ptab, slots_used, frame')
  BY <1>2, <1>3, <1>8, SlotsSteps, Zenon DEF TableType
<1>13. ptab' = ptab /\ slots_used' = slots_used
  BY <1>4, Zenon
<1> QED BY <1>3, <1>4, <1>8, <1>9, <1>10, <1>11, <1>12, <1>13, MoveKeeps, Zenon

(* load_elf: the lowest free slot is taken, or nothing is.                 *)
LEMMA LoadKeeps ==
    ASSUME IInv, NEW t \in Tid, Load(t) PROVE IInv'
<1> DEFINE r == frame'[t]
           a == Min(FreeSlots)
<1>1. cur = t /\ frame[t].pc = "load"
  BY Zenon DEF Load, At, Runs
<1>2. /\ frame[t].role \in {"sup", "shell"} /\ t \notin DeadTids(sched)
      /\ frame[t].slot = 0
  BY <1>1, Here, PcRoles, Zenon DEF ExitPcs, SlotPcs
<1>3. /\ t \notin Asleep(sched) /\ frame \in [Tid -> Frame]
      /\ TaskOK(DeadTids(sched), Asleep(sched), sched.next_tid, ptab,
                fd_tables, t, frame[t])
      /\ SlotsOK(ptab, slots_used, frame) /\ TableType(sched.next_tid, ptab)
      /\ World(DeadTids(sched), Asleep(sched), sched.next_tid, ptab,
               slots_used, fd_tables, frame)
      /\ need_resched \in [{0} -> BOOLEAN] /\ sessions \in 0 .. MaxSessions
      /\ slots_used \in SUBSET Slot /\ t # 0 /\ ~(t >= sched.next_tid)
  BY <1>1, <1>2, Running, Zenon
<1>4. Section(t) /\ UNCHANGED <<ptab, fd_tables>>
  BY <1>1, <1>3, Zenon DEF Load, At, Runs, Section, Local
<1>5. CASE /\ CanLoad /\ slots_used' = slots_used \cup {a}
           /\ frame' = [frame EXCEPT ![t].pc = "spawn", ![t].slot = a]
  <2> DEFINE x == "spawn"
  <2>1. a \in Slot \ slots_used
    <3>1. FreeSlots \subseteq Nat /\ FreeSlots # {}
      BY <1>5 DEF CanLoad, FreeSlots, Slot
    <3>2. a \in FreeSlots
      BY <3>1, MinIn, Zenon
    <3> QED BY <3>2, Zenon DEF FreeSlots
  <2>2. frame' = [frame EXCEPT ![t].pc = x, ![t].slot = a] /\ x \in Pcs
    BY <1>5, Zenon DEF Pcs
  <2> HIDE DEF a, x
  <2>3. Moved(frame, frame', t, x, a, frame[t].tid, frame[t].pid,
              frame[t].dead)
    BY <1>3, <2>1, <2>2, PutPcSlot, Zenon
  <2>4. /\ frame' = [frame EXCEPT ![t] = r] /\ r \in Frame
        /\ r.role = frame[t].role /\ r.slot = a /\ r.pc = "spawn"
        /\ r.dead = frame[t].dead
    BY <2>3, Zenon DEF Moved, x
  <2> HIDE DEF r
  <2>5. /\ r.pc \in PcsOf(r.role) /\ r.pc \notin StartPcs \cup ReapPcs
        /\ r.pc \in SlotPcs /\ r.pc # "register" /\ frame[t].pc # "register"
    BY <1>1, <1>2, <2>4, RolePcs, Zenon DEF StartPcs, ReapPcs, SlotPcs
  <2>6. PidOfTid(ptab, t) \in fd_tables
    BY <1>1, <1>5, Zenon DEF CanLoad, curpid
  <2>7. TaskOK(DeadTids(sched), Asleep(sched), sched.next_tid, ptab,
               fd_tables, t, r)
    BY <1>2, <1>3, <2>4, <2>5, <2>6, Zenon DEF TaskOK, StartPcs
  <2>8. SlotsOK(ptab, slots_used', frame') /\ slots_used' \in SUBSET Slot
    BY <1>2, <1>3, <1>5, <2>1, <2>4, SlotsSteps, Zenon DEF TableType
  <2>9. ptab' = ptab /\ fd_tables' = fd_tables
    BY <1>4, Zenon
  <2> QED BY <1>3, <1>4, <2>4, <2>5, <2>7, <2>8, <2>9, MoveKeeps, Zenon
<1>6. CASE frame' = [frame EXCEPT ![t].pc = AfterRun(t)] /\ UNCHANGED slots_used
  <2> DEFINE x == AfterRun(t)
  <2>1. /\ x \in Pcs /\ x \in PcsOf(frame[t].role)
        /\ x \notin StartPcs \cup ReapPcs /\ x # "spawn"
        /\ frame[t].pc \notin ExitPcs
    BY <1>1, <1>2, RolePcs, Zenon DEF Pcs, StartPcs, ReapPcs, ExitPcs, AfterRun, Role
  <2>2. Goes(t, x)
    BY <1>1, <1>2, <1>4, <1>6, <2>1, Zenon DEF Goes
  <2> HIDE DEF x
  <2> QED BY <2>2, GotoKeeps, Zenon
<1> QED BY <1>5, <1>6, Zenon DEF Load, Goto

(* A lock section of reap or of the drain loop removes zombie p and keeps  *)
(* its pid and its slot as locals.                                         *)
LEMMA RemoveKeeps ==
    ASSUME IInv, NEW t \in Tid, Section(t), UNCHANGED <<slots_used, fd_tables>>,
           NEW p \in DOMAIN ptab.table, ptab.table[p].state = "Zombie",
           ptab' = RemoveProcess(ptab, p),
           NEW x, x \in {"drain_free", "reap_free"}, x \in PcsOf(frame[t].role),
           frame[t].slot = 0, frame[t].pc # "register",
           frame[t].role \in {"sup", "net"}, t \notin DeadTids(sched),
           NEW d, d \subseteq frame[t].dead, NEW k,
           Moved(frame, frame', t, x, ptab.table[p].slot, k, p, d)
    PROVE  IInv'
<1> DEFINE r == frame'[t]
<1>1. cur = t
  BY Zenon DEF Section
<1>2. /\ t \notin Asleep(sched) /\ frame \in [Tid -> Frame]
      /\ SlotsOK(ptab, slots_used, frame) /\ TableType(sched.next_tid, ptab)
      /\ World(DeadTids(sched), Asleep(sched), sched.next_tid, ptab,
               slots_used, fd_tables, frame)
      /\ slots_used \in SUBSET Slot /\ t # 0 /\ ~(t >= sched.next_tid)
  BY <1>1, Running, Zenon
<1>3. /\ frame' = [frame EXCEPT ![t] = r] /\ r \in Frame
      /\ r.role = frame[t].role /\ r.pc = x /\ r.slot = ptab.table[p].slot
      /\ r.pid = p /\ r.dead = d
  BY Zenon DEF Moved
<1> HIDE DEF r
<1>4. /\ r.pc \in PcsOf(r.role) /\ r.pc \notin StartPcs /\ r.pc \in SlotPcs
      /\ r.pc \notin {"register", "spawn", "arrange", "wait"}
  BY <1>3, Zenon DEF StartPcs, SlotPcs
<1>5. p \notin DOMAIN ptab'.table /\ p < ptab'.next_pid
  BY <1>2, RemoveFacts DEF TableType
<1>6. World(DeadTids(sched), Asleep(sched), sched.next_tid, ptab',
            slots_used \ {ptab.table[p].slot}, fd_tables, frame)
  BY <1>2, RemoveWorld, Zenon
<1>7. TaskOK(DeadTids(sched), Asleep(sched), sched.next_tid, ptab',
             fd_tables, t, frame[t])
  BY <1>6, Zenon DEF World, TasksOK
<1>8. TaskOK(DeadTids(sched), Asleep(sched), sched.next_tid, ptab',
             fd_tables, t, r)
  BY <1>2, <1>3, <1>4, <1>5, <1>7, Zenon DEF TaskOK
<1>9. SlotsOK(ptab', slots_used, frame')
  BY <1>2, <1>3, RemoveSlots
<1>10. slots_used' = slots_used /\ fd_tables' = fd_tables
  BY Zenon
<1> QED BY <1>2, <1>3, <1>4, <1>6, <1>8, <1>9, <1>10, MoveKeeps, Zenon

(* take_zombie_child(1) in the supervisor's drain loop.                    *)
LEMMA DrainKeeps ==
    ASSUME IInv, NEW t \in Tid, Drain(t) PROVE IInv'
<1>1. cur = t /\ frame[t].pc = "drain"
  BY Zenon DEF Drain, At, Runs
<1>2. frame[t].role = "sup" /\ frame[t].slot = 0 /\ t \notin DeadTids(sched)
  BY <1>1, Here, PcRoles, Zenon DEF SlotPcs, ExitPcs
<1>3. /\ frame \in [Tid -> Frame] /\ TableType(sched.next_tid, ptab)
      /\ need_resched \in [{0} -> BOOLEAN] /\ sessions \in 0 .. MaxSessions
  BY <1>1, Running, Zenon
<1>4. Section(t) /\ UNCHANGED <<slots_used, fd_tables>>
  BY <1>1, <1>3, Zenon DEF Drain, At, Runs, Section, Local
<1>5. ASSUME NEW p \in ZombieChildren(ptab, 1),
             ptab' = RemoveProcess(ptab, p),
             frame' = [frame EXCEPT ![t].pc = "drain_free", ![t].pid = p,
                                    ![t].slot = SlotOf(ptab, p)]
      PROVE  IInv'
  <2> DEFINE x == "drain_free"
             a == SlotOf(ptab, p)
             d == frame[t].dead
             k == frame[t].tid
  <2>1. p \in DOMAIN ptab.table /\ ptab.table[p].state = "Zombie"
    BY Zenon DEF ZombieChildren, IsZombie
  <2>2. a = ptab.table[p].slot /\ a \in Slot \cup {0} /\ p \in Pid \cup {0}
    BY <1>3, <2>1, Zenon DEF SlotOf, TableType, Process
  <2>3. frame' = [frame EXCEPT ![t].pc = x, ![t].pid = p, ![t].slot = a]
    BY <1>5, Zenon
  <2>4. /\ x \in Pcs /\ x \in PcsOf(frame[t].role)
        /\ x \in {"drain_free", "reap_free"}
    BY <1>2, RolePcs, Zenon DEF Pcs
  <2> HIDE DEF x, a
  <2>5. Moved(frame, frame', t, x, a, k, p, d)
    BY <1>3, <2>2, <2>3, <2>4, PutPcPidSlot, Zenon
  <2>6. d \subseteq frame[t].dead /\ frame[t].pc # "register"
    BY <1>1, Zenon
  <2> HIDE DEF d, k
  <2>7. Moved(frame, frame', t, x, ptab.table[p].slot, k, p, d)
    BY <2>2, <2>5, Zenon
  <2>8. ptab' = RemoveProcess(ptab, p)
    BY <1>5, Zenon
  <2> QED BY <1>2, <1>4, <2>1, <2>4, <2>6, <2>7, <2>8, RemoveKeeps, Zenon
<1>6. CASE Goto(t, "sweep") /\ UNCHANGED ptab
  <2> DEFINE x == "sweep"
  <2>1. /\ x \in Pcs /\ x \in PcsOf(frame[t].role)
        /\ x \notin StartPcs \cup ReapPcs /\ x # "spawn"
        /\ frame[t].pc \notin ExitPcs
    BY <1>1, <1>2, RolePcs, Zenon DEF Pcs, StartPcs, ReapPcs, ExitPcs
  <2>2. Goes(t, x)
    BY <1>1, <1>2, <1>4, <1>6, <2>1, Zenon DEF Goes, Goto
  <2> HIDE DEF x
  <2> QED BY <2>2, GotoKeeps, Zenon
<1> QED BY <1>5, <1>6, Zenon DEF Drain

(* A turn of reap_orphans' second loop.  The other task may have reaped    *)
(* the pid meanwhile; then there is nothing to remove and no slot to free. *)
LEMMA ReapKeeps ==
    ASSUME IInv, NEW t \in Tid, Reap(t) PROVE IInv'
<1> DEFINE p == Min(frame[t].dead)
<1>1. cur = t /\ frame[t].pc = "reap"
  BY Zenon DEF Reap, At, Runs
<1>2. /\ frame[t].role \in {"sup", "net"} /\ frame[t].slot = 0
      /\ t \notin DeadTids(sched)
  BY <1>1, Here, PcRoles, Zenon DEF SlotPcs, ExitPcs
<1>3. /\ t \notin Asleep(sched) /\ frame \in [Tid -> Frame]
      /\ frame[t] \in Frame
      /\ TaskOK(DeadTids(sched), Asleep(sched), sched.next_tid, ptab,
                fd_tables, t, frame[t])
      /\ SlotsOK(ptab, slots_used, frame) /\ TableType(sched.next_tid, ptab)
      /\ World(DeadTids(sched), Asleep(sched), sched.next_tid, ptab,
               slots_used, fd_tables, frame)
      /\ need_resched \in [{0} -> BOOLEAN] /\ sessions \in 0 .. MaxSessions
      /\ slots_used \in SUBSET Slot /\ t # 0 /\ ~(t >= sched.next_tid)
  BY <1>1, <1>2, Running, Zenon
<1>4. Section(t) /\ UNCHANGED <<slots_used, fd_tables>>
  BY <1>1, <1>3, Zenon DEF Reap, At, Runs, Section, Local
<1>5. CASE frame[t].dead = {}
  <2> DEFINE x == IF Role(t) = "sup" THEN "load" ELSE "yield"
  <2>1. /\ x \in Pcs /\ x \in PcsOf(frame[t].role)
        /\ x \notin StartPcs \cup ReapPcs /\ x # "spawn"
        /\ frame[t].pc \notin ExitPcs
    BY <1>1, <1>2, RolePcs, Zenon DEF Pcs, StartPcs, ReapPcs, ExitPcs, Role
  <2>2. frame' = [frame EXCEPT ![t].pc = x] /\ UNCHANGED ptab
    BY <1>5, Zenon DEF Reap, Goto
  <2>3. Goes(t, x)
    BY <1>1, <1>2, <1>4, <2>1, <2>2, Zenon DEF Goes
  <2> HIDE DEF x
  <2> QED BY <2>3, GotoKeeps, Zenon
<1>6. CASE frame[t].dead # {}
  <2> DEFINE x == "reap_free"
             a == SlotOf(ptab, p)
             d == frame[t].dead \ {p}
             k == frame[t].tid
  <2>1. /\ p \in frame[t].dead /\ p < ptab.next_pid
        /\ p \in DOMAIN ptab.table => ptab.table[p].state = "Zombie"
        /\ d \in SUBSET Pid /\ p \in Pid \cup {0}
    <3>1. frame[t].dead \subseteq Nat /\ frame[t].dead \subseteq Pid
      BY <1>3, FrameFields DEF Pid
    <3>2. p \in frame[t].dead
      BY <1>6, <3>1, MinIn, Zenon
    <3> QED BY <1>3, <3>1, <3>2, Zenon DEF TaskOK
  <2>2. /\ frame' = [frame EXCEPT ![t].pc = x, ![t].dead = d, ![t].pid = p,
                                  ![t].slot = a]
        /\ ptab' = RemoveProcess(ptab, p)
    BY <1>3, <1>6, Zenon DEF Reap
  <2> HIDE DEF p
  <2>3. /\ a \in Slot \cup {0}
        /\ p \in DOMAIN ptab.table => a = ptab.table[p].slot
        /\ p \notin DOMAIN ptab.table => a = 0
    BY <1>3, Zenon DEF SlotOf, TableType, Process
  <2>4. /\ x \in Pcs /\ x \in PcsOf(frame[t].role)
        /\ x \in {"drain_free", "reap_free"}
    BY <1>2, RolePcs, Zenon DEF Pcs
  <2>5. /\ d \subseteq frame[t].dead /\ frame[t].pc # "register"
        /\ x \notin StartPcs /\ x \in SlotPcs
    BY <1>1, Zenon DEF StartPcs, SlotPcs
  <2> HIDE DEF x, a, d, k
  <2>6. Moved(frame, frame', t, x, a, k, p, d)
    BY <1>3, <2>1, <2>2, <2>3, <2>4, PutPcDeadPidSlot, Zenon DEF k
  <2>7. ptab' = RemoveProcess(ptab, p)
    BY <2>2, Zenon
  <2>8. CASE p \in DOMAIN ptab.table
    <3>1. Moved(frame, frame', t, x, ptab.table[p].slot, k, p, d)
      BY <2>3, <2>6, <2>8, Zenon
    <3>2. ptab.table[p].state = "Zombie"
      BY <2>1, <2>8, Zenon
    <3> QED BY <1>2, <1>4, <2>4, <2>5, <2>7, <2>8, <3>1, <3>2, RemoveKeeps, Zenon
  <2>9. CASE p \notin DOMAIN ptab.table
    <3> DEFINE r == frame'[t]
    <3>1. ptab' = ptab /\ slots_used' = slots_used /\ fd_tables' = fd_tables
      BY <1>4, <2>7, <2>9, Zenon DEF RemoveProcess
    <3>2. /\ frame' = [frame EXCEPT ![t] = r] /\ r \in Frame
          /\ r.role = frame[t].role /\ r.pc = "reap_free" /\ r.pid = p
          /\ r.slot = frame[t].slot /\ r.slot = 0 /\ r.dead \subseteq frame[t].dead
      BY <1>2, <2>3, <2>5, <2>6, <2>9, Zenon DEF Moved, x
    <3> HIDE DEF r
    <3>3. r.pc \in PcsOf(r.role) /\ r.pc \notin StartPcs /\ r.pc # "register"
      BY <2>4, <2>5, <3>2, Zenon DEF x
    <3>4. TaskOK(DeadTids(sched), Asleep(sched), sched.next_tid, ptab,
                 fd_tables, t, r)
      BY <1>2, <1>3, <2>1, <2>9, <3>2, <3>3, Zenon DEF TaskOK
    <3>5. SlotsOK(ptab, slots_used, frame')
      BY <1>3, <3>2, SlotsSteps, Zenon DEF TableType
    <3> QED BY <1>3, <1>4, <2>5, <3>1, <3>2, <3>3, <3>4, <3>5, MoveKeeps, Zenon
  <2> QED BY <2>8, <2>9, Zenon
<1> QED BY <1>5, <1>6, Zenon

(* register_process and clone_fd_table, for the child spawn_blocked made.  *)
LEMMA RegisterKeeps ==
    ASSUME IInv, NEW t \in Tid, Register(t) PROVE IInv'
<1> DEFINE r == frame'[t]
           name == ChildName(t)
           x == "arrange"
           a == 0
           p == ptab.next_pid
<1>1. cur = t /\ frame[t].pc = "register"
  BY Zenon DEF Register, At, Runs
<1>2. frame[t].role \in {"sup", "net", "shell"}
  BY <1>1, Here, PcRoles, Zenon DEF StartPcs
<1>3. /\ t \notin Asleep(sched) /\ frame \in [Tid -> Frame]
      /\ SchedOK(sched)
      /\ World(DeadTids(sched), Asleep(sched), sched.next_tid, ptab,
               slots_used, fd_tables, frame)
      /\ need_resched \in [{0} -> BOOLEAN] /\ sessions \in 0 .. MaxSessions
  BY <1>1, Running, Zenon
<1>4. Section(t) /\ UNCHANGED slots_used
  BY <1>1, <1>3, Zenon DEF Register, At, Runs, Section, Local
<1>5. name \in {"init-sup", "init", "ssh-shell", "program"}
  BY <1>2, Zenon DEF ChildName, Role
<1>6. /\ ptab' = RegisterProcess(ptab, name, frame[t].tid, t, frame[t].slot)
      /\ fd_tables' = CloneFdTable(fd_tables, PidOfTid(ptab, t), ptab.next_pid)
  BY <1>1, Zenon DEF Register, curpid
<1>7. /\ frame' = [frame EXCEPT ![t].pc = x, ![t].slot = a, ![t].pid = p]
      /\ x \in Pcs /\ a \in Slot \cup {0}
  BY Zenon DEF Register, Pcs
<1>8. p \in Pid \cup {0}
  BY <1>1, <1>3, NextPid, Zenon
<1> HIDE DEF name, x, a, p
<1>9. Moved(frame, frame', t, x, a, frame[t].tid, p, frame[t].dead)
  BY <1>3, <1>7, <1>8, PutPcSlotPid, Zenon
<1>10. /\ frame' = [frame EXCEPT ![t] = r] /\ r \in Frame
       /\ r.role = frame[t].role /\ r.pc = "arrange" /\ r.slot = 0
       /\ r.tid = frame[t].tid /\ r.pid = ptab.next_pid
       /\ r.dead = frame[t].dead
  BY <1>9, Zenon DEF Moved, x, a, p
<1> HIDE DEF r
<1>11. World(DeadTids(sched), Asleep(sched), sched.next_tid, ptab',
             slots_used, fd_tables', frame')
  BY <1>1, <1>2, <1>3, <1>5, <1>6, <1>10, RegisterWorld, Zenon
<1>12. WorldOf(sched', ptab', slots_used', fd_tables', frame')
  BY <1>4, <1>11, Zenon DEF WorldOf, Section
<1> QED BY <1>1, <1>3, <1>4, <1>12, SectionKeeps, Zenon DEF Section, cur

(* spawn_blocked, from run_program or SessionShell::start; or it fails.    *)
LEMMA SpawnKeeps ==
    ASSUME SchedulerView, IInv, NEW t \in Tid, Spawn(t) PROVE IInv'
<1> DEFINE n == sched.next_tid
<1>1. cur = t /\ frame[t].pc = "spawn" /\ mode = "task"
  BY Zenon DEF Spawn, At, Runs
<1>2. frame[t].role \in {"sup", "net", "shell"}
  BY <1>1, Here, PcRoles, Zenon DEF StartPcs
<1>3. /\ t \notin Asleep(sched) /\ frame \in [Tid -> Frame] /\ SchedOK(sched)
      /\ TaskOK(DeadTids(sched), Asleep(sched), sched.next_tid, ptab,
                fd_tables, t, frame[t])
      /\ World(DeadTids(sched), Asleep(sched), sched.next_tid, ptab,
               slots_used, fd_tables, frame)
      /\ need_resched \in [{0} -> BOOLEAN] /\ sessions \in 0 .. MaxSessions
      /\ n \in 1 .. TidMax /\ n \in Nat /\ t # 0 /\ ~(t >= n)
  BY <1>1, <1>2, Running, Zenon
<1>4. UNCHANGED <<need_resched, mode, ptab, slots_used, fd_tables, sessions>>
  BY Zenon DEF Spawn
<1>5. ASSUME n + 1 <= TidMax,
             sched' = S!InsertTask([sched EXCEPT !.next_tid = @ + 1], n, TRUE),
             NEW c,
             \/ frame[t].role = "net" /\ c = StartAs("shell", "prompt")
             \/ frame[t].role # "net" /\ c = StartAs("user", "trampoline"),
             frame' = [frame EXCEPT ![n] = c, ![t].tid = n,
                                    ![t].pc = "register"]
      PROVE  IInv'
  <2> DEFINE x == "register"
  <2>1. /\ c \in Frame /\ c.slot = 0 /\ c.dead = {}
        /\ \/ frame[t].role = "net" /\ c.role = "shell" /\ c.pc = "prompt"
           \/ frame[t].role # "net" /\ c.role = "user" /\ c.pc = "trampoline"
    BY <1>5, StartFrame, Zenon
  <2>2. n \in Tid /\ t # n
    BY <1>3, TableConstants DEF Tid
  <2>3. frame' = [frame EXCEPT ![n] = c, ![t].tid = n, ![t].pc = x] /\ x \in Pcs
    BY <1>5, Zenon DEF Pcs
  <2>4. sched' = S!InsertTask(Reserved(sched), n, TRUE)
    BY <1>5, Zenon DEF Reserved
  <2> HIDE DEF x
  <2>5. Spawned(frame, frame', t, n, c, x)
    <3> HIDE DEF n
    <3> QED BY <1>3, <2>1, <2>2, <2>3, PutSpawn, Zenon
  <2>6. Spawned(frame, frame', t, n, c, "register") /\ n + 1 <= TidMax
    BY <1>5, <2>5, Zenon DEF x
  <2> HIDE DEF n
  <2>7. World(DeadTids(sched) \ {n}, Asleep(sched) \cup {n}, n + 1, ptab,
              slots_used, fd_tables, frame')
    <3>1. World(DeadTids(sched), Asleep(sched), n, ptab, slots_used,
                fd_tables, frame)
      BY <1>3, Zenon DEF n
    <3> QED BY <1>1, <1>2, <2>1, <2>6, <3>1, SpawnWorld, Zenon
  <2>8. /\ SchedOK(sched') /\ sched'.next_tid = n + 1
        /\ sched'.current = sched.current
        /\ DeadTids(sched') = DeadTids(sched) \ {n}
        /\ Asleep(sched') = Asleep(sched) \cup {n}
    BY <1>3, <1>5, <2>4, SpawnView, Zenon DEF n
  <2>9. sched'.current[0] \notin Asleep(sched')
    BY <1>1, <1>3, <2>2, <2>8, Zenon DEF cur
  <2>10. WorldOf(sched', ptab', slots_used', fd_tables', frame')
    BY <1>4, <2>7, <2>8, Zenon DEF WorldOf
  <2> QED BY <1>1, <1>3, <1>4, <2>8, <2>9, <2>10, SectionKeeps, Zenon
<1>6. ASSUME sched' = sched, NEW x,
             frame' = [frame EXCEPT ![t].pc = x],
             \/ frame[t].role = "net" /\ x = "sweep"
             \/ frame[t].role # "net" /\ x = "unslot"
      PROVE  IInv'
  <2>1. /\ x \in Pcs /\ x \in PcsOf(frame[t].role)
        /\ x \notin StartPcs \cup ReapPcs /\ x # "spawn"
        /\ frame[t].pc \notin ExitPcs
    BY <1>1, <1>2, <1>6, RolePcs, Zenon DEF Pcs, StartPcs, ReapPcs, ExitPcs
  <2>2. frame[t].slot # 0 => x \in SlotPcs
    BY <1>1, <1>3, <1>6, Zenon DEF TaskOK, SlotPcs
  <2>3. Section(t)
    BY <1>1, <1>3, <1>4, <1>6, Zenon DEF Section
  <2>4. Goes(t, x)
    BY <1>1, <1>2, <1>4, <1>6, <2>1, <2>2, <2>3, Zenon DEF Goes
  <2> QED BY <2>4, GotoKeeps, Zenon
<1> DEFINE c == IF Role(t) = "net" THEN StartAs("shell", "prompt")
                ELSE StartAs("user", "trampoline")
           y == IF Role(t) = "net" THEN "sweep" ELSE "unslot"
<1>7. /\ \/ frame[t].role = "net" /\ c = StartAs("shell", "prompt")
         \/ frame[t].role # "net" /\ c = StartAs("user", "trampoline")
      /\ \/ frame[t].role = "net" /\ y = "sweep"
         \/ frame[t].role # "net" /\ y = "unslot"
  BY Zenon DEF Role
<1>8. \/ /\ n + 1 <= TidMax
         /\ sched' = S!InsertTask([sched EXCEPT !.next_tid = @ + 1], n, TRUE)
         /\ frame' = [frame EXCEPT ![n] = c, ![t].tid = n,
                                   ![t].pc = "register"]
      \/ sched' = sched /\ frame' = [frame EXCEPT ![t].pc = y]
  BY Zenon DEF Spawn, Goto
<1> HIDE DEF c, y, n
<1> QED BY <1>5, <1>6, <1>7, <1>8, Zenon

(* unblock_task starts the child; its starter goes on.                     *)
LEMMA StartChildKeeps ==
    ASSUME SchedulerView, IInv, NEW t \in Tid, StartChild(t) PROVE IInv'
<1> DEFINE r == frame'[t]
           p == 0
           k == 0
           x == IF frame[t].role = "net" THEN "sweep" ELSE "wait"
           i == frame[t].tid
<1>1. cur = t /\ frame[t].pc = "start" /\ mode = "task"
  BY Zenon DEF StartChild, At, Runs
<1>2. /\ frame[t].role \in {"sup", "net", "shell"} /\ frame[t].slot = 0
      /\ t \notin DeadTids(sched)
  BY <1>1, Here, PcRoles, Zenon DEF StartPcs, SlotPcs, ExitPcs
<1>3. /\ t \notin Asleep(sched) /\ frame \in [Tid -> Frame] /\ SchedOK(sched)
      /\ TaskOK(DeadTids(sched), Asleep(sched), sched.next_tid, ptab,
                fd_tables, t, frame[t])
      /\ SlotsOK(ptab, slots_used, frame) /\ TableType(sched.next_tid, ptab)
      /\ World(DeadTids(sched), Asleep(sched), sched.next_tid, ptab,
               slots_used, fd_tables, frame)
      /\ need_resched \in [{0} -> BOOLEAN] /\ sessions \in 0 .. MaxSessions
      /\ slots_used \in SUBSET Slot /\ t # 0 /\ ~(t >= sched.next_tid)
  BY <1>1, <1>2, Running, Zenon
<1>4. UNCHANGED <<need_resched, mode, ptab, slots_used, fd_tables, sessions>>
  BY Zenon DEF StartChild
<1>5. p \in Pid \cup {0} /\ k \in Tid /\ x \in Pcs
  BY TableConstants DEF Pcs, Tid
<1>6. /\ frame' = [frame EXCEPT ![t].pid = p, ![t].tid = k, ![t].pc = x]
      /\ sched' = S!UnblockTask(sched, i)
  BY Zenon DEF StartChild, Role
<1> HIDE DEF p, k, x
<1>7. Moved(frame, frame', t, x, frame[t].slot, k, p, frame[t].dead)
  BY <1>3, <1>5, <1>6, PutPidTidPc, Zenon
<1>8. /\ frame' = [frame EXCEPT ![t] = r] /\ r \in Frame
      /\ r.role = frame[t].role /\ r.slot = frame[t].slot
      /\ r.pc = IF frame[t].role = "net" THEN "sweep" ELSE "wait"
      /\ r.dead = frame[t].dead
  BY <1>7, Zenon DEF Moved, x
<1> HIDE DEF r
<1>9. /\ r.pc \in PcsOf(r.role) /\ r.pc \notin StartPcs \cup ReapPcs
      /\ r.pc # "spawn" /\ r.pc # "register" /\ frame[t].pc # "register"
      /\ r.slot = 0
  BY <1>1, <1>2, <1>8, RolePcs, Zenon DEF StartPcs, ReapPcs
<1>10. TaskOK(DeadTids(sched), Asleep(sched), sched.next_tid, ptab,
              fd_tables, t, r)
  BY <1>2, <1>3, <1>8, <1>9, GotoTask, Zenon
<1>11. SlotsOK(ptab, slots_used, frame')
  BY <1>3, <1>8, SlotsSteps, Zenon DEF TableType
<1>12. World(DeadTids(sched), Asleep(sched), sched.next_tid, ptab,
             slots_used, fd_tables, frame')
  <2>1. r.pc \in StartPcs => frame[t].pc \in StartPcs /\ r.tid = frame[t].tid
    BY <1>9, Zenon
  <2> QED BY <1>3, <1>8, <1>9, <1>10, <1>11, <2>1, FrameStep, Zenon
<1>13. \A u \in Tid : frame'[u].pc = "register" => frame'[u].tid # i
  <2>1. \A u \in Tid : u # t /\ frame[u].pc \in StartPcs => frame[u].tid # i
    BY <1>1, <1>3, Zenon DEF World, PairsOK, StartPcs
  <2>2. \A u \in Tid : u # t => frame'[u] = frame[u]
    BY <1>3, <1>8, FrameFacts, Zenon
  <2>3. frame'[t].pc # "register"
    BY <1>9, Zenon DEF r
  <2> QED BY <2>1, <2>2, <2>3, Zenon DEF StartPcs
<1>14. World(DeadTids(sched), Asleep(sched) \ {i}, sched.next_tid, ptab,
             slots_used, fd_tables, frame')
  BY <1>12, <1>13, WakeWorld, Zenon
<1>15. /\ SchedOK(sched') /\ sched'.next_tid = sched.next_tid
       /\ sched'.current = sched.current
       /\ DeadTids(sched') = DeadTids(sched)
       /\ Asleep(sched') = Asleep(sched) \ {i}
  BY <1>3, <1>6, UnblockView
<1>16. /\ WorldOf(sched', ptab', slots_used', fd_tables', frame')
       /\ sched'.current[0] \notin Asleep(sched')
  BY <1>1, <1>3, <1>4, <1>14, <1>15, Zenon DEF WorldOf, cur
<1> QED BY <1>1, <1>3, <1>4, <1>15, <1>16, SectionKeeps, Zenon
=============================================================================
