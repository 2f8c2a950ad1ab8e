--------------------------- MODULE ProcessProofs ---------------------------
(***************************************************************************)
(* The theorems about Process, for every number of tasks, slots, sessions  *)
(* and signals: from ProcessTraps, what SchedulerProofs knows of the       *)
(* operators of Scheduler, and what IInv says in the terms of Process.     *)
(***************************************************************************)
EXTENDS ProcessTraps, Sequences, NaturalsInduction, WellFoundedInduction
-----------------------------------------------------------------------------
(* What the World says of the properties.                                  *)

(* SlotsOK counts: a slot in use has one holder, a free one none.          *)
LEMMA HoldersCounted ==
    ASSUME SlotsOK(ptab, slots_used, frame), DOMAIN ptab.table \subseteq Pid
    PROVE  SlotsExclusive
<1> SUFFICES ASSUME NEW s \in Slot
             PROVE  Cardinality(Holders(s)) = IF s \in slots_used THEN 1 ELSE 0
  BY Zenon DEF SlotsExclusive
<1>1. s # 0
  BY DEF Slot
<1>2. CASE s \notin slots_used
  <2>1. Holders(s) = {}
    BY <1>2 DEF Holders, SlotsOK
  <2> QED BY <1>2, <2>1, FS_EmptySet, Zenon
<1>3. CASE \E p \in DOMAIN ptab.table : ptab.table[p].slot = s
  <2>1. PICK p \in DOMAIN ptab.table : ptab.table[p].slot = s
    BY <1>3, Zenon
  <2>2. s \in slots_used
    BY <2>1, Zenon DEF SlotsOK
  <2>3. {q \in DOMAIN ptab.table : ptab.table[q].slot = s} = {p}
    BY <1>1, <2>1, Zenon DEF SlotsOK
  <2>4. {u \in Tid : frame[u].slot = s} = {}
    BY <1>1, <2>1, Zenon DEF SlotsOK
  <2>5. Holders(s) = {p}
    BY <2>3, <2>4, Zenon DEF Holders
  <2> QED BY <2>2, <2>5, FS_Singleton, Zenon
<1>4. CASE \E t \in Tid : frame[t].slot = s
  <2>1. PICK t \in Tid : frame[t].slot = s
    BY <1>4, Zenon
  <2>2. s \in slots_used
    BY <2>1, Zenon DEF SlotsOK
  <2>3. {q \in DOMAIN ptab.table : ptab.table[q].slot = s} = {}
    BY <1>1, <2>1 DEF SlotsOK
  <2>4. {u \in Tid : frame[u].slot = s} = {t}
    BY <1>1, <2>1, Zenon DEF SlotsOK
  <2>5. Holders(s) = {TidMax + 1 + t}
    BY <2>3, <2>4, Zenon DEF Holders
  <2> QED BY <2>2, <2>5, FS_Singleton, Zenon
<1> QED BY <1>2, <1>3, <1>4, Zenon DEF SlotsOK

(* Kinship is FamilyTree, and more.                                        *)
LEMMA KinshipTree ==
    ASSUME Kinship(ptab) PROVE FamilyTree
BY Zenon DEF Kinship, FamilyTree, PidOfTid

(* The Worlds the invariant describes have the properties Process states.  *)
LEMMA IInvSays ==
    ASSUME IInv
    PROVE  ProcessInv /\ UserExitsWhole /\ UserHasProcess /\ WaiterNotStuck
<1> DEFINE D == DeadTids(sched)
           B == Asleep(sched)
           n == sched.next_tid
<1>1. World(D, B, n, ptab, slots_used, fd_tables, frame)
  BY Zenon DEF IInv, WorldOf
<1>2. /\ \A t \in Tid : t \in D <=> ~S!Alive(sched, t) \/ sched.tasks[t] = "Zombie"
      /\ \A t \in Tid : t \in B <=> S!Alive(sched, t) /\ sched.tasks[t] = "Blocked"
  BY Zenon DEF DeadTids, Asleep
<1>3. DOMAIN sched.tasks \subseteq Tid /\ sched \in S!SchedType
  BY Zenon DEF IInv, SchedOK, S!SchedType, S!Tid, Tid
<1>4. \A t \in DOMAIN sched.tasks : S!Alive(sched, t)
  BY Zenon DEF S!Alive
<1> HIDE DEF D, B, n
<1>5. \A p \in DOMAIN ptab.table : ptab.table[p] \in Process
  BY <1>1, Zenon DEF World, TableType
<1>6. ProcessInv
  <2>1. TypeOK
    <3>1. n \in 1 .. TidMax /\ DOMAIN ptab.by_tid \subseteq 1 .. n - 1
      BY <1>1, Zenon DEF World, TableType
    <3>2. DOMAIN ptab.by_tid \subseteq Tid
      BY <3>1, TableConstants DEF Tid
    <3> QED BY <1>1, <1>3, <1>5, <3>2, Zenon DEF World, TableType, TypeOK, IInv
  <2>2. SchedulerSound
    BY Zenon DEF IInv, SchedOK, SchedulerSound
  <2>3. FamilyTree /\ SlotsExclusive
    BY <1>1, KinshipTree, HoldersCounted, Zenon DEF World, TableType
  <2> QED BY <2>1, <2>2, <2>3, Zenon DEF ProcessInv
<1>7. UserExitsWhole
  <2> SUFFICES ASSUME NEW p \in DOMAIN ptab.table, ptab.table[p].slot # 0
               PROVE  ptab.table[p].state = "Zombie" <=>
                        \/ ~S!Alive(sched, ptab.table[p].task)
                        \/ sched.tasks[ptab.table[p].task] = "Zombie"
    BY Zenon DEF UserExitsWhole
  <2>1. ptab.table[p].task \in Tid
    BY <1>5, Zenon DEF Process
  <2>2. ptab.table[p].state = "Zombie" <=> ptab.table[p].task \in D
    BY <1>1, Zenon DEF World, Ends
  <2> QED BY <1>2, <2>1, <2>2, Zenon
<1>8. UserHasProcess
  <2> SUFFICES ASSUME NEW t \in DOMAIN sched.tasks, UserText(frame, t),
                      sched.tasks[t] # "Zombie"
               PROVE  PidOfTid(ptab, t) \in fd_tables
    BY Zenon DEF UserHasProcess
  <2>1. t \in Tid /\ t \notin D
    BY <1>2, <1>3, <1>4, Zenon
  <2>2. frame[t].role = "user" /\ frame[t].pc \notin {"trampoline", "prompt"}
    BY Zenon DEF UserText
  <2> QED BY <1>1, <2>1, <2>2, Zenon DEF World, PairsOK
<1>9. WaiterNotStuck
  <2> SUFFICES ASSUME NEW t \in Tid \ {1}, StuckInWait(t)
               PROVE  FALSE
    BY Zenon DEF WaiterNotStuck
  <2>1. t \in B /\ frame[t].pc = "wait"
    BY <1>2, Zenon DEF StuckInWait
  <2>2. TaskOK(D, B, n, ptab, fd_tables, t, frame[t])
    BY <1>1, Zenon DEF World, TasksOK
  <2> QED BY <2>1, <2>2, Zenon DEF TaskOK, StuckInWait
<1> QED BY <1>6, <1>7, <1>8, <1>9, Zenon
-----------------------------------------------------------------------------
(* The scheduler's operators, as the invariant sees them.                  *)

(* The proofs about Scheduler, for the instance that Process composes.     *)
SP == INSTANCE SchedulerProofs
      WITH NCores <- 1, AnyCore <- 1, booted <- {0}, spawning <- {},
           priority <- [t \in Tid |-> IF t = 0 THEN 0 ELSE 10],
           affinity <- [t \in Tid |-> 1]

(* The constants Process gives Scheduler satisfy its assumption.           *)
LEMMA SchedAssumption == SP!SchedConstants
BY ProcessConstants, TableConstants DEF SP!SchedConstants, SP!Cores, SP!Tid, Tid

(* There is one core, and it has booted.                                   *)
LEMMA OneCore == {0} \in SUBSET SP!Cores /\ 0 \in {0} /\ 0 \in SP!Cores /\ SP!Cores = {0}
BY DEF SP!Cores

(* Both instances of Scheduler define the same operators.                  *)
LEMMA SameInv ==
    ASSUME NEW s
    PROVE  /\ S!SchedInv(s, {0}) <=> SP!SchedInv(s, {0})
           /\ S!SchedType = SP!SchedType
<1>1. S!SchedType = SP!SchedType
  BY Zenon DEF S!SchedType, SP!SchedType, S!Tid, SP!Tid, S!Cores, SP!Cores, S!TaskState, SP!TaskState
<1>2. S!SchedInv(s, {0}) <=> SP!SchedInv(s, {0})
  BY Zenon DEF S!SchedInv, SP!SchedInv, S!QueueSound, SP!QueueSound, S!CurSound, SP!CurSound,
         S!IdleSound, SP!IdleSound, S!NoDup, SP!NoDup, S!InQueue, SP!InQueue, S!Alive, SP!Alive,
         S!Cores, SP!Cores, S!Tid, SP!Tid, S!IdleTids, SP!IdleTids
<1> QED BY <1>1, <1>2, Zenon

(* ... the removal of tids from the ready queue,                           *)
LEMMA SameRetain ==
    ASSUME NEW q, NEW X
    PROVE  S!Retain(q, X) = SP!Retain(q, X)
BY Zenon DEF S!DropAt, SP!DropAt, S!Retain, SP!Retain

(* ... the choice of the next task,                                        *)
LEMMA SameDispatch ==
    ASSUME NEW s, NEW c
    PROVE  S!Dispatch(s, c) = SP!Dispatch(s, c)
<1>1. S!Eligible(s, c) = SP!Eligible(s, c)
  BY Zenon DEF S!Eligible, SP!Eligible, S!Alive, SP!Alive
<1>2. S!BestIdx(s, c) = SP!BestIdx(s, c)
  BY Zenon DEF S!Eligible, SP!Eligible, S!BestIdx, SP!BestIdx, S!Beats, SP!Beats, S!Alive, SP!Alive
<1>3. S!NextReady(s, c) = SP!NextReady(s, c)
  BY <1>1, <1>2, Zenon DEF S!NextReady, SP!NextReady, S!DropAt, SP!DropAt
<1> QED BY <1>3, Zenon DEF S!Dispatch, SP!Dispatch

(* ... the switch from the timer and from yield,                           *)
LEMMA SamePreempt ==
    ASSUME NEW s
    PROVE  S!PreemptSwitch(s, 0) = SP!PreemptSwitch(s, 0)
<1>1. ASSUME NEW c PROVE S!DeadExcept(s, c) = SP!DeadExcept(s, c)
  BY Zenon DEF S!DeadExcept, SP!DeadExcept, S!Cores, SP!Cores
<1>2. ASSUME NEW c PROVE S!ReapZombiesExcept(s, c) = SP!ReapZombiesExcept(s, c)
  BY <1>1, SameRetain, Zenon DEF S!ReapZombiesExcept, SP!ReapZombiesExcept
<1>3. ASSUME NEW r, NEW c PROVE S!Requeue(r, c) = SP!Requeue(r, c)
  BY Zenon DEF S!Requeue, SP!Requeue
<1> QED BY <1>2, <1>3, SameDispatch, Zenon DEF S!PreemptSwitch, SP!PreemptSwitch

(* ... and block, unblock, the tick and boot.                              *)
LEMMA SameOthers ==
    ASSUME NEW s, NEW t, NEW b
    PROVE  /\ S!PutAside(s, 0, b) = SP!PutAside(s, 0, b)
           /\ S!UnblockTask(s, t) = SP!UnblockTask(s, t)
           /\ S!TickDown(s) = SP!TickDown(s)
           /\ S!InitSched = SP!InitSched
<1>1. S!PutAside(s, 0, b) = SP!PutAside(s, 0, b)
  BY SameRetain, Zenon DEF S!PutAside, SP!PutAside
<1>2. S!UnblockTask(s, t) = SP!UnblockTask(s, t)
  BY Zenon DEF S!UnblockTask, SP!UnblockTask, S!Alive, SP!Alive
<1>3. S!TickDown(s) = SP!TickDown(s) /\ S!InitSched = SP!InitSched
  BY Zenon DEF S!TickDown, SP!TickDown, S!InitSched, SP!InitSched, S!IdleTids, SP!IdleTids, S!Cores, SP!Cores
<1> QED BY <1>1, <1>2, <1>3, Zenon

(* The fields of the Scheduler struct that the views are made of.          *)
LEMMA FieldFacts ==
    ASSUME NEW s, SchedOK(s)
    PROVE  /\ s \in SP!SchedType /\ SP!SchedInv(s, {0})
           /\ DOMAIN s.tasks \subseteq Tid
           /\ s.current[0] \in Tid /\ s.current[0] \in DOMAIN s.tasks
           /\ s.next_tid \in 1 .. TidMax
           /\ s.current \in [{0} -> Tid]
<1>1. s \in SP!SchedType /\ SP!SchedInv(s, {0})
  BY SameInv, Zenon DEF SchedOK
<1>2. /\ DOMAIN s.tasks \subseteq SP!Tid /\ s.current \in [SP!Cores -> SP!Tid]
      /\ s.next_tid \in 1 .. TidMax
  BY <1>1, SP!SchedFields, SchedAssumption, Zenon
<1>3. SP!Tid = Tid
  BY Zenon DEF SP!Tid, Tid
<1>4. s.current[0] \in DOMAIN s.tasks
  BY <1>1, OneCore, Zenon DEF SP!SchedInv, SP!CurSound, SP!Alive
<1> QED BY <1>1, <1>2, <1>3, <1>4, OneCore, Zenon

(* preempt_switch ends no task, wakes none and leaves a Running one.       *)
LEMMA SwitchFacts ==
    ASSUME NEW s, SchedOK(s), NEW r, r = S!PreemptSwitch(s, 0)
    PROVE  /\ SchedOK(r) /\ r.next_tid = s.next_tid
           /\ DeadTids(r) = DeadTids(s) /\ Asleep(r) = Asleep(s)
           /\ r.current[0] \notin Asleep(r)
<1>1. s \in SP!SchedType /\ SP!SchedInv(s, {0}) /\ r = SP!PreemptSwitch(s, 0)
  BY FieldFacts, SamePreempt, Zenon
<1>2. /\ r \in SP!SchedType /\ SP!SchedInv(r, {0})
      /\ r.next_tid = s.next_tid
      /\ DOMAIN r.tasks = DOMAIN s.tasks \ SP!DeadExcept(s, s.current[0])
      /\ \A t \in DOMAIN r.tasks :
            /\ s.tasks[t] = "Zombie" <=> r.tasks[t] = "Zombie"
            /\ s.tasks[t] = "Blocked" <=> r.tasks[t] = "Blocked"
      /\ r.tasks[r.current[0]] = "Running"
  BY <1>1, SP!PreemptKeepsInv, SchedAssumption, OneCore
<1>3. \A t \in SP!DeadExcept(s, s.current[0]) : s.tasks[t] = "Zombie"
  BY Zenon DEF SP!DeadExcept
<1>4. SchedOK(r)
  BY <1>2, SameInv, Zenon DEF SchedOK
<1>5. DeadTids(r) = DeadTids(s)
  <2>1. ASSUME NEW t \in Tid PROVE t \in DeadTids(r) <=> t \in DeadTids(s)
    BY <1>2, <1>3, Zenon DEF DeadTids, S!Alive
  <2> QED BY <2>1, Zenon DEF DeadTids
<1>6. Asleep(r) = Asleep(s)
  <2>1. ASSUME NEW t \in Tid PROVE t \in Asleep(r) <=> t \in Asleep(s)
    BY <1>2, <1>3, Zenon DEF Asleep, S!Alive
  <2> QED BY <2>1, Zenon DEF Asleep
<1>7. r.current[0] \notin Asleep(r)
  BY <1>2, Zenon DEF Asleep
<1> QED BY <1>2, <1>4, <1>5, <1>6, <1>7, Zenon

(* mark_zombie and block_current_noswitch.                                 *)
LEMMA PutAsideFacts ==
    ASSUME NEW s, SchedOK(s), s.current[0] # 0,
           NEW st \in {"Blocked", "Zombie"}, NEW r, r = S!PutAside(s, 0, st)
    PROVE  /\ SchedOK(r) /\ r.next_tid = s.next_tid /\ r.current = s.current
           /\ st = "Zombie" => /\ DeadTids(r) = DeadTids(s) \cup {s.current[0]}
                               /\ Asleep(r) = Asleep(s) \ {s.current[0]}
           /\ st = "Blocked" => /\ DeadTids(r) = DeadTids(s) \ {s.current[0]}
                                /\ Asleep(r) = Asleep(s) \cup {s.current[0]}
<1>1. s \in SP!SchedType /\ SP!SchedInv(s, {0}) /\ r = SP!PutAside(s, 0, st)
  BY FieldFacts, SameOthers, Zenon
<1>2. /\ r \in SP!SchedType /\ SP!SchedInv(r, {0})
      /\ r.next_tid = s.next_tid /\ r.current = s.current
      /\ DOMAIN r.tasks = DOMAIN s.tasks
      /\ r.tasks[s.current[0]] = st
      /\ \A t \in DOMAIN s.tasks :
            t # s.current[0] => r.tasks[t] = s.tasks[t]
  BY <1>1, SP!PutAsideKeepsInv, SchedAssumption, OneCore
<1>3. s.current[0] \in Tid /\ s.current[0] \in DOMAIN s.tasks
  BY FieldFacts, Zenon
<1>4. SchedOK(r)
  BY <1>2, SameInv, Zenon DEF SchedOK
<1>5. ASSUME st = "Zombie"
      PROVE  /\ DeadTids(r) = DeadTids(s) \cup {s.current[0]}
             /\ Asleep(r) = Asleep(s) \ {s.current[0]}
  BY <1>2, <1>3, <1>5, Zenon DEF DeadTids, Asleep, S!Alive
<1>6. ASSUME st = "Blocked"
      PROVE  /\ DeadTids(r) = DeadTids(s) \ {s.current[0]}
             /\ Asleep(r) = Asleep(s) \cup {s.current[0]}
  BY <1>2, <1>3, <1>6, Zenon DEF DeadTids, Asleep, S!Alive
<1> QED BY <1>2, <1>4, <1>5, <1>6, Zenon

(* unblock_task, of any tid.                                               *)
LEMMA UnblockFacts ==
    ASSUME NEW s, SchedOK(s), NEW t, NEW r, r = S!UnblockTask(s, t)
    PROVE  /\ SchedOK(r) /\ r.next_tid = s.next_tid /\ r.current = s.current
           /\ DeadTids(r) = DeadTids(s) /\ Asleep(r) = Asleep(s) \ {t}
<1>1. s \in SP!SchedType /\ SP!SchedInv(s, {0}) /\ r = SP!UnblockTask(s, t)
  BY FieldFacts, SameOthers, Zenon
<1>2. /\ r \in SP!SchedType /\ SP!SchedInv(r, {0})
      /\ r.next_tid = s.next_tid /\ r.current = s.current
      /\ DOMAIN r.tasks = DOMAIN s.tasks
      /\ \A u \in DOMAIN s.tasks :
            r.tasks[u] = IF u = t /\ s.tasks[u] = "Blocked"
                         THEN "Ready" ELSE s.tasks[u]
  BY <1>1, SP!UnblockKeepsInv, SchedAssumption, OneCore
<1>3. SchedOK(r)
  BY <1>2, SameInv, Zenon DEF SchedOK
<1>4. DeadTids(r) = DeadTids(s)
  BY <1>2, Zenon DEF DeadTids, S!Alive
<1>5. Asleep(r) = Asleep(s) \ {t}
  BY <1>2, Zenon DEF Asleep, S!Alive
<1> QED BY <1>2, <1>3, <1>4, <1>5, Zenon

(* tick counts down and touches no task.                                   *)
LEMMA TickFacts ==
    ASSUME NEW s, SchedOK(s), NEW r, r = S!TickDown(s)
    PROVE  /\ SchedOK(r) /\ r.next_tid = s.next_tid /\ r.current = s.current
           /\ DeadTids(r) = DeadTids(s) /\ Asleep(r) = Asleep(s)
<1>1. s \in SP!SchedType /\ SP!SchedInv(s, {0}) /\ r = SP!TickDown(s)
  BY FieldFacts, SameOthers, Zenon
<1>2. /\ r \in SP!SchedType /\ SP!SchedInv(r, {0})
      /\ r.next_tid = s.next_tid /\ r.tasks = s.tasks /\ r.current = s.current
  BY <1>1, SP!TickKeepsInv, SchedAssumption, OneCore, Zenon
<1>3. SchedOK(r)
  BY <1>2, SameInv, Zenon DEF SchedOK
<1> QED BY <1>2, <1>3, Zenon DEF DeadTids, Asleep, S!Alive

(* Reserving tids touches no task.                                         *)
LEMMA ReserveFacts ==
    ASSUME NEW s, SchedOK(s), NEW k \in Nat, s.next_tid <= k, k <= TidMax,
           NEW r, r = [s EXCEPT !.next_tid = k]
    PROVE  /\ SchedOK(r) /\ r.next_tid = k /\ r.current = s.current
           /\ r.tasks = s.tasks
           /\ DeadTids(r) = DeadTids(s) /\ Asleep(r) = Asleep(s)
<1>1. s \in SP!SchedType /\ SP!SchedInv(s, {0}) /\ s.next_tid \in 1 .. TidMax
  BY FieldFacts, Zenon
<1>2. s = [tasks |-> s.tasks, ready |-> s.ready, current |-> s.current,
           next_tid |-> s.next_tid, slice_remaining |-> s.slice_remaining]
  BY <1>1, SP!SchedFields, SchedAssumption, Zenon
<1>3. r = [tasks |-> s.tasks, ready |-> s.ready, current |-> s.current,
           next_tid |-> k, slice_remaining |-> s.slice_remaining]
  BY <1>2, Zenon
<1>4. /\ r.tasks = s.tasks /\ r.ready = s.ready /\ r.current = s.current
      /\ r.next_tid = k /\ r.slice_remaining = s.slice_remaining
      /\ r = [tasks |-> r.tasks, ready |-> r.ready, current |-> r.current,
              next_tid |-> r.next_tid, slice_remaining |-> r.slice_remaining]
  BY <1>3, Zenon
<1>5. k \in 1 .. TidMax
  BY <1>1, ProcessConstants, TableConstants
<1>6. r \in SP!SchedType
  BY <1>1, <1>4, <1>5, SP!SchedFields, SP!SchedTypeIntro, SchedAssumption, Zenon
<1>7. SP!SchedInv(r, {0})
  BY <1>1, <1>4, Zenon DEF SP!SchedInv, SP!QueueSound, SP!CurSound, SP!IdleSound, SP!Alive
<1>8. DOMAIN r.tasks \subseteq 0 .. r.next_tid - 1
  BY <1>1, <1>4, <1>5 DEF SchedOK
<1>9. SchedOK(r)
  BY <1>6, <1>7, <1>8, SameInv, Zenon DEF SchedOK
<1> QED BY <1>4, <1>9, Zenon DEF DeadTids, Asleep, S!Alive

(* spawn_inner inserts the task of a reserved tid.                         *)
LEMMA InsertAsFacts ==
    ASSUME NEW s, SchedOK(s), NEW t \in 1 .. s.next_tid - 1,
           t \notin DOMAIN s.tasks, NEW st \in {"Blocked", "Ready"},
           NEW r, r = SP!InsertAs(s, t, st)
    PROVE  /\ SchedOK(r) /\ r.next_tid = s.next_tid /\ r.current = s.current
           /\ DeadTids(r) = DeadTids(s) \ {t}
           /\ Asleep(r) = Asleep(s) \cup (IF st = "Blocked" THEN {t} ELSE {})
           /\ DOMAIN r.tasks = DOMAIN s.tasks \cup {t}
           /\ \A u \in DOMAIN s.tasks : r.tasks[u] = s.tasks[u]
<1>1. s \in SP!SchedType /\ SP!SchedInv(s, {0}) /\ s.next_tid \in 1 .. TidMax
  BY FieldFacts, Zenon
<1>3. t \in SP!Tid /\ t \in Tid /\ t \in 0 .. s.next_tid - 1
  BY <1>1, ProcessConstants, TableConstants DEF SP!Tid, Tid
<1>4. /\ r \in SP!SchedType /\ SP!SchedInv(r, {0})
      /\ r.next_tid = s.next_tid /\ r.current = s.current
      /\ DOMAIN r.tasks = DOMAIN s.tasks \cup {t}
      /\ \A u \in DOMAIN s.tasks : r.tasks[u] = s.tasks[u]
      /\ r.tasks[t] = st
  BY <1>1, <1>3, SP!InsertAsKeepsInv, SchedAssumption, OneCore
<1>5. SchedOK(r)
  BY <1>3, <1>4, SameInv, Zenon DEF SchedOK
<1>6. DeadTids(r) = DeadTids(s) \ {t}
  BY <1>3, <1>4, Zenon DEF DeadTids, S!Alive
<1>7. Asleep(r) = Asleep(s) \cup (IF st = "Blocked" THEN {t} ELSE {})
  BY <1>3, <1>4, Zenon DEF Asleep, S!Alive
<1> QED BY <1>4, <1>5, <1>6, <1>7, Zenon

(* Its two uses: spawn_blocked and spawn.                                  *)
LEMMA InsertStates ==
    ASSUME NEW s, NEW t
    PROVE  /\ S!InsertTask(s, t, TRUE) = SP!InsertAs(s, t, "Blocked")
           /\ S!InsertTask(s, t, FALSE) = SP!InsertAs(s, t, "Ready")
<1>1. S!InsertTask(s, t, TRUE) = SP!InsertAs(s, t, "Blocked")
  BY Zenon DEF S!InsertTask, SP!InsertAs
<1>2. S!InsertTask(s, t, FALSE) = SP!InsertAs(s, t, "Ready")
  BY Zenon DEF S!InsertTask, SP!InsertAs
<1> QED BY <1>1, <1>2, Zenon

(* spawn_blocked: both lock sections of spawn_inner.                       *)
LEMMA SpawnFacts ==
    ASSUME NEW s, SchedOK(s), s.next_tid + 1 <= TidMax,
           NEW r, r = SP!InsertAs([s EXCEPT !.next_tid = @ + 1], s.next_tid, "Blocked")
    PROVE  /\ SchedOK(r) /\ r.next_tid = s.next_tid + 1 /\ r.current = s.current
           /\ DeadTids(r) = DeadTids(s) \ {s.next_tid}
           /\ Asleep(r) = Asleep(s) \cup {s.next_tid}
<1> DEFINE k == s.next_tid + 1
           a == [s EXCEPT !.next_tid = k]
<1>1. s.next_tid \in 1 .. TidMax
  BY FieldFacts, Zenon
<1>2. k \in Nat /\ s.next_tid <= k /\ k <= TidMax /\ s.next_tid \in 1 .. k - 1
  BY <1>1, ProcessConstants, TableConstants
<1>3. s.next_tid \notin DOMAIN s.tasks
  BY <1>1 DEF SchedOK
<1>4. r = SP!InsertAs(a, s.next_tid, "Blocked")
  BY Zenon
<1> HIDE DEF k
<1>5. /\ SchedOK(a) /\ a.next_tid = k /\ a.current = s.current
      /\ a.tasks = s.tasks
      /\ DeadTids(a) = DeadTids(s) /\ Asleep(a) = Asleep(s)
  BY <1>2, ReserveFacts, Zenon
<1> HIDE DEF a
<1>6. /\ SchedOK(r) /\ r.next_tid = a.next_tid /\ r.current = a.current
      /\ DeadTids(r) = DeadTids(a) \ {s.next_tid}
      /\ Asleep(r) = Asleep(a) \cup {s.next_tid}
  <2>1. s.next_tid \in 1 .. a.next_tid - 1 /\ s.next_tid \notin DOMAIN a.tasks
    BY <1>2, <1>3, <1>5, Zenon
  <2> QED BY <1>4, <1>5, <2>1, InsertAsFacts
<1> QED BY <1>5, <1>6, Zenon DEF k

(* main: three idle and kernel tasks, one of them dispatched.              *)
LEMMA BootFacts ==
    /\ SchedOK(BootSched) /\ BootSched.next_tid = 3
    /\ DeadTids(BootSched) = Tid \ {0, 1, 2}
    /\ Asleep(BootSched) = {}
<1> DEFINE i == S!InitSched
           a == [i EXCEPT !.next_tid = 3]
           b == S!InsertTask(a, 1, FALSE)
           c == S!InsertTask(b, 2, FALSE)
<1>1. i = [tasks |-> [t \in {0} |-> "Ready"], ready |-> << >>,
           current |-> [d \in {0} |-> d], next_tid |-> 1,
           slice_remaining |-> QUANTUM_TICKS]
  BY OneCore, Zenon DEF S!InitSched, S!IdleTids, S!Cores, SP!Cores
<1> HIDE DEF i
<1>2. SchedOK(i)
  <2>1. /\ i.tasks = [t \in {0} |-> "Ready"] /\ i.ready = << >>
        /\ i.current = [d \in {0} |-> d] /\ i.next_tid = 1
        /\ i.slice_remaining = QUANTUM_TICKS
        /\ i = [tasks |-> i.tasks, ready |-> i.ready, current |-> i.current,
                next_tid |-> i.next_tid, slice_remaining |-> i.slice_remaining]
    BY <1>1, Zenon
  <2>2. /\ DOMAIN i.tasks = {0} /\ i.tasks[0] = "Ready" /\ i.current[0] = 0
        /\ DOMAIN i.ready = {}
    BY <2>1
  <2>3. i \in SP!SchedType
    <3>1. /\ DOMAIN i.tasks \subseteq SP!Tid /\ i.ready \in Seq(SP!Tid)
          /\ i.next_tid \in 1 .. TidMax /\ i.slice_remaining \in 0 .. QUANTUM_TICKS
      BY <2>1, <2>2, ProcessConstants, TableConstants DEF SP!Tid
    <3>2. i.tasks \in [DOMAIN i.tasks -> SP!TaskState]
      BY <2>1, <2>2, Zenon DEF SP!TaskState
    <3>3. i.current \in [SP!Cores -> SP!Tid]
      BY <2>1, <2>2, OneCore, ProcessConstants, TableConstants DEF SP!Tid
    <3> QED BY <2>1, <3>1, <3>2, <3>3, SP!SchedTypeIntro, SchedAssumption, Zenon
  <2>4. SP!QueueSound(i)
    BY <2>1, <2>2, OneCore, Zenon DEF SP!QueueSound, SP!NoDup, SP!InQueue, SP!Alive, SP!IdleTids
  <2>5. SP!CurSound(i, {0}) /\ SP!IdleSound(i, {0})
    BY <2>1, <2>2, OneCore, Zenon DEF SP!CurSound, SP!IdleSound, SP!Alive, SP!IdleTids
  <2>6. DOMAIN i.tasks \subseteq 0 .. i.next_tid - 1
    BY <2>1, <2>2
  <2> QED BY <2>3, <2>4, <2>5, <2>6, SameInv, Zenon DEF SchedOK, SP!SchedInv
<1>3. DOMAIN i.tasks = {0} /\ i.tasks[0] = "Ready" /\ i.current[0] = 0 /\ i.next_tid = 1
  BY <1>1, Zenon
<1>4. DeadTids(i) = Tid \ {0} /\ Asleep(i) = {}
  BY <1>3, ProcessConstants, TableConstants, Zenon DEF DeadTids, Asleep, S!Alive, Tid
<1>5. /\ SchedOK(a) /\ a.next_tid = 3 /\ a.current = i.current
      /\ a.tasks = i.tasks
      /\ DeadTids(a) = DeadTids(i) /\ Asleep(a) = Asleep(i)
  BY <1>2, <1>3, ReserveFacts, ProcessConstants, TableConstants
<1> HIDE DEF a
<1>6. /\ SchedOK(b) /\ b.next_tid = a.next_tid /\ b.current = a.current
      /\ DeadTids(b) = DeadTids(a) \ {1}
      /\ Asleep(b) = Asleep(a)
      /\ DOMAIN b.tasks = DOMAIN a.tasks \cup {1}
      /\ \A u \in DOMAIN a.tasks : b.tasks[u] = a.tasks[u]
  <2>1. 1 \in 1 .. a.next_tid - 1 /\ 1 \notin DOMAIN a.tasks
    BY <1>3, <1>5
  <2>2. b = SP!InsertAs(a, 1, "Ready")
    BY InsertStates, Zenon
  <2> HIDE DEF b
  <2> QED BY <1>5, <2>1, <2>2, InsertAsFacts
<1> HIDE DEF b
<1>7. /\ SchedOK(c) /\ c.next_tid = b.next_tid /\ c.current = b.current
      /\ DeadTids(c) = DeadTids(b) \ {2}
      /\ Asleep(c) = Asleep(b)
      /\ \A u \in DOMAIN b.tasks : c.tasks[u] = b.tasks[u]
  <2>1. 2 \in 1 .. b.next_tid - 1 /\ 2 \notin DOMAIN b.tasks
    BY <1>3, <1>5, <1>6
  <2>2. c = SP!InsertAs(b, 2, "Ready")
    BY InsertStates, Zenon
  <2> HIDE DEF c
  <2> QED BY <1>6, <2>1, <2>2, InsertAsFacts
<1>8. c.current[0] = 0 /\ c.tasks[0] = "Ready"
  BY <1>3, <1>5, <1>6, <1>7, Zenon
<1>9. BootSched = SP!Dispatch(c, 0)
  BY SameDispatch, Zenon DEF BootSched, a, b, i
<1> DEFINE r == BootSched
<1> HIDE DEF c, r
<1>10. c \in SP!SchedType /\ SP!SchedInv(c, {0}) /\ {0} \cup {0} = {0}
  BY <1>7, FieldFacts, Zenon
<1>11. /\ r \in SP!SchedType /\ SP!SchedInv(r, {0})
       /\ r.next_tid = c.next_tid /\ DOMAIN r.tasks = DOMAIN c.tasks
       /\ c.tasks[r.current[0]] = "Ready" /\ r.tasks[r.current[0]] = "Running"
       /\ \A t \in DOMAIN c.tasks : t # r.current[0] => r.tasks[t] = c.tasks[t]
  <2>1. c.tasks[c.current[0]] # "Running" /\ r = SP!Dispatch(c, 0)
    BY <1>8, <1>9, Zenon DEF r
  <2> QED BY <1>10, <2>1, OneCore, SP!DispatchKeepsInv, SchedAssumption
<1>12. SchedOK(r)
  BY <1>7, <1>10, <1>11, SameInv, Zenon DEF SchedOK
<1>13. DeadTids(r) = DeadTids(c) /\ Asleep(r) = Asleep(c)
  BY <1>11, Zenon DEF DeadTids, Asleep, S!Alive
<1>14. DeadTids(c) = Tid \ {0, 1, 2} /\ Asleep(c) = {}
  BY <1>4, <1>5, <1>6, <1>7, Zenon
<1> QED BY <1>5, <1>6, <1>7, <1>11, <1>12, <1>13, <1>14, Zenon DEF r

(* What the proofs above take for granted about the scheduler is so.       *)
LEMMA SchedulerKnown == SchedulerView
<1>1. ASSUME NEW s, SchedOK(s)
      PROVE  /\ Fields(s)
             /\ Switched(s, S!PreemptSwitch(s, 0))
             /\ Ticked(s, S!TickDown(s))
  <2>1. Fields(s)
    BY <1>1, FieldFacts, Zenon DEF Fields
  <2>2. Switched(s, S!PreemptSwitch(s, 0))
    BY <1>1, SwitchFacts, Zenon DEF Switched
  <2>3. Ticked(s, S!TickDown(s))
    BY <1>1, TickFacts, Zenon DEF Ticked
  <2> QED BY <2>1, <2>2, <2>3, Zenon
<1>2. ASSUME NEW s, NEW t, SchedOK(s)
      PROVE  Woken(s, t, S!UnblockTask(s, t))
  BY <1>2, UnblockFacts, Zenon DEF Woken
<1>3. ASSUME NEW s, NEW st \in {"Blocked", "Zombie"}, SchedOK(s), s.current[0] # 0
      PROVE  SetAside(s, st, S!PutAside(s, 0, st))
  BY <1>3, PutAsideFacts, Zenon DEF SetAside
<1>4. ASSUME NEW s, SchedOK(s), s.next_tid + 1 <= TidMax
      PROVE  Born(s, S!InsertTask(Reserved(s), s.next_tid, TRUE))
  <2> DEFINE r == S!InsertTask(Reserved(s), s.next_tid, TRUE)
  <2>1. r = SP!InsertAs([s EXCEPT !.next_tid = @ + 1], s.next_tid, "Blocked")
    BY InsertStates, Zenon DEF Reserved
  <2> HIDE DEF r
  <2>2. Born(s, r)
    BY <1>4, <2>1, SpawnFacts, Zenon DEF Born
  <2> QED BY <2>2, Zenon DEF r
<1>5. Booted(BootSched)
  BY BootFacts, Zenon DEF Booted
<1> QED BY <1>1, <1>2, <1>3, <1>4, <1>5, Zenon DEF SchedulerView

-----------------------------------------------------------------------------
(* The invariant, of every state the handlers of process.rs, syscall.rs,   *)
(* scheduler.rs, main.rs and net.rs reach by running each other's tasks.   *)
THEOREM ProcessSafe == Spec => []IInv
<1>1. Init => IInv
  BY SchedulerKnown, InitIInv, Zenon
<1>2. IInv /\ [Next]_vars => IInv'
  BY SchedulerKnown, StepIInv, Zenon
<1> QED BY <1>1, <1>2, PTL DEF Spec

(* The process table, the scheduler under it and the program slots are     *)
(* well-formed after every handler: children and parent_pid agree through  *)
(* adoption, by_tid is the inverse of main_task, and every slot in use has *)
(* exactly one holder, whoever reaps and whatever is preempted.            *)
THEOREM ProcessTableSound == Spec => []ProcessInv
<1>1. IInv => ProcessInv
  BY IInvSays, Zenon
<1> QED BY <1>1, ProcessSafe, PTL

(* A user process is Zombie exactly when its task has ended: no reaper     *)
(* takes the process of a task that still runs, and no exit path (sys_exit,*)
(* a signal, sys_kill) leaves one of the two behind.                       *)
THEOREM UserProcessEndsWhole == Spec => []UserExitsWhole
<1>1. IInv => UserExitsWhole
  BY IInvSays, Zenon
<1> QED BY <1>1, ProcessSafe, PTL

(* A user task that can execute user code has a process with an fd table,  *)
(* although spawn_program makes the task before it registers the process.  *)
THEOREM UserCodeHasProcess == Spec => []UserHasProcess
<1>1. IInv => UserHasProcess
  BY IInvSays, Zenon
<1> QED BY <1>1, ProcessSafe, PTL

(* No task but pid 1's sleeps in sys_wait with a child to collect or with  *)
(* none left: the exit of a child wakes its parent, and nobody else        *)
(* collects that child.                                                    *)
THEOREM WaitersWoken == Spec => []WaiterNotStuck
<1>1. IInv => WaiterNotStuck
  BY IInvSays, Zenon
<1> QED BY <1>1, ProcessSafe, PTL
=============================================================================
