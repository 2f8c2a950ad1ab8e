--------------------------- MODULE ProcessWorld ----------------------------
(***************************************************************************)
(* The inductive invariant of Process, and what keeps it.                  *)
(*                                                                         *)
(* The invariant sees the scheduler through three values only: D, the tids *)
(* whose task has ended or does not exist; B, those whose task is Blocked; *)
(* and n, the next tid.  What is true of them, of the process table, the   *)
(* slots, the fd tables and the frames is a World, and each lemma here     *)
(* takes one World to another: a process is registered or removed, a task  *)
(* is spawned, ends, sleeps or wakes, a frame moves on.  ProcessSteps and  *)
(* ProcessTraps put them together, handler by handler.                     *)
(***************************************************************************)
EXTENDS ProcTable, FiniteSetTheorems, TLAPS

-----------------------------------------------------------------------------
(* The inductive invariant.                                                *)

StartPcs == {"register", "arrange", "start"}
ReapPcs == {"drain_free", "drain_fds", "reap_free", "reap_fds"}
SlotPcs == {"drain_free", "reap_free", "spawn", "unslot", "register"}
ExitPcs == {"exit_flag", "exit_trap"}
SweepPcs == {"sweep", "reap", "reap_free", "reap_fds", "yield"}

PcsOf(role) ==
    CASE role = "idle" -> {"yield"}
      [] role = "sup" -> {"drain", "drain_free", "drain_fds", "load", "unslot",
                          "spawn", "wait"} \cup StartPcs \cup SweepPcs
      [] role = "net" -> {"net", "spawn"} \cup StartPcs \cup SweepPcs
      [] role = "shell" -> {"prompt", "load", "unslot", "spawn", "wait",
                            "exit_mark"} \cup StartPcs \cup ExitPcs
      [] OTHER -> {"trampoline", "user", "wait"}

Pcs == {"yield", "drain", "drain_free", "drain_fds", "load", "unslot", "spawn",
        "wait", "register", "arrange", "start", "sweep", "reap", "reap_free",
        "reap_fds", "net", "prompt", "exit_mark", "exit_flag", "exit_trap",
        "trampoline", "user"}

Frame == [role : {"idle", "sup", "net", "shell", "user"}, pc : Pcs,
          slot : Slot \cup {0}, tid : Tid, pid : Pid \cup {0},
          dead : SUBSET Pid]

(* What is known of task t whose frame is r: where its locals are in use,  *)
(* they name a task, a process or a slot that is still what it was.        *)
TaskOK(D, B, n, P, F, t, r) ==
    /\ r \in Frame
    /\ r.pc \in PcsOf(r.role)
    /\ t = 0 \/ t >= n => r = Idle
    /\ r.slot # 0 => r.pc \in SlotPcs
    /\ r.role = "net" /\ r.pc \in {"spawn", "register"} => r.slot = 0
    /\ r.pc \in StartPcs => r.tid \in 1 .. n - 1
    /\ r.pc = "register" => r.tid \in B /\ r.tid \notin DOMAIN P.by_tid
    /\ r.pc = "arrange" => r.pid # 0
    /\ r.pc \in ReapPcs => r.pid \notin DOMAIN P.table /\ r.pid < P.next_pid
    /\ \A q \in r.dead : /\ q < P.next_pid
                         /\ q \in DOMAIN P.table => P.table[q].state = "Zombie"
    /\ r.role \in {"sup", "net", "shell"} /\ t \in D => r.pc \in ExitPcs
    /\ r.role \in {"sup", "shell"} /\ r.pc \in {"spawn", "register"}
          => PidOfTid(P, t) \in F
    /\ t \in B /\ r.pc = "wait" /\ t # 1
          => /\ Children(P, PidOfTid(P, t)) # {}
             /\ ZombieChildren(P, PidOfTid(P, t)) = {}

TasksOK(D, B, n, P, F, f) == \A t \in Tid : TaskOK(D, B, n, P, F, t, f[t])

Registers(f, u, t) == f[u].pc = "register" /\ f[u].tid = t

(* What is known of two tasks: a task being started has one starter, has   *)
(* not run before it is registered, and a user task that is registered has *)
(* an fd table.                                                            *)
PairsOK(D, P, F, f) ==
    /\ \A t, u \in Tid : f[t].pc \in StartPcs /\ f[u].pc \in StartPcs /\ t # u
          => f[t].tid # f[u].tid
    /\ \A u, t \in Tid : Registers(f, u, t)
          => /\ f[t].pc \in {"trampoline", "prompt"}
             /\ f[t].role = "user" \/ f[u].slot = 0
             /\ f[u].role = "net" => f[t].role # "user"
    /\ \A t \in Tid : f[t].role = "user" /\ t \notin D
          => PidOfTid(P, t) \in F \/ \E u \in Tid : Registers(f, u, t)

(* Pids do not overtake tids, so there is a pid for every task.            *)
CountOK(n, P, f) ==
    P.next_pid + Cardinality({t \in Tid : f[t].pc = "register"}) < n

(* SlotsExclusive without counting.                                        *)
SlotsOK(P, U, f) ==
    /\ \A s \in Slot : s \in U <=> \/ \E p \in DOMAIN P.table : P.table[p].slot = s
                                   \/ \E t \in Tid : f[t].slot = s
    /\ \A p, q \in DOMAIN P.table :
          P.table[p].slot # 0 /\ P.table[p].slot = P.table[q].slot => p = q
    /\ \A t, u \in Tid : f[t].slot # 0 /\ f[t].slot = f[u].slot => t = u
    /\ \A p \in DOMAIN P.table, t \in Tid :
          P.table[p].slot # 0 => P.table[p].slot # f[t].slot

(* FamilyTree of P, and that a parent is older than its children.          *)
Kinship(P) ==
    /\ \A p \in DOMAIN P.table : \A c \in Pid :
          c \in P.table[p].children
             <=> (c \in DOMAIN P.table /\ P.table[c].parent = p)
    /\ \A p \in DOMAIN P.table :
          /\ P.table[p].parent = 0 \/ P.table[p].parent \in DOMAIN P.table
          /\ P.table[p].parent < p
          /\ P.table[p].task \in DOMAIN P.by_tid
          /\ P.by_tid[P.table[p].task] = p
    /\ \A t \in DOMAIN P.by_tid : /\ P.by_tid[t] \in DOMAIN P.table
                                  /\ P.table[P.by_tid[t]].task = t
    /\ 1 \in DOMAIN P.table => P.table[1].task = 1

TableType(n, P) ==
    /\ P = [table |-> P.table, by_tid |-> P.by_tid, next_pid |-> P.next_pid]
    /\ P.next_pid \in Nat \ {0}
    /\ DOMAIN P.table \subseteq 1 .. P.next_pid - 1
    /\ DOMAIN P.table \subseteq Pid
    /\ \A p \in DOMAIN P.table : P.table[p] \in Process
    /\ DOMAIN P.by_tid \subseteq 1 .. n - 1

(* A process is marked when its task has ended, and a user process then.   *)
Ends(D, P, f) ==
    \A p \in DOMAIN P.table :
        /\ P.table[p].state = "Zombie" => P.table[p].task \in D
        /\ P.table[p].slot # 0
              => /\ f[P.table[p].task].role = "user"
                 /\ P.table[p].task \in D => P.table[p].state = "Zombie"

World(D, B, n, P, U, F, f) ==
    /\ n \in 1 .. TidMax /\ U \subseteq Slot /\ F \subseteq Pid
    /\ B \cap D = {}
    /\ f \in [Tid -> Frame]
    /\ TasksOK(D, B, n, P, F, f)
    /\ PairsOK(D, P, F, f)
    /\ CountOK(n, P, f)
    /\ SlotsOK(P, U, f)
    /\ TableType(n, P) /\ P.next_pid > 1 /\ Kinship(P) /\ Ends(D, P, f)

-----------------------------------------------------------------------------
(* Worlds that differ in one frame.                                        *)

(* A frame is replaced: the fields read.                                   *)
LEMMA FrameFacts ==
    ASSUME NEW f \in [Tid -> Frame], NEW t \in Tid, NEW r \in Frame,
           NEW g, g = [f EXCEPT ![t] = r]
    PROVE  /\ g \in [Tid -> Frame] /\ g[t] = r
           /\ \A u \in Tid : u # t => g[u] = f[u]
BY Zenon

(* The types of the fields of a frame.                                     *)
LEMMA FrameFields ==
    ASSUME NEW r \in Frame
    PROVE  /\ r.slot \in Slot \cup {0} /\ r.tid \in Tid
           /\ r.pid \in Pid \cup {0} /\ r.dead \subseteq Pid
           /\ r.role \in {"idle", "sup", "net", "shell", "user"}
           /\ r = [role |-> r.role, pc |-> r.pc, slot |-> r.slot,
                   tid |-> r.tid, pid |-> r.pid, dead |-> r.dead]
BY Zenon DEF Frame

(* The PCs of each role.                                                   *)
LEMMA RolePcs ==
    /\ PcsOf("idle") = {"yield"}
    /\ PcsOf("sup") = {"drain", "drain_free", "drain_fds", "load", "unslot",
                       "spawn", "wait", "register", "arrange", "start",
                       "sweep", "reap", "reap_free", "reap_fds", "yield"}
    /\ PcsOf("net") = {"net", "spawn", "register", "arrange", "start",
                       "sweep", "reap", "reap_free", "reap_fds", "yield"}
    /\ PcsOf("shell") = {"prompt", "load", "unslot", "spawn", "wait",
                         "exit_mark", "register", "arrange", "start",
                         "exit_flag", "exit_trap"}
    /\ PcsOf("user") = {"trampoline", "user", "wait"}
BY Zenon DEF PcsOf, StartPcs, SweepPcs, ExitPcs

(* So the PC of a frame tells its roles.                                   *)
LEMMA PcRoles ==
    ASSUME NEW r \in Frame, r.pc \in PcsOf(r.role)
    PROVE  /\ r.pc \in {"trampoline", "user"} => r.role = "user"
           /\ r.pc \in {"drain", "drain_free", "drain_fds"} => r.role = "sup"
           /\ r.pc \in {"sweep", "reap", "reap_free", "reap_fds"}
                 => r.role \in {"sup", "net"}
           /\ r.pc = "yield" => r.role \in {"idle", "sup", "net"}
           /\ r.pc \in {"load", "unslot"} => r.role \in {"sup", "shell"}
           /\ r.pc \in StartPcs \cup {"spawn"} => r.role \in {"sup", "net", "shell"}
           /\ r.pc = "net" => r.role = "net"
           /\ r.pc \in {"prompt", "exit_mark", "exit_flag", "exit_trap"}
                 => r.role = "shell"
           /\ r.pc = "wait" => r.role \in {"sup", "shell", "user"}
<1>1. r.role \in {"idle", "sup", "net", "shell", "user"}
  BY Zenon DEF Frame
<1> QED BY <1>1, RolePcs DEF StartPcs

(* Slots as one frame changes: kept, taken from the free ones, given back. *)
LEMMA SlotsSteps ==
    ASSUME NEW P, NEW U, NEW f \in [Tid -> Frame], SlotsOK(P, U, f),
           \A p \in DOMAIN P.table : P.table[p] \in Process,
           NEW t \in Tid, NEW r \in Frame, NEW g, g = [f EXCEPT ![t] = r]
    PROVE  /\ r.slot = f[t].slot => SlotsOK(P, U, g)
           /\ \A s \in Slot \ U :
                 f[t].slot = 0 /\ r.slot = s => SlotsOK(P, U \cup {s}, g)
           /\ r.slot = 0 => SlotsOK(P, U \ {f[t].slot}, g)
<1>1. /\ g[t] = r
      /\ \A u \in Tid : u # t => g[u] = f[u]
  BY FrameFacts, Zenon
<1>2. 0 \notin Slot
  BY DEF Slot
<1>3. /\ \A u \in Tid : f[u].slot \in Slot \cup {0}
      /\ \A p \in DOMAIN P.table : P.table[p].slot \in Slot \cup {0}
  BY FrameFields, Zenon DEF Process
<1>4. ASSUME r.slot = f[t].slot PROVE SlotsOK(P, U, g)
  <2>1. \A u \in Tid : g[u].slot = f[u].slot
    BY <1>1, <1>4, Zenon
  <2> QED BY <2>1 DEF SlotsOK
<1>5. ASSUME NEW s \in Slot \ U, f[t].slot = 0, r.slot = s
      PROVE  SlotsOK(P, U \cup {s}, g)
  <2>1. /\ \A p \in DOMAIN P.table : P.table[p].slot # s
        /\ \A u \in Tid : f[u].slot # s
    BY <1>5, Zenon DEF SlotsOK
  <2>2. \A u \in Tid : g[u].slot = IF u = t THEN s ELSE f[u].slot
    BY <1>1, <1>5, Zenon
  <2>3. ASSUME NEW x \in Slot
        PROVE  x \in U \cup {s} <=> \/ \E p \in DOMAIN P.table : P.table[p].slot = x
                                    \/ \E u \in Tid : g[u].slot = x
    <3>1. CASE x = s
      BY <2>2, <3>1, Zenon
    <3>2. CASE x # s
      BY <1>2, <1>5, <2>2, <3>2 DEF SlotsOK
    <3> QED BY <3>1, <3>2, Zenon
  <2>4. \A u, v \in Tid : g[u].slot # 0 /\ g[u].slot = g[v].slot => u = v
    BY <2>1, <2>2 DEF SlotsOK
  <2>5. \A p \in DOMAIN P.table, u \in Tid :
           P.table[p].slot # 0 => P.table[p].slot # g[u].slot
    BY <2>1, <2>2 DEF SlotsOK
  <2> QED BY <2>3, <2>4, <2>5, Zenon DEF SlotsOK
<1>6. ASSUME r.slot = 0 PROVE SlotsOK(P, U \ {f[t].slot}, g)
  <2>2. \A u \in Tid : g[u].slot = IF u = t THEN 0 ELSE f[u].slot
    BY <1>1, <1>6, Zenon
  <2>3. ASSUME NEW x \in Slot
        PROVE  x \in U \ {f[t].slot} <=> \/ \E p \in DOMAIN P.table : P.table[p].slot = x
                                         \/ \E u \in Tid : g[u].slot = x
    <3>1. CASE x = f[t].slot
      BY <1>2, <2>2, <3>1 DEF SlotsOK
    <3>2. CASE x # f[t].slot
      BY <1>2, <2>2, <3>2 DEF SlotsOK
    <3> QED BY <3>1, <3>2, Zenon
  <2>4. \A u, v \in Tid : g[u].slot # 0 /\ g[u].slot = g[v].slot => u = v
    BY <2>2 DEF SlotsOK
  <2>5. \A p \in DOMAIN P.table, u \in Tid :
           P.table[p].slot # 0 => P.table[p].slot # g[u].slot
    BY <2>2 DEF SlotsOK
  <2> QED BY <2>3, <2>4, <2>5, Zenon DEF SlotsOK
<1> QED BY <1>4, <1>5, <1>6, Zenon

(* The running task moves on, without touching the table and without       *)
(* registering or starting to register a task.                             *)
LEMMA FrameStep ==
    ASSUME NEW D, NEW B, NEW n, NEW P, NEW U, NEW F, NEW f,
           World(D, B, n, P, U, F, f),
           NEW t \in Tid, t \notin B, NEW r, TaskOK(D, B, n, P, F, t, r),
           r.role = f[t].role, NEW V \in SUBSET Slot,
           f[t].pc # "register", r.pc # "register",
           r.pc \in StartPcs => f[t].pc \in StartPcs /\ r.tid = f[t].tid,
           NEW g, g = [f EXCEPT ![t] = r], SlotsOK(P, V, g)
    PROVE  World(D, B, n, P, V, F, g)
<1>1. f \in [Tid -> Frame] /\ r \in Frame
  BY Zenon DEF World, TaskOK
<1>2. /\ g \in [Tid -> Frame] /\ g[t] = r
      /\ \A u \in Tid : u # t => g[u] = f[u]
  BY <1>1, FrameFacts, Zenon
<1>3. TasksOK(D, B, n, P, F, g)
  BY <1>2, Zenon DEF World, TasksOK
<1>4. \A u, v \in Tid : Registers(g, u, v) <=> Registers(f, u, v)
  BY <1>2, Zenon DEF Registers
<1>5. \A u \in Tid : ~Registers(f, u, t)
  BY Zenon DEF World, TasksOK, TaskOK, Registers
<1>6. PairsOK(D, P, F, g)
  <2>1. \A u \in Tid : g[u].pc \in StartPcs => f[u].pc \in StartPcs /\ g[u].tid = f[u].tid
    BY <1>2, Zenon
  <2>2. \A u \in Tid : g[u].role = f[u].role
    BY <1>2, Zenon
  <2>3. \A v, u \in Tid : g[v].pc \in StartPcs /\ g[u].pc \in StartPcs /\ v # u
           => g[v].tid # g[u].tid
    BY <2>1 DEF World, PairsOK
  <2>4. \A u, v \in Tid : Registers(g, u, v)
           => /\ g[v].pc \in {"trampoline", "prompt"}
              /\ g[v].role = "user" \/ g[u].slot = 0
              /\ g[u].role = "net" => g[v].role # "user"
    BY <1>2, <1>4, <1>5, <2>2 DEF World, PairsOK, Registers
  <2>5. \A v \in Tid : g[v].role = "user" /\ v \notin D
           => PidOfTid(P, v) \in F \/ \E u \in Tid : Registers(g, u, v)
    BY <1>4, <2>2, Zenon DEF World, PairsOK
  <2> QED BY <2>3, <2>4, <2>5, Zenon DEF PairsOK
<1>7. CountOK(n, P, g)
  <2>1. {u \in Tid : g[u].pc = "register"} = {u \in Tid : f[u].pc = "register"}
    BY <1>2, Zenon
  <2> QED BY <2>1, Zenon DEF World, CountOK
<1>9. Ends(D, P, g)
  <2>1. \A u \in Tid : g[u].role = f[u].role
    BY <1>2, Zenon
  <2>2. \A p \in DOMAIN P.table : P.table[p].task \in Tid
    BY Zenon DEF World, TableType, Process
  <2> QED BY <2>1, <2>2, Zenon DEF World, Ends
<1> QED BY <1>2, <1>3, <1>6, <1>7, <1>9, Zenon DEF World

-----------------------------------------------------------------------------
(* Removing a process.                                                     *)

(* The types of the fields of a process.                                   *)
LEMMA ProcFields ==
    ASSUME NEW r \in Process
    PROVE  /\ r.parent \in Pid \cup {0} /\ r.task \in Tid
           /\ r.state \in {"Running", "Zombie"}
           /\ r.children \subseteq Pid /\ r.slot \in Slot \cup {0}
           /\ r.pending \subseteq Sigs
           /\ r = [parent |-> r.parent, task |-> r.task, state |-> r.state,
                   name |-> r.name, children |-> r.children, slot |-> r.slot,
                   pending |-> r.pending]
BY Zenon DEF Process

(* A process that keeps its task, its slot and its family.                 *)
Edit(r, w) ==
    /\ w \in Process
    /\ w.task = r.task /\ w.slot = r.slot /\ w.parent = r.parent
    /\ w.children = r.children
    /\ r.state = "Zombie" => w.state = "Zombie"

(* One that is marked Zombie does.                                         *)
LEMMA EditState ==
    ASSUME NEW r \in Process
    PROVE  /\ Edit(r, [r EXCEPT !.state = "Zombie"])
           /\ [r EXCEPT !.state = "Zombie"].state = "Zombie"
BY Zenon DEF Process, Edit

(* One whose pending signals change does.                                  *)
LEMMA EditPending ==
    ASSUME NEW r \in Process, NEW G \in SUBSET Sigs
    PROVE  /\ Edit(r, [r EXCEPT !.pending = G])
           /\ [r EXCEPT !.pending = G].state = r.state
BY Zenon DEF Process, Edit

Heir(P, p) == IF p # 1 /\ 1 \in DOMAIN P.table THEN 1 ELSE 0

(* remove_process: who is left, and what changed for them.                 *)
LEMMA RemoveFacts ==
    ASSUME NEW n, NEW P, TableType(n, P), NEW p \in DOMAIN P.table,
           NEW Q, Q = RemoveProcess(P, p)
    PROVE  /\ Q.next_pid = P.next_pid
           /\ DOMAIN Q.table = DOMAIN P.table \ {p}
           /\ DOMAIN Q.by_tid = DOMAIN P.by_tid \ {P.table[p].task}
           /\ \A t \in DOMAIN Q.by_tid : Q.by_tid[t] = P.by_tid[t]
           /\ \A q \in DOMAIN Q.table :
                 /\ Q.table[q] \in Process
                 /\ Q.table[q].task = P.table[q].task
                 /\ Q.table[q].state = P.table[q].state
                 /\ Q.table[q].slot = P.table[q].slot
                 /\ Q.table[q].parent = IF q \in P.table[p].children
                                        THEN Heir(P, p) ELSE P.table[q].parent
                 /\ Q.table[q].children =
                       (IF q = P.table[p].parent
                        THEN P.table[q].children \ {p} ELSE P.table[q].children)
                       \cup (IF q = Heir(P, p) THEN P.table[p].children ELSE {})
           /\ TableType(n, Q)
<1> DEFINE gone == P.table[p]
           heir == Heir(P, p)
           kin(q) == (IF q = gone.parent THEN P.table[q].children \ {p}
                      ELSE P.table[q].children)
                     \cup (IF q = heir THEN gone.children ELSE {})
           par(q) == IF q \in gone.children THEN heir ELSE P.table[q].parent
           adopt(q) == [P.table[q] EXCEPT !.parent = par(q), !.children = kin(q)]
           T == [q \in DOMAIN P.table \ {p} |-> adopt(q)]
           b == [t \in DOMAIN P.by_tid \ {gone.task} |-> P.by_tid[t]]
<1>1. P = [table |-> P.table, by_tid |-> P.by_tid, next_pid |-> P.next_pid]
  BY Zenon DEF TableType
<1>2. Q = [P EXCEPT !.table = T, !.by_tid = b]
  BY Zenon DEF RemoveProcess, Without, Heir
<1>3. heir \in Pid \cup {0}
  BY TableConstants DEF Heir, Pid
<1>4. ASSUME NEW q \in DOMAIN P.table
      PROVE  /\ adopt(q) \in Process
             /\ adopt(q).task = P.table[q].task
             /\ adopt(q).state = P.table[q].state
             /\ adopt(q).slot = P.table[q].slot
             /\ adopt(q).parent = par(q)
             /\ adopt(q).children = kin(q)
  <2>1. P.table[q] \in Process /\ gone \in Process
    BY Zenon DEF TableType
  <2>2. kin(q) \subseteq Pid /\ par(q) \in Pid \cup {0}
    BY <1>3, <2>1, ProcFields, Zenon
  <2> HIDE DEF kin, par, gone
  <2> QED BY <2>1, <2>2, Zenon DEF Process
<1> HIDE DEF adopt
<1>5. DOMAIN T = DOMAIN P.table \ {p} /\ \A q \in DOMAIN T : T[q] = adopt(q)
  BY Zenon
<1>6. DOMAIN b = DOMAIN P.by_tid \ {gone.task} /\ \A t \in DOMAIN b : b[t] = P.by_tid[t]
  BY Zenon
<1> HIDE DEF T, b
<1>7. Q = [table |-> T, by_tid |-> b, next_pid |-> P.next_pid]
  BY <1>1, <1>2, Zenon
<1>8. Q.table = T /\ Q.by_tid = b /\ Q.next_pid = P.next_pid
      /\ Q = [table |-> Q.table, by_tid |-> Q.by_tid, next_pid |-> Q.next_pid]
  BY <1>7
<1>9. ASSUME NEW q \in DOMAIN Q.table
      PROVE  /\ Q.table[q] \in Process
             /\ Q.table[q].task = P.table[q].task
             /\ Q.table[q].state = P.table[q].state
             /\ Q.table[q].slot = P.table[q].slot
             /\ Q.table[q].parent = par(q)
             /\ Q.table[q].children = kin(q)
  BY <1>4, <1>5, <1>8
<1>10. TableType(n, Q)
  BY <1>5, <1>6, <1>8, <1>9, Zenon DEF TableType
<1> QED BY <1>5, <1>6, <1>8, <1>9, <1>10, Zenon

(* The family tree survives a removal, through adoption.                   *)
LEMMA RemoveKin ==
    ASSUME NEW n, NEW P, TableType(n, P), Kinship(P), NEW p \in DOMAIN P.table,
           NEW Q, Q = RemoveProcess(P, p)
    PROVE  Kinship(Q)
<1>1. /\ Q.next_pid = P.next_pid
      /\ DOMAIN Q.table = DOMAIN P.table \ {p}
      /\ DOMAIN Q.by_tid = DOMAIN P.by_tid \ {P.table[p].task}
      /\ \A t \in DOMAIN Q.by_tid : Q.by_tid[t] = P.by_tid[t]
      /\ \A q \in DOMAIN Q.table :
            /\ Q.table[q].task = P.table[q].task
            /\ Q.table[q].parent = IF q \in P.table[p].children
                                   THEN Heir(P, p) ELSE P.table[q].parent
            /\ Q.table[q].children =
                  (IF q = P.table[p].parent
                   THEN P.table[q].children \ {p} ELSE P.table[q].children)
                  \cup (IF q = Heir(P, p) THEN P.table[p].children ELSE {})
      /\ TableType(n, Q)
  BY RemoveFacts
<1>2. /\ DOMAIN P.table \subseteq Nat \ {0}
      /\ p \in Nat
      /\ \A q \in DOMAIN P.table : P.table[q].parent \in Nat /\ P.table[q].parent < q
      /\ \A q \in DOMAIN P.table : q \in Pid => P.table[q].children \subseteq Pid
  BY ProcFields DEF TableType, Kinship, Pid
<1>3. /\ p \notin P.table[p].children
      /\ P.table[p].parent # p
      /\ 1 \notin P.table[p].children
      /\ \A q \in DOMAIN P.table : q \in P.table[p].children => q > 1
  <2>1. \A c \in P.table[p].children : c \in Pid /\ c \in DOMAIN P.table /\ P.table[c].parent = p
    BY ProcFields, Zenon DEF TableType, Kinship
  <2> QED BY <1>2, <2>1
<1>4. ASSUME NEW q \in DOMAIN Q.table, NEW c \in Pid
      PROVE  c \in Q.table[q].children
                <=> (c \in DOMAIN Q.table /\ Q.table[c].parent = q)
  <2>1. /\ c \in P.table[q].children <=> (c \in DOMAIN P.table /\ P.table[c].parent = q)
        /\ c \in P.table[p].children <=> (c \in DOMAIN P.table /\ P.table[c].parent = p)
    BY <1>1 DEF Kinship
  <2>2. q # 0 /\ q # p /\ q \in DOMAIN P.table
    BY <1>1, <1>2, Zenon
  <2>3. CASE c = p
    BY <1>1, <1>3, <2>1, <2>2, <2>3
  <2>4. CASE c # p /\ c \in P.table[p].children
    BY <1>1, <1>3, <2>1, <2>2, <2>4
  <2>5. CASE c # p /\ c \notin P.table[p].children
    BY <1>1, <1>3, <2>1, <2>2, <2>5
  <2> QED BY <2>3, <2>4, <2>5, Zenon
<1>5. ASSUME NEW q \in DOMAIN Q.table
      PROVE  /\ Q.table[q].parent = 0 \/ Q.table[q].parent \in DOMAIN Q.table
             /\ Q.table[q].parent < q
  <2>1. CASE q \in P.table[p].children
    BY <1>1, <1>2, <1>3, <2>1 DEF Heir
  <2>2. CASE q \notin P.table[p].children
    <3>1. P.table[q].parent # p
      <4>1. q \in Pid
        BY <1>1, <2>2, ProcFields, Zenon DEF TableType, Pid, Kinship
      <4> QED BY <1>1, <2>2, <4>1, Zenon DEF Kinship
    <3> QED BY <1>1, <1>2, <2>2, <3>1 DEF Kinship
  <2> QED BY <2>1, <2>2, Zenon
<1>6. ASSUME NEW q \in DOMAIN Q.table
      PROVE  /\ Q.table[q].task \in DOMAIN Q.by_tid
             /\ Q.by_tid[Q.table[q].task] = q
  BY <1>1 DEF Kinship
<1>7. ASSUME NEW t \in DOMAIN Q.by_tid
      PROVE  Q.by_tid[t] \in DOMAIN Q.table /\ Q.table[Q.by_tid[t]].task = t
  BY <1>1 DEF Kinship
<1>8. 1 \in DOMAIN Q.table => Q.table[1].task = 1
  BY <1>1, Zenon DEF Kinship
<1> QED BY <1>4, <1>5, <1>6, <1>7, <1>8, Zenon DEF Kinship

(* The slot of the process that is removed is freed, or handed to the task *)
(* that removed it.                                                        *)
LEMMA RemoveSlots ==
    ASSUME NEW n, NEW P, TableType(n, P), NEW p \in DOMAIN P.table,
           NEW Q, Q = RemoveProcess(P, p),
           NEW U, NEW f \in [Tid -> Frame], SlotsOK(P, U, f),
           NEW t \in Tid, NEW r \in Frame, NEW g, g = [f EXCEPT ![t] = r]
    PROVE  /\ r.slot = f[t].slot => SlotsOK(Q, U \ {P.table[p].slot}, g)
           /\ f[t].slot = 0 /\ r.slot = P.table[p].slot => SlotsOK(Q, U, g)
<1> DEFINE s == P.table[p].slot
<1>1. /\ g[t] = r
      /\ \A u \in Tid : u # t => g[u] = f[u]
  BY FrameFacts, Zenon
<1>2. /\ DOMAIN Q.table = DOMAIN P.table \ {p}
      /\ \A q \in DOMAIN Q.table : Q.table[q].slot = P.table[q].slot
  BY RemoveFacts
<1>3. 0 \notin Slot
  BY DEF Slot
<1>4. /\ \A q \in DOMAIN P.table : s # 0 /\ P.table[q].slot = s => q = p
      /\ \A u \in Tid : s # 0 => f[u].slot # s
  BY Zenon DEF SlotsOK
<1>5. /\ \A q, w \in DOMAIN Q.table :
            Q.table[q].slot # 0 /\ Q.table[q].slot = Q.table[w].slot => q = w
      /\ \A q \in DOMAIN Q.table : s # 0 => Q.table[q].slot # s
  BY <1>2, <1>4 DEF SlotsOK
<1> HIDE DEF s
<1>6. ASSUME r.slot = f[t].slot PROVE SlotsOK(Q, U \ {s}, g)
  <2>1. \A u \in Tid : g[u].slot = f[u].slot
    BY <1>1, <1>6, Zenon
  <2>2. ASSUME NEW x \in Slot
        PROVE  x \in U \ {s} <=> \/ \E q \in DOMAIN Q.table : Q.table[q].slot = x
                                 \/ \E u \in Tid : g[u].slot = x
    <3>1. CASE x = s
      BY <1>3, <1>4, <1>5, <2>1, <3>1, Zenon
    <3>2. CASE x # s
      <4>1. x \in U <=> \/ \E q \in DOMAIN P.table : P.table[q].slot = x
                        \/ \E u \in Tid : f[u].slot = x
        BY Zenon DEF SlotsOK
      <4> QED BY <1>2, <2>1, <3>2, <4>1, Zenon DEF s
    <3> QED BY <3>1, <3>2, Zenon
  <2> QED BY <1>2, <1>5, <2>1, <2>2 DEF SlotsOK
<1>7. ASSUME f[t].slot = 0, r.slot = s PROVE SlotsOK(Q, U, g)
  <2>1. \A u \in Tid : g[u].slot = IF u = t THEN s ELSE f[u].slot
    BY <1>1, <1>7, Zenon
  <2>2. ASSUME NEW x \in Slot
        PROVE  x \in U <=> \/ \E q \in DOMAIN Q.table : Q.table[q].slot = x
                           \/ \E u \in Tid : g[u].slot = x
    <3>1. x \in U <=> \/ \E q \in DOMAIN P.table : P.table[q].slot = x
                      \/ \E u \in Tid : f[u].slot = x
      BY Zenon DEF SlotsOK
    <3>2. CASE x = s
      BY <2>1, <3>1, <3>2, Zenon DEF s
    <3>3. CASE x # s
      BY <1>2, <1>3, <1>7, <2>1, <3>1, <3>3, Zenon DEF s
    <3> QED BY <3>2, <3>3, Zenon
  <2>3. \A u, v \in Tid : g[u].slot # 0 /\ g[u].slot = g[v].slot => u = v
    BY <1>4, <2>1 DEF SlotsOK
  <2>4. \A q \in DOMAIN Q.table, u \in Tid :
           Q.table[q].slot # 0 => Q.table[q].slot # g[u].slot
    BY <1>2, <1>5, <2>1 DEF SlotsOK
  <2> QED BY <1>5, <2>2, <2>3, <2>4, Zenon DEF SlotsOK
<1> QED BY <1>6, <1>7, Zenon DEF s

(* No task but the one that removed it notices that an exited process is   *)
(* gone: its own process is there, and the children it waits for.          *)
LEMMA RemoveUnnoticed ==
    ASSUME NEW D, NEW B, NEW n, NEW P, NEW U, NEW F, NEW f,
           World(D, B, n, P, U, F, f),
           NEW p \in DOMAIN P.table, P.table[p].state = "Zombie",
           NEW Q, Q = RemoveProcess(P, p),
           NEW E, F \ {p} \subseteq E, E \subseteq F
    PROVE  /\ \A u \in Tid \ D : PidOfTid(Q, u) = PidOfTid(P, u)
           /\ \A u \in Tid \ D : PidOfTid(P, u) \in F => PidOfTid(Q, u) \in E
           /\ TasksOK(D, B, n, Q, E, f)
<1>1. TableType(n, P) /\ Kinship(P) /\ Ends(D, P, f)
  BY Zenon DEF World
<1>2. /\ Q.next_pid = P.next_pid
      /\ DOMAIN Q.table = DOMAIN P.table \ {p}
      /\ DOMAIN Q.by_tid = DOMAIN P.by_tid \ {P.table[p].task}
      /\ \A t \in DOMAIN Q.by_tid : Q.by_tid[t] = P.by_tid[t]
      /\ \A q \in DOMAIN Q.table :
            /\ Q.table[q].task = P.table[q].task
            /\ Q.table[q].state = P.table[q].state
            /\ Q.table[q].children =
                  (IF q = P.table[p].parent
                   THEN P.table[q].children \ {p} ELSE P.table[q].children)
                  \cup (IF q = Heir(P, p) THEN P.table[p].children ELSE {})
  BY <1>1, RemoveFacts
<1>3. P.table[p].task \in D
  BY <1>1, Zenon DEF Ends
<1>4. \A u \in Tid \ D : PidOfTid(Q, u) = PidOfTid(P, u)
  BY <1>2, <1>3, Zenon DEF PidOfTid
<1>5. \A u \in Tid \ D : PidOfTid(P, u) # p
  <2>1. p # 0
    BY <1>1 DEF TableType
  <2> QED BY <1>1, <1>3, <2>1 DEF PidOfTid, Kinship
<1>6. \A u \in Tid \ D : PidOfTid(P, u) \in F => PidOfTid(Q, u) \in E
  BY <1>4, <1>5, Zenon
<1>7. ASSUME NEW u \in Tid, u \in B, f[u].pc = "wait", u # 1
      PROVE  /\ Children(Q, PidOfTid(Q, u)) # {}
             /\ ZombieChildren(Q, PidOfTid(Q, u)) = {}
  <2> DEFINE q == PidOfTid(P, u)
  <2>1. u \notin D /\ PidOfTid(Q, u) = q /\ q # p
    BY <1>4, <1>5, <1>7, Zenon DEF World
  <2>2. Children(P, q) # {} /\ ZombieChildren(P, q) = {}
    BY <1>7, Zenon DEF World, TasksOK, TaskOK
  <2>3. q \in DOMAIN P.table
    BY <2>2, Zenon DEF Children
  <2>4. q # 1
    <3>1. 0 \notin DOMAIN P.table
      BY <1>1 DEF TableType
    <3> QED BY <1>1, <1>7, <2>3, <3>1, Zenon DEF PidOfTid, Kinship
  <2>5. q # P.table[p].parent
    <3>1. p \in Pid
      BY <1>1, Zenon DEF TableType
    <3>2. q = P.table[p].parent => p \in P.table[q].children
      BY <1>1, <2>3, <3>1, Zenon DEF Kinship
    <3> QED BY <2>2, <2>3, <3>2, Zenon DEF ZombieChildren, Children, IsZombie
  <2> HIDE DEF q
  <2>6. q # 0
    BY <1>1, <2>3 DEF TableType
  <2>7. Q.table[q].children = P.table[q].children /\ q \in DOMAIN Q.table
    <3>1. q \in DOMAIN Q.table /\ q # Heir(P, p)
      BY <1>2, <2>1, <2>3, <2>4, <2>6, Zenon DEF Heir
    <3>2. Q.table[q].children = P.table[q].children \cup {}
      BY <1>2, <2>5, <3>1, Zenon
    <3> QED BY <3>1, <3>2, Zenon
  <2>8. \A c : IsZombie(Q, c) => IsZombie(P, c)
    BY <1>2, Zenon DEF IsZombie
  <2> QED BY <2>1, <2>2, <2>3, <2>7, <2>8, Zenon DEF Children, ZombieChildren
<1>8. ASSUME NEW u \in Tid PROVE TaskOK(D, B, n, Q, E, u, f[u])
  <2>1. TaskOK(D, B, n, P, F, u, f[u])
    BY Zenon DEF World, TasksOK
  <2>2. f[u].role \in {"sup", "shell"} /\ f[u].pc \in {"spawn", "register"}
           => PidOfTid(Q, u) \in E
    <3>1. {"spawn", "register"} \cap ExitPcs = {}
      BY Zenon DEF ExitPcs
    <3> QED BY <1>6, <2>1, <3>1, Zenon DEF TaskOK
  <2>3. \A q \in f[u].dead :
           /\ q < Q.next_pid
           /\ q \in DOMAIN Q.table => Q.table[q].state = "Zombie"
    BY <1>2, <2>1, Zenon DEF TaskOK
  <2> QED BY <1>2, <1>7, <2>1, <2>2, <2>3, Zenon DEF TaskOK
<1> QED BY <1>4, <1>6, <1>8, Zenon DEF TasksOK

(* remove_process of an exited process, its slot and perhaps its fd table  *)
(* given back with it.                                                     *)
LEMMA RemoveWorld ==
    ASSUME NEW D, NEW B, NEW n, NEW P, NEW U, NEW F, NEW f,
           World(D, B, n, P, U, F, f),
           NEW p \in DOMAIN P.table, P.table[p].state = "Zombie",
           NEW Q, Q = RemoveProcess(P, p),
           NEW E, F \ {p} \subseteq E, E \subseteq F
    PROVE  World(D, B, n, Q, U \ {P.table[p].slot}, E, f)
<1>1. TableType(n, P) /\ Kinship(P) /\ Ends(D, P, f) /\ f \in [Tid -> Frame]
  BY Zenon DEF World
<1>2. /\ \A u \in Tid \ D : PidOfTid(P, u) \in F => PidOfTid(Q, u) \in E
      /\ TasksOK(D, B, n, Q, E, f)
  BY RemoveUnnoticed
<1>3. TableType(n, Q) /\ Kinship(Q)
  BY <1>1, RemoveFacts, RemoveKin, Zenon
<1>4. /\ Q.next_pid = P.next_pid
      /\ DOMAIN Q.table = DOMAIN P.table \ {p}
      /\ \A q \in DOMAIN Q.table :
            /\ Q.table[q].task = P.table[q].task
            /\ Q.table[q].state = P.table[q].state
            /\ Q.table[q].slot = P.table[q].slot
  BY <1>1, RemoveFacts
<1>5. PairsOK(D, Q, E, f)
  BY <1>2, Zenon DEF World, PairsOK
<1>6. CountOK(n, Q, f)
  BY <1>4, Zenon DEF World, CountOK
<1>7. Ends(D, Q, f)
  BY <1>1, <1>4 DEF Ends
<1>8. SlotsOK(Q, U \ {P.table[p].slot}, f)
  <2>1. 0 \in Tid /\ f[0] \in Frame /\ f = [f EXCEPT ![0] = f[0]]
    BY <1>1, TableConstants DEF Tid
  <2>2. SlotsOK(P, U, f)
    BY Zenon DEF World
  <2> QED BY <1>1, <2>1, <2>2, RemoveSlots
<1> QED BY <1>1, <1>2, <1>3, <1>4, <1>5, <1>6, <1>7, <1>8, Zenon DEF World
-----------------------------------------------------------------------------
(* Registering a process.                                                  *)

(* What register_process changes: the new entry, its parent's list of      *)
(* children.                                                               *)
Registered(n, P, Q, t, by, slot) ==
    /\ Q.next_pid = P.next_pid + 1
    /\ DOMAIN Q.table = DOMAIN P.table \cup {P.next_pid}
    /\ DOMAIN Q.by_tid = DOMAIN P.by_tid \cup {t}
    /\ Q.by_tid[t] = P.next_pid
    /\ \A u \in DOMAIN P.by_tid : u # t => Q.by_tid[u] = P.by_tid[u]
    /\ \A q \in DOMAIN P.table :
          /\ Q.table[q].task = P.table[q].task
          /\ Q.table[q].state = P.table[q].state
          /\ Q.table[q].slot = P.table[q].slot
          /\ Q.table[q].parent = P.table[q].parent
          /\ Q.table[q].children =
                P.table[q].children
                \cup (IF q = PidOfTid(P, by) THEN {P.next_pid} ELSE {})
    /\ Q.table[P.next_pid].parent = PidOfTid(P, by)
    /\ Q.table[P.next_pid].task = t
    /\ Q.table[P.next_pid].state = "Running"
    /\ Q.table[P.next_pid].children = {}
    /\ Q.table[P.next_pid].slot = slot
    /\ TableType(n, Q)

(* register_process does that.                                             *)
LEMMA RegisterFacts ==
    ASSUME NEW n \in Nat, NEW P, TableType(n, P), P.next_pid \in Pid,
           NEW name \in {"init-sup", "init", "ssh-shell", "program"},
           NEW t \in 1 .. n - 1, t \in Tid, NEW by,
           NEW slot \in Slot \cup {0}, PidOfTid(P, by) \in Pid \cup {0},
           NEW Q, Q = RegisterProcess(P, name, t, by, slot)
    PROVE  Registered(n, P, Q, t, by, slot)
<1> DEFINE k == P.next_pid
           parent == PidOfTid(P, by)
           proc == [parent |-> parent, task |-> t, name |-> name,
                    state |-> "Running", children |-> {}, slot |-> slot,
                    pending |-> {}]
           grown == [q \in DOMAIN P.table \cup {k} |->
                        IF q = k THEN proc ELSE P.table[q]]
           T == IF parent \in DOMAIN P.table
                THEN [grown EXCEPT ![parent].children = @ \cup {k}] ELSE grown
           b == [u \in DOMAIN P.by_tid \cup {t} |-> IF u = t THEN k ELSE P.by_tid[u]]
<1>1. Q = [table |-> T, by_tid |-> b, next_pid |-> k + 1]
  BY Zenon DEF RegisterProcess, With
<1>2. k \in Nat \ {0} /\ k \notin DOMAIN P.table
  BY DEF TableType
<1>3. proc \in Process
  BY Zenon DEF Process
<1>4. /\ DOMAIN grown = DOMAIN P.table \cup {k}
      /\ grown[k] = proc
      /\ \A q \in DOMAIN P.table : grown[q] = P.table[q]
  BY <1>2, Zenon
<1> HIDE DEF grown, proc
<1>5. /\ DOMAIN T = DOMAIN P.table \cup {k}
      /\ T[k] = proc
      /\ \A q \in DOMAIN P.table :
            T[q] = IF q = parent
                   THEN [P.table[q] EXCEPT !.children = @ \cup {k}]
                   ELSE P.table[q]
  BY <1>2, <1>4, Zenon
<1>6. /\ DOMAIN b = DOMAIN P.by_tid \cup {t} /\ b[t] = k
      /\ \A u \in DOMAIN P.by_tid : u # t => b[u] = P.by_tid[u]
  BY Zenon
<1> HIDE DEF T, b
<1>7. /\ Q.table = T /\ Q.by_tid = b /\ Q.next_pid = k + 1
      /\ Q = [table |-> Q.table, by_tid |-> Q.by_tid, next_pid |-> Q.next_pid]
  BY <1>1
<1>8. ASSUME NEW q \in DOMAIN P.table
      PROVE  /\ T[q] \in Process
             /\ T[q].task = P.table[q].task
             /\ T[q].state = P.table[q].state
             /\ T[q].slot = P.table[q].slot
             /\ T[q].parent = P.table[q].parent
             /\ T[q].children = P.table[q].children
                                \cup (IF q = parent THEN {k} ELSE {})
  <2>1. P.table[q] \in Process /\ k \in Pid
    BY Zenon DEF TableType
  <2> HIDE DEF k, parent
  <2>2. CASE q = parent
    <3> DEFINE C == P.table[q].children \cup {k}
    <3>1. T[q] = [P.table[q] EXCEPT !.children = C] /\ C \in SUBSET Pid
      BY <1>5, <2>1, <2>2, ProcFields, Zenon
    <3> HIDE DEF C
    <3>2. T[q] = [parent |-> P.table[q].parent, task |-> P.table[q].task,
                  state |-> P.table[q].state, name |-> P.table[q].name,
                  children |-> C, slot |-> P.table[q].slot,
                  pending |-> P.table[q].pending]
      BY <2>1, <3>1, ProcFields, Zenon
    <3> QED BY <2>1, <2>2, <3>1, <3>2, Zenon DEF Process, C
  <2>3. CASE q # parent
    BY <1>5, <2>1, <2>3, Zenon
  <2> QED BY <2>2, <2>3, Zenon
<1>9. TableType(n, Q)
  <2>1. \A q \in DOMAIN T : T[q] \in Process
    BY <1>3, <1>5, <1>8, Zenon
  <2>2. DOMAIN T \subseteq 1 .. (k + 1) - 1 /\ DOMAIN T \subseteq Pid
    BY <1>2, <1>5 DEF TableType
  <2>3. DOMAIN b \subseteq 1 .. n - 1
    BY <1>6, Zenon DEF TableType
  <2> QED BY <1>2, <1>7, <2>1, <2>2, <2>3 DEF TableType
<1> QED BY <1>5, <1>6, <1>7, <1>8, <1>9 DEF proc, Registered

(* The tables of a world: PidOfTid answers a pid of the table, or 0.       *)
LEMMA PidsKnown ==
    ASSUME NEW n, NEW P, TableType(n, P), Kinship(P), NEW t
    PROVE  /\ PidOfTid(P, t) \in Pid \cup {0}
           /\ PidOfTid(P, t) # 0 => /\ PidOfTid(P, t) \in DOMAIN P.table
                                    /\ P.table[PidOfTid(P, t)].task = t
                                    /\ t \in DOMAIN P.by_tid
           /\ PidOfTid(P, t) = 0 => t \notin DOMAIN P.by_tid
           /\ 0 \notin DOMAIN P.table
<1>1. 0 \notin DOMAIN P.table /\ DOMAIN P.table \subseteq Pid
  BY DEF TableType
<1> QED BY <1>1 DEF PidOfTid, Kinship

(* The family tree grows by a leaf.                                        *)
LEMMA RegisterKin ==
    ASSUME NEW n \in Nat, NEW P, TableType(n, P), Kinship(P), P.next_pid \in Pid,
           NEW name \in {"init-sup", "init", "ssh-shell", "program"},
           NEW t \in 1 .. n - 1, t \in Tid, t \notin DOMAIN P.by_tid, NEW by,
           NEW slot \in Slot \cup {0}, P.next_pid = 1 => t = 1,
           NEW Q, Q = RegisterProcess(P, name, t, by, slot)
    PROVE  Kinship(Q)
<1> DEFINE k == P.next_pid
           parent == PidOfTid(P, by)
<1>1. /\ parent \in Pid \cup {0}
      /\ parent # 0 => parent \in DOMAIN P.table
  BY PidsKnown, Zenon
<1>2. /\ Q.next_pid = k + 1
      /\ DOMAIN Q.table = DOMAIN P.table \cup {k}
      /\ DOMAIN Q.by_tid = DOMAIN P.by_tid \cup {t}
      /\ Q.by_tid[t] = k
      /\ \A u \in DOMAIN P.by_tid : u # t => Q.by_tid[u] = P.by_tid[u]
      /\ \A q \in DOMAIN P.table :
            /\ Q.table[q].task = P.table[q].task
            /\ Q.table[q].state = P.table[q].state
            /\ Q.table[q].slot = P.table[q].slot
            /\ Q.table[q].parent = P.table[q].parent
            /\ Q.table[q].children =
                  P.table[q].children \cup (IF q = parent THEN {k} ELSE {})
      /\ Q.table[k].parent = parent /\ Q.table[k].task = t
      /\ Q.table[k].children = {}
      /\ TableType(n, Q)
  <2>1. Registered(n, P, Q, t, by, slot)
    BY <1>1, RegisterFacts, Zenon
  <2> QED BY <2>1, Zenon DEF Registered
<1>3. /\ k \in Nat \ {0} /\ k \notin DOMAIN P.table
      /\ \A q \in DOMAIN P.table : q \in Nat \ {0} /\ q < k
  BY DEF TableType
<1>4. Q.table[k].parent = parent /\ Q.table[k].task = t /\ Q.table[k].children = {}
  BY <1>2, Zenon
<1> HIDE DEF k, parent
<1>5. ASSUME NEW q \in DOMAIN Q.table, NEW c \in Pid
      PROVE  c \in Q.table[q].children
                <=> (c \in DOMAIN Q.table /\ Q.table[c].parent = q)
  <2>1. CASE q = k
    <3>1. \A d \in DOMAIN P.table : P.table[d].parent # k
      BY <1>3 DEF Kinship
    <3>2. parent # k
      BY <1>1, <1>3, Zenon
    <3> QED BY <1>2, <1>4, <2>1, <3>1, <3>2
  <2>2. CASE q # k
    <3>1. q \in DOMAIN P.table
      BY <1>2, <2>2, Zenon
    <3>2. c \in P.table[q].children <=> (c \in DOMAIN P.table /\ P.table[c].parent = q)
      BY <3>1, Zenon DEF Kinship
    <3>3. CASE c = k
      BY <1>2, <1>3, <1>4, <3>1, <3>2, <3>3
    <3>4. CASE c # k
      BY <1>2, <3>1, <3>2, <3>4
    <3> QED BY <3>3, <3>4, Zenon
  <2> QED BY <2>1, <2>2, Zenon
<1>6. ASSUME NEW q \in DOMAIN Q.table
      PROVE  /\ Q.table[q].parent = 0 \/ Q.table[q].parent \in DOMAIN Q.table
             /\ Q.table[q].parent < q
             /\ Q.table[q].task \in DOMAIN Q.by_tid
             /\ Q.by_tid[Q.table[q].task] = q
  <2>1. CASE q = k
    BY <1>1, <1>2, <1>3, <1>4, <2>1
  <2>2. CASE q # k
    <3>1. q \in DOMAIN P.table
      BY <1>2, <2>2, Zenon
    <3>2. /\ P.table[q].parent = 0 \/ P.table[q].parent \in DOMAIN P.table
          /\ P.table[q].parent < q
          /\ P.table[q].task \in DOMAIN P.by_tid
          /\ P.by_tid[P.table[q].task] = q
      BY <3>1, Zenon DEF Kinship
    <3> QED BY <1>2, <3>1, <3>2
  <2> QED BY <2>1, <2>2, Zenon
<1>7. ASSUME NEW u \in DOMAIN Q.by_tid
      PROVE  Q.by_tid[u] \in DOMAIN Q.table /\ Q.table[Q.by_tid[u]].task = u
  <2>1. CASE u = t
    BY <1>2, <1>4, <2>1, Zenon
  <2>2. CASE u # t
    <3>1. u \in DOMAIN P.by_tid
      BY <1>2, <2>2, Zenon
    <3>2. P.by_tid[u] \in DOMAIN P.table /\ P.table[P.by_tid[u]].task = u
      BY <3>1, Zenon DEF Kinship
    <3> QED BY <1>2, <2>2, <3>1, <3>2
  <2> QED BY <2>1, <2>2, Zenon
<1>8. 1 \in DOMAIN Q.table => Q.table[1].task = 1
  <2>1. CASE k = 1
    BY <1>4, <2>1, Zenon DEF k
  <2>2. CASE k # 1
    BY <1>2, <2>2, Zenon DEF Kinship
  <2> QED BY <2>1, <2>2, Zenon
<1> QED BY <1>5, <1>6, <1>7, <1>8, Zenon DEF Kinship

(* A new process changes nothing for the tasks that have theirs, nor for   *)
(* those that have none.                                                   *)
LEMMA RegisterUnnoticed ==
    ASSUME NEW n \in Nat, NEW P, TableType(n, P), Kinship(P),
           NEW Q, NEW t, t \notin DOMAIN P.by_tid, NEW by, NEW slot,
           Registered(n, P, Q, t, by, slot)
    PROVE  /\ Registered(n, P, Q, t, by, slot)
           /\ \A u : u # t => PidOfTid(Q, u) = PidOfTid(P, u)
           /\ PidOfTid(Q, t) = P.next_pid
           /\ \A q : q # P.next_pid => (IsZombie(Q, q) <=> IsZombie(P, q))
           /\ ~IsZombie(Q, P.next_pid)
           /\ \A q : q # P.next_pid => Children(P, q) \subseteq Children(Q, q)
           /\ \A q : q # P.next_pid => ZombieChildren(Q, q) = ZombieChildren(P, q)
<1> DEFINE k == P.next_pid
<1>1. /\ DOMAIN Q.table = DOMAIN P.table \cup {k}
      /\ DOMAIN Q.by_tid = DOMAIN P.by_tid \cup {t}
      /\ Q.by_tid[t] = k
      /\ \A u \in DOMAIN P.by_tid : u # t => Q.by_tid[u] = P.by_tid[u]
      /\ \A q \in DOMAIN P.table :
            /\ Q.table[q].state = P.table[q].state
            /\ Q.table[q].children =
                  P.table[q].children
                  \cup (IF q = PidOfTid(P, by) THEN {k} ELSE {})
      /\ Q.table[k].state = "Running"
  BY Zenon DEF Registered
<1>2. k \notin DOMAIN P.table
  BY DEF TableType
<1> HIDE DEF k
<1>3. /\ \A u : u # t => PidOfTid(Q, u) = PidOfTid(P, u)
      /\ PidOfTid(Q, t) = k
  BY <1>1, Zenon DEF PidOfTid
<1>4. /\ \A q : q # k => (IsZombie(Q, q) <=> IsZombie(P, q))
      /\ ~IsZombie(Q, k)
  BY <1>1, <1>2, Zenon DEF IsZombie
<1>5. ASSUME NEW q, q # k
      PROVE  /\ Children(P, q) \subseteq Children(Q, q)
             /\ Children(Q, q) \subseteq Children(P, q) \cup {k}
  BY <1>1, <1>5, Zenon DEF Children
<1>6. ~IsZombie(P, k)
  BY <1>2, Zenon DEF IsZombie
<1>7. ASSUME NEW q, q # k PROVE ZombieChildren(Q, q) = ZombieChildren(P, q)
  BY <1>4, <1>5, <1>6, <1>7, Zenon DEF ZombieChildren
<1> QED BY <1>3, <1>4, <1>5, <1>7, Zenon DEF k

(* Table Q is P with the new process k, which holds the slot.              *)
SlotGiven(P, Q, k, slot) ==
    /\ k \notin DOMAIN P.table
    /\ DOMAIN Q.table = DOMAIN P.table \cup {k}
    /\ \A q \in DOMAIN P.table : Q.table[q].slot = P.table[q].slot
    /\ Q.table[k].slot = slot

(* Task t's frame now holds the slot, and no other frame changed its own.  *)
SlotMoved(f, g, t, slot) ==
    \A u \in Tid : g[u].slot = IF u = t THEN slot ELSE f[u].slot

(* A new process holds the slot it was given, which the task that loaded   *)
(* the program, or nobody, held before (register_process).                 *)
LEMMA RegisterSlots ==
    ASSUME NEW P, NEW Q, NEW k, NEW slot \in Slot \cup {0}, SlotGiven(P, Q, k, slot),
           NEW U, NEW f, NEW g, SlotsOK(P, U, f), NEW t \in Tid
    PROVE  /\ SlotsOK(P, U, f) /\ SlotGiven(P, Q, k, slot)
           /\ f[t].slot = slot /\ SlotMoved(f, g, t, 0) => SlotsOK(Q, U, g)
           /\ slot \in Slot \ U /\ SlotMoved(f, g, t, f[t].slot)
                 => SlotsOK(Q, U \cup {slot}, g)
<1>2. /\ DOMAIN Q.table = DOMAIN P.table \cup {k}
      /\ \A q \in DOMAIN P.table : Q.table[q].slot = P.table[q].slot
      /\ Q.table[k].slot = slot
  BY Zenon DEF SlotGiven
<1>3. 0 \notin Slot /\ k \notin DOMAIN P.table
  BY DEF Slot, SlotGiven
<1>4. ASSUME f[t].slot = slot, SlotMoved(f, g, t, 0) PROVE SlotsOK(Q, U, g)
  <2>1. \A u \in Tid : g[u].slot = IF u = t THEN 0 ELSE f[u].slot
    BY <1>4, Zenon DEF SlotMoved
  <2>2. /\ slot # 0 => \A q \in DOMAIN P.table : P.table[q].slot # slot
        /\ slot # 0 => \A u \in Tid : f[u].slot = slot => u = t
    BY <1>4, Zenon DEF SlotsOK
  <2>3. ASSUME NEW s \in Slot
        PROVE  s \in U <=> \/ \E q \in DOMAIN Q.table : Q.table[q].slot = s
                           \/ \E u \in Tid : g[u].slot = s
    <3>1. s \in U <=> \/ \E q \in DOMAIN P.table : P.table[q].slot = s
                      \/ \E u \in Tid : f[u].slot = s
      BY Zenon DEF SlotsOK
    <3>2. CASE s = slot
      BY <1>2, <1>4, <3>1, <3>2, Zenon
    <3>3. CASE s # slot
      BY <1>2, <1>3, <1>4, <2>1, <3>1, <3>3, Zenon
    <3> QED BY <3>2, <3>3, Zenon
  <2>4. \A q, w \in DOMAIN Q.table :
           Q.table[q].slot # 0 /\ Q.table[q].slot = Q.table[w].slot => q = w
    BY <1>2, <2>2 DEF SlotsOK
  <2>5. \A u, v \in Tid : g[u].slot # 0 /\ g[u].slot = g[v].slot => u = v
    BY <2>1 DEF SlotsOK
  <2>6. \A q \in DOMAIN Q.table, u \in Tid :
           Q.table[q].slot # 0 => Q.table[q].slot # g[u].slot
    BY <1>2, <2>1, <2>2 DEF SlotsOK
  <2> QED BY <2>3, <2>4, <2>5, <2>6, Zenon DEF SlotsOK
<1>5. ASSUME slot \in Slot \ U, SlotMoved(f, g, t, f[t].slot)
      PROVE  SlotsOK(Q, U \cup {slot}, g)
  <2>1. \A u \in Tid : g[u].slot = f[u].slot
    BY <1>5, Zenon DEF SlotMoved
  <2>2. /\ \A q \in DOMAIN P.table : P.table[q].slot # slot
        /\ \A u \in Tid : f[u].slot # slot
    BY <1>5, Zenon DEF SlotsOK
  <2>3. ASSUME NEW s \in Slot
        PROVE  s \in U \cup {slot} <=> \/ \E q \in DOMAIN Q.table : Q.table[q].slot = s
                                       \/ \E u \in Tid : g[u].slot = s
    <3>1. s \in U <=> \/ \E q \in DOMAIN P.table : P.table[q].slot = s
                      \/ \E u \in Tid : f[u].slot = s
      BY Zenon DEF SlotsOK
    <3> QED BY <1>2, <2>1, <3>1, Zenon
  <2>4. \A q, w \in DOMAIN Q.table :
           Q.table[q].slot # 0 /\ Q.table[q].slot = Q.table[w].slot => q = w
    BY <1>2, <2>2 DEF SlotsOK
  <2>5. \A q \in DOMAIN Q.table, u \in Tid :
           Q.table[q].slot # 0 => Q.table[q].slot # g[u].slot
    BY <1>2, <2>1, <2>2 DEF SlotsOK
  <2> QED BY <2>1, <2>3, <2>4, <2>5 DEF SlotsOK
<1> QED BY <1>4, <1>5, Zenon

(* The tasks that are registering a new one can be counted.                *)
LEMMA Registering ==
    ASSUME NEW f
    PROVE  /\ IsFiniteSet({t \in Tid : f[t].pc = "register"})
           /\ Cardinality({t \in Tid : f[t].pc = "register"}) \in Nat
<1> DEFINE R == {t \in Tid : f[t].pc = "register"}
<1>1. IsFiniteSet(Tid)
  BY FS_Interval, TableConstants DEF Tid
<1>2. R \subseteq Tid
  BY Zenon
<1> QED BY <1>1, <1>2, FS_Subset, FS_CardinalityType, Zenon

(* There is a pid for the task being registered.                           *)
LEMMA NextPid ==
    ASSUME NEW D, NEW B, NEW n, NEW P, NEW U, NEW F, NEW f,
           World(D, B, n, P, U, F, f)
    PROVE  /\ World(D, B, n, P, U, F, f)
           /\ P.next_pid \in Pid /\ P.next_pid < n
<1> DEFINE c == Cardinality({t \in Tid : f[t].pc = "register"})
<1>1. c \in Nat
  BY Registering, Zenon
<1>2. P.next_pid \in Nat \ {0} /\ n \in 1 .. TidMax /\ P.next_pid + c < n
  BY Zenon DEF World, TableType, CountOK
<1> HIDE DEF c
<1> QED BY <1>1, <1>2, TableConstants DEF Pid

(* register_process and clone_fd_table of a kernel task, for the Blocked   *)
(* task it has spawned.                                                    *)
LEMMA RegisterWorld ==
    ASSUME NEW D, NEW B, NEW n, NEW P, NEW U, NEW F, NEW f,
           World(D, B, n, P, U, F, f),
           NEW t \in Tid, t \notin B, f[t].pc = "register",
           f[t].role \in {"sup", "net", "shell"},
           NEW name \in {"init-sup", "init", "ssh-shell", "program"},
           NEW Q, Q = RegisterProcess(P, name, f[t].tid, t, f[t].slot),
           NEW E, E = CloneFdTable(F, PidOfTid(P, t), P.next_pid),
           NEW r \in Frame, r.role = f[t].role, r.pc = "arrange", r.slot = 0,
           r.tid = f[t].tid, r.pid = P.next_pid, r.dead = f[t].dead,
           NEW g, g = [f EXCEPT ![t] = r]
    PROVE  World(D, B, n, Q, U, E, g)
<1> DEFINE k == P.next_pid
           x == f[t].tid
           parent == PidOfTid(P, t)
<1>1. /\ TableType(n, P) /\ Kinship(P) /\ Ends(D, P, f) /\ f \in [Tid -> Frame]
      /\ P.next_pid > 1 /\ B \cap D = {} /\ SlotsOK(P, U, f) /\ n \in 1 .. TidMax
      /\ F \subseteq Pid /\ U \subseteq Slot /\ n \in Nat
  BY DEF World
<1>2. TaskOK(D, B, n, P, F, t, f[t])
  BY Zenon DEF World, TasksOK
<1>3. /\ x \in 1 .. n - 1 /\ x \in B /\ x \notin DOMAIN P.by_tid
      /\ x \in Tid /\ x # t /\ f[t].slot \in Slot \cup {0}
  BY <1>1, <1>2, FrameFields, Zenon DEF TaskOK, StartPcs
<1>4. k \in Pid /\ k < n /\ k \in Nat \ {0} /\ k \notin DOMAIN P.table
  <2>1. World(D, B, n, P, U, F, f) /\ k \in Pid /\ k < n
    BY NextPid, Zenon
  <2> QED BY <1>1, <2>1 DEF Pid, TableType
<1>5. Registered(n, P, Q, x, t, f[t].slot)
  BY <1>1, <1>3, <1>4, PidsKnown, RegisterFacts, Zenon
<1>6. Kinship(Q) /\ TableType(n, Q)
  <2>1. Kinship(Q)
    BY <1>1, <1>3, <1>4, RegisterKin
  <2> QED BY <1>5, <2>1, Zenon DEF Registered
<1>7. /\ r \in Frame /\ r.pc = "arrange" /\ r.slot = 0 /\ r.pid = k
      /\ r.role = f[t].role /\ r.tid = x /\ r.dead = f[t].dead
  BY Zenon
<1>8. /\ g \in [Tid -> Frame] /\ g[t] = r
      /\ \A u \in Tid : u # t => g[u] = f[u]
  BY <1>1, <1>7, FrameFacts, Zenon
<1> HIDE DEF k, x, parent
<1>9. SlotsOK(Q, U, g)
  <2> DEFINE slot == f[t].slot
  <2>1. SlotGiven(P, Q, k, slot)
    BY <1>4, <1>5, Zenon DEF Registered, SlotGiven, k
  <2> HIDE DEF slot
  <2>2. /\ SlotsOK(P, U, f) /\ SlotGiven(P, Q, k, slot)
        /\ f[t].slot = slot /\ SlotMoved(f, g, t, 0) => SlotsOK(Q, U, g)
    <3>1. slot \in Slot \cup {0} /\ SlotsOK(P, U, f)
      BY <1>1, <1>3, Zenon DEF slot
    <3> QED BY <2>1, <3>1, RegisterSlots, Zenon
  <2>3. SlotMoved(f, g, t, 0)
    BY <1>7, <1>8, Zenon DEF SlotMoved
  <2> QED BY <2>2, <2>3, Zenon DEF slot
<1>10. F \subseteq E /\ E \subseteq Pid /\ (parent \in F => k \in E)
  BY <1>1, <1>4, Zenon DEF CloneFdTable, k, parent
<1>11. /\ \A u : u # x => PidOfTid(Q, u) = PidOfTid(P, u)
       /\ PidOfTid(Q, x) = k
       /\ \A q : q # k => Children(P, q) \subseteq Children(Q, q)
       /\ \A q : q # k => ZombieChildren(Q, q) = ZombieChildren(P, q)
  <2>1. /\ Registered(n, P, Q, x, t, f[t].slot)
        /\ \A u : u # x => PidOfTid(Q, u) = PidOfTid(P, u)
        /\ PidOfTid(Q, x) = P.next_pid
        /\ \A q : q # P.next_pid => Children(P, q) \subseteq Children(Q, q)
        /\ \A q : q # P.next_pid => ZombieChildren(Q, q) = ZombieChildren(P, q)
    BY <1>1, <1>3, <1>5, RegisterUnnoticed
  <2> QED BY <2>1, Zenon DEF k
<1>24. Q.next_pid = k + 1
  BY <1>5, Zenon DEF Registered, k
<1>25. Q.next_pid > 1 /\ \A i \in Nat : i < k => i < Q.next_pid /\ i # k
  BY <1>4, <1>24
<1>12. /\ DOMAIN Q.table = DOMAIN P.table \cup {k}
       /\ DOMAIN Q.by_tid = DOMAIN P.by_tid \cup {x}
       /\ \A q \in DOMAIN P.table : /\ Q.table[q].task = P.table[q].task
                                    /\ Q.table[q].state = P.table[q].state
                                    /\ Q.table[q].slot = P.table[q].slot
       /\ Q.table[k].task = x /\ Q.table[k].state = "Running"
       /\ Q.table[k].slot = f[t].slot
  BY <1>5, Zenon DEF Registered, k
<1>13. /\ f[x].pc \in {"trampoline", "prompt"}
       /\ f[x].role = "user" \/ f[t].slot = 0
       /\ f[t].role = "net" => f[x].role # "user"
       /\ \A u \in Tid : f[u].pc \in StartPcs /\ u # t => f[u].tid # x
  BY <1>3 DEF World, PairsOK, Registers, x, StartPcs
<1>14. \A u : PidOfTid(P, u) \in F => u # x
  BY <1>1, <1>3, PidsKnown DEF PidOfTid, Pid
<1>15. f[t].role \in {"sup", "shell"} => parent \in F
  BY <1>2, Zenon DEF TaskOK, parent
<1>16. ASSUME NEW u \in Tid, u # t PROVE TaskOK(D, B, n, Q, E, u, f[u])
  <2>1. TaskOK(D, B, n, P, F, u, f[u]) /\ f[u] \in Frame
    BY <1>1, Zenon DEF World, TasksOK
  <2>2. f[u].pc = "register" => f[u].tid \notin DOMAIN Q.by_tid
    BY <1>12, <1>13, <1>16, <2>1, Zenon DEF TaskOK, StartPcs
  <2>3. f[u].pc \in ReapPcs => f[u].pid \notin DOMAIN Q.table /\ f[u].pid < Q.next_pid
    <3>1. f[u].pid \in Nat
      BY <2>1, FrameFields DEF Pid
    <3>2. P.next_pid = k
      BY Zenon DEF k
    <3> QED BY <1>12, <1>25, <2>1, <3>1, <3>2, Zenon DEF TaskOK
  <2>4. ASSUME NEW q \in f[u].dead
        PROVE  /\ q < Q.next_pid
               /\ q \in DOMAIN Q.table => Q.table[q].state = "Zombie"
    <3>1. q \in Nat
      BY <2>1, FrameFields DEF Pid
    <3>2. q < k /\ (q \in DOMAIN P.table => P.table[q].state = "Zombie")
      BY <2>1, Zenon DEF TaskOK, k
    <3> QED BY <1>12, <1>25, <3>1, <3>2, Zenon
  <2>5. f[u].role \in {"sup", "shell"} /\ f[u].pc \in {"spawn", "register"}
           => PidOfTid(Q, u) \in E
    BY <1>10, <1>11, <1>14, <2>1, Zenon DEF TaskOK
  <2>6. ASSUME u \in B, f[u].pc = "wait", u # 1
        PROVE  /\ Children(Q, PidOfTid(Q, u)) # {}
               /\ ZombieChildren(Q, PidOfTid(Q, u)) = {}
    <3>1. PidOfTid(Q, u) = PidOfTid(P, u)
      BY <1>11, <1>13, <2>6, Zenon
    <3>2. /\ Children(P, PidOfTid(P, u)) # {}
          /\ ZombieChildren(P, PidOfTid(P, u)) = {}
      BY <2>1, <2>6, Zenon DEF TaskOK
    <3>3. PidOfTid(P, u) # k
      <4>1. k \notin DOMAIN P.table
        BY <1>1, <1>4, Zenon DEF TableType, k
      <4> QED BY <3>2, <4>1, Zenon DEF Children
    <3> QED BY <1>11, <3>1, <3>2, <3>3, Zenon
  <2> QED BY <2>1, <2>2, <2>3, <2>4, <2>5, <2>6, Zenon DEF TaskOK
<1>17. TaskOK(D, B, n, Q, E, t, r)
  <2>1. r.pc \in PcsOf(r.role) /\ t # 0 /\ ~(t >= n) /\ t \notin D
    <3>1. t # 0 /\ ~(t >= n)
      BY <1>2 DEF TaskOK, Idle
    <3>2. t \notin D
      BY <1>2, Zenon DEF TaskOK, ExitPcs
    <3> QED BY <1>7, <3>1, <3>2, Zenon DEF PcsOf, StartPcs
  <2>2. \A q \in r.dead : /\ q < Q.next_pid
                          /\ q \in DOMAIN Q.table => Q.table[q].state = "Zombie"
    <3>1. r.dead \subseteq Nat
      BY <1>7, FrameFields DEF Pid
    <3>2. P.next_pid = k
      BY Zenon DEF k
    <3> QED BY <1>2, <1>7, <1>12, <1>25, <3>1, <3>2 DEF TaskOK
  <2>3. r.pid # 0
    BY <1>4, <1>7, Zenon DEF Pid
  <2>4. /\ r.pc \notin ReapPcs /\ r.pc # "wait" /\ r.pc # "register"
        /\ r.pc \notin {"spawn", "register"}
    BY <1>7, Zenon DEF ReapPcs
  <2> QED BY <1>3, <1>7, <2>1, <2>2, <2>3, <2>4, Zenon DEF TaskOK
<1>18. TasksOK(D, B, n, Q, E, g)
  BY <1>8, <1>16, <1>17, Zenon DEF TasksOK
<1>19. \A u, v \in Tid : u # t => (Registers(g, u, v) <=> Registers(f, u, v))
  BY <1>8, Zenon DEF Registers
<1>20. PairsOK(D, Q, E, g)
  <2>1. \A u \in Tid : g[u].pc \in StartPcs => f[u].pc \in StartPcs /\ g[u].tid = f[u].tid
    BY <1>7, <1>8, Zenon DEF StartPcs, x
  <2>2. \A u \in Tid : g[u].role = f[u].role
    BY <1>7, <1>8, Zenon
  <2>3. \A v, u \in Tid : g[v].pc \in StartPcs /\ g[u].pc \in StartPcs /\ v # u
           => g[v].tid # g[u].tid
    BY <2>1 DEF World, PairsOK
  <2>4. ASSUME NEW u \in Tid, NEW v \in Tid, Registers(g, u, v)
        PROVE  /\ g[v].pc \in {"trampoline", "prompt"}
               /\ g[v].role = "user" \/ g[u].slot = 0
               /\ g[u].role = "net" => g[v].role # "user"
    <3>1. u # t /\ g[u] = f[u] /\ Registers(f, u, v)
      BY <1>7, <1>8, <1>19, <2>4, Zenon DEF Registers
    <3>2. /\ f[v].pc \in {"trampoline", "prompt"}
          /\ f[v].role = "user" \/ f[u].slot = 0
          /\ f[u].role = "net" => f[v].role # "user"
      BY <3>1, Zenon DEF World, PairsOK
    <3>3. v # t
      BY <3>2, Zenon
    <3> QED BY <1>8, <3>1, <3>2, <3>3, Zenon
  <2>5. ASSUME NEW v \in Tid, g[v].role = "user", v \notin D
        PROVE  PidOfTid(Q, v) \in E \/ \E u \in Tid : Registers(g, u, v)
    <3>1. PidOfTid(P, v) \in F \/ \E u \in Tid : Registers(f, u, v)
      BY <2>2, <2>5, Zenon DEF World, PairsOK
    <3>2. CASE PidOfTid(P, v) \in F
      BY <1>10, <1>11, <1>14, <3>2, Zenon
    <3>3. CASE \E u \in Tid : u # t /\ Registers(f, u, v)
      BY <1>19, <3>3, Zenon
    <3>4. CASE Registers(f, t, v)
      BY <1>10, <1>11, <1>13, <1>15, <2>2, <2>5, <3>4, Zenon DEF Registers, x
    <3> QED BY <3>1, <3>2, <3>3, <3>4, Zenon
  <2> QED BY <2>3, <2>4, <2>5, Zenon DEF PairsOK
<1>21. CountOK(n, Q, g)
  <2> DEFINE R == {u \in Tid : f[u].pc = "register"}
  <2>1. {u \in Tid : g[u].pc = "register"} = R \ {t}
    BY <1>7, <1>8, Zenon
  <2>2. t \in R /\ IsFiniteSet(R) /\ Cardinality(R) \in Nat /\ P.next_pid + Cardinality(R) < n
    BY Registering, Zenon DEF World, CountOK
  <2> HIDE DEF R
  <2>3. Cardinality(R \ {t}) = Cardinality(R) - 1
    BY <2>2, FS_RemoveElement, Zenon
  <2>4. k + 1 + (Cardinality(R) - 1) < n
    BY <1>1, <1>4, <2>2 DEF k
  <2> QED BY <1>24, <2>1, <2>3, <2>4, Zenon DEF CountOK
<1>22. Ends(D, Q, g)
  <2>1. \A u \in Tid : g[u].role = f[u].role
    BY <1>7, <1>8, Zenon
  <2>2. \A p \in DOMAIN P.table : P.table[p].task \in Tid
    BY <1>1, Zenon DEF TableType, Process
  <2>3. x \notin D
    BY <1>1, <1>3, Zenon
  <2>4. ASSUME NEW p \in DOMAIN P.table
        PROVE  /\ Q.table[p].state = "Zombie" => Q.table[p].task \in D
               /\ Q.table[p].slot # 0
                     => /\ g[Q.table[p].task].role = "user"
                        /\ Q.table[p].task \in D => Q.table[p].state = "Zombie"
    <3>1. /\ Q.table[p].task = P.table[p].task /\ Q.table[p].state = P.table[p].state
          /\ Q.table[p].slot = P.table[p].slot
          /\ g[P.table[p].task].role = f[P.table[p].task].role
      BY <1>12, <2>1, <2>2, Zenon
    <3>2. /\ P.table[p].state = "Zombie" => P.table[p].task \in D
          /\ P.table[p].slot # 0
                => /\ f[P.table[p].task].role = "user"
                   /\ P.table[p].task \in D => P.table[p].state = "Zombie"
      BY <1>1, Zenon DEF Ends
    <3> QED BY <3>1, <3>2, Zenon
  <2>5. /\ Q.table[k].state # "Zombie"
        /\ Q.table[k].slot # 0 => g[Q.table[k].task].role = "user"
        /\ Q.table[k].task \notin D
    BY <1>3, <1>12, <1>13, <2>1, <2>3, Zenon
  <2> QED BY <1>12, <2>4, <2>5, Zenon DEF Ends
<1> QED BY <1>1, <1>6, <1>8, <1>9, <1>10, <1>18, <1>20, <1>21, <1>22, <1>25, Zenon DEF World

-----------------------------------------------------------------------------
(* Spawning a task.                                                        *)

(* The next tid is nobody's yet.                                           *)
LEMMA NewTid ==
    ASSUME NEW D, NEW B, NEW n, NEW P, NEW U, NEW F, NEW f,
           World(D, B, n, P, U, F, f)
    PROVE  /\ World(D, B, n, P, U, F, f)
           /\ n \in Tid /\ n # 0 /\ f[n] = Idle
           /\ n \notin DOMAIN P.by_tid
           /\ \A p \in DOMAIN P.table : P.table[p].task # n /\ P.table[p].task \in Tid
           /\ \A u \in Tid : f[u].pc \in StartPcs => f[u].tid # n /\ f[u].tid \in Tid
<1>1. TableType(n, P) /\ Kinship(P) /\ TasksOK(D, B, n, P, F, f) /\ n \in 1 .. TidMax
  BY Zenon DEF World
<1>2. n \in Tid /\ n # 0 /\ n \in Nat
  BY <1>1, TableConstants DEF Tid
<1>3. f[n] = Idle
  BY <1>1, <1>2 DEF TasksOK, TaskOK
<1>4. n \notin DOMAIN P.by_tid
  BY <1>1, <1>2 DEF TableType
<1>5. \A p \in DOMAIN P.table : P.table[p].task # n /\ P.table[p].task \in Tid
  BY <1>1, <1>4, ProcFields DEF TableType, Kinship
<1>6. \A u \in Tid : f[u].pc \in StartPcs => f[u].tid # n /\ f[u].tid \in Tid
  BY <1>1, <1>2, FrameFields DEF TasksOK, TaskOK
<1> QED BY <1>2, <1>3, <1>4, <1>5, <1>6, Zenon

(* What is known of a task does not depend on the tids after it.           *)
LEMMA TaskLater ==
    ASSUME NEW D, NEW B, NEW n \in Nat, NEW P, NEW F, NEW u \in Tid, NEW r,
           TaskOK(D, B, n, P, F, u, r), u # n,
           NEW X, X = B \/ X = B \cup {n}
    PROVE  TaskOK(D \ {n}, X, n + 1, P, F, u, r)
<1>1. u >= n + 1 => u >= n
  BY TableConstants DEF Tid
<1>2. 1 .. n - 1 \subseteq 1 .. (n + 1) - 1
  OBVIOUS
<1>3. u \in X => u \in B
  BY Zenon
<1>4. B \subseteq X
  BY Zenon
<1> QED BY <1>1, <1>2, <1>3, <1>4, Zenon DEF TaskOK

(* From f to g, a task n comes with frame c and task t holds its tid.      *)
Spawned(f, g, t, n, c, x) ==
    /\ g \in [Tid -> Frame] /\ g[n] = c /\ g[t] \in Frame
    /\ \A u \in Tid : u # n /\ u # t => g[u] = f[u]
    /\ g[t].role = f[t].role /\ g[t].pc = x /\ g[t].slot = f[t].slot
    /\ g[t].tid = n /\ g[t].dead = f[t].dead

(* spawn_blocked of a kernel task.                                         *)
LEMMA SpawnWorld ==
    ASSUME NEW D, NEW B, NEW n, NEW P, NEW U, NEW F, NEW f,
           World(D, B, n, P, U, F, f), n + 1 <= TidMax,
           NEW t \in Tid, f[t].pc = "spawn", f[t].role \in {"sup", "net", "shell"},
           NEW c \in Frame, c.slot = 0, c.dead = {},
           \/ /\ f[t].role = "net" /\ c.role = "shell" /\ c.pc = "prompt"
           \/ /\ f[t].role # "net" /\ c.role = "user" /\ c.pc = "trampoline",
           NEW g, Spawned(f, g, t, n, c, "register")
    PROVE  World(D \ {n}, B \cup {n}, n + 1, P, U, F, g)
<1> DEFINE r == g[t]
<1> /\ g \in [Tid -> Frame] /\ g[n] = c /\ g[t] = r /\ r \in Frame
    /\ \A u \in Tid : u # n /\ u # t => g[u] = f[u]
    /\ r.role = f[t].role /\ r.pc = "register" /\ r.slot = f[t].slot
    /\ r.tid = n /\ r.dead = f[t].dead
  BY Zenon DEF Spawned
<1> HIDE DEF r
<1>1. /\ TableType(n, P) /\ Kinship(P) /\ Ends(D, P, f) /\ f \in [Tid -> Frame]
      /\ P.next_pid > 1 /\ B \cap D = {} /\ SlotsOK(P, U, f) /\ n \in Nat \ {0}
      /\ F \subseteq Pid /\ U \subseteq Slot /\ TasksOK(D, B, n, P, F, f)
      /\ PairsOK(D, P, F, f) /\ CountOK(n, P, f) /\ n + 1 \in 1 .. TidMax
  BY TableConstants DEF World
<1>2. TaskOK(D, B, n, P, F, t, f[t])
  BY <1>1, Zenon DEF TasksOK
<1>3. /\ n \in Tid /\ n # 0 /\ f[n] = Idle
      /\ n \notin DOMAIN P.by_tid
      /\ \A p \in DOMAIN P.table : P.table[p].task # n /\ P.table[p].task \in Tid
      /\ \A u \in Tid : f[u].pc \in StartPcs => f[u].tid # n /\ f[u].tid \in Tid
  BY NewTid
<1>4. /\ f[n].pc = "yield" /\ f[n].slot = 0 /\ t # n /\ t # 0 /\ ~(t >= n)
  BY <1>2, <1>3 DEF Idle, TaskOK
<1>5. ASSUME NEW u \in Tid, u # n, u # t
      PROVE  TaskOK(D \ {n}, B \cup {n}, n + 1, P, F, u, g[u])
  BY <1>1, <1>5, TaskLater, Zenon DEF TasksOK
<1>6. TaskOK(D \ {n}, B \cup {n}, n + 1, P, F, n, c)
  <2>1. c.pc \in PcsOf(c.role)
    BY Zenon DEF PcsOf
  <2>2. ~(n = 0 \/ n >= n + 1)
    BY <1>1
  <2>3. /\ c.pc \notin StartPcs /\ c.pc \notin ReapPcs
        /\ c.pc \notin {"spawn", "register"} /\ c.pc # "wait"
    BY Zenon DEF StartPcs, ReapPcs
  <2>4. n \notin D \ {n}
    BY Zenon
  <2> QED BY <2>1, <2>2, <2>3, <2>4, Zenon DEF TaskOK, StartPcs
<1>7. TaskOK(D \ {n}, B \cup {n}, n + 1, P, F, t, r)
  <2>1. r.pc \in PcsOf(r.role) /\ r.pc \in SlotPcs
    BY Zenon DEF PcsOf, StartPcs, SlotPcs
  <2>2. ~(t = 0 \/ t >= n + 1)
    BY <1>1, <1>4 DEF Tid
  <2>3. n \in 1 .. (n + 1) - 1
    BY <1>1
  <2>4. t \notin D
    BY <1>2, Zenon DEF TaskOK, ExitPcs
  <2>5. r.pc \notin ReapPcs /\ r.pc # "wait" /\ r.pc # "arrange"
    BY Zenon DEF ReapPcs
  <2>6. /\ \A q \in r.dead : /\ q < P.next_pid
                             /\ q \in DOMAIN P.table => P.table[q].state = "Zombie"
        /\ r.role \in {"sup", "shell"} => PidOfTid(P, t) \in F
        /\ r.role = "net" => r.slot = 0
    BY <1>2, Zenon DEF TaskOK
  <2> QED BY <1>3, <2>1, <2>2, <2>3, <2>4, <2>5, <2>6, Zenon DEF TaskOK
<1>8. TasksOK(D \ {n}, B \cup {n}, n + 1, P, F, g)
  BY <1>5, <1>6, <1>7, Zenon DEF TasksOK
<1>9. \A u \in Tid : g[u].pc \in StartPcs =>
         u # n /\ (u # t => g[u] = f[u] /\ f[u].tid # n)
  BY <1>3, Zenon DEF StartPcs
<1>10. PairsOK(D \ {n}, P, F, g)
  <2>1. \A v, u \in Tid : g[v].pc \in StartPcs /\ g[u].pc \in StartPcs /\ v # u
           => g[v].tid # g[u].tid
    BY <1>1, <1>9 DEF PairsOK
  <2>2. ASSUME NEW u \in Tid, NEW v \in Tid, Registers(g, u, v)
        PROVE  /\ g[v].pc \in {"trampoline", "prompt"}
               /\ g[v].role = "user" \/ g[u].slot = 0
               /\ g[u].role = "net" => g[v].role # "user"
    <3>1. CASE u = t
      BY <1>2, <2>2, <3>1, Zenon DEF Registers, TaskOK
    <3>2. CASE u # t
      <4>1. g[u] = f[u] /\ v # n /\ Registers(f, u, v)
        BY <1>9, <2>2, <3>2, Zenon DEF Registers, StartPcs
      <4>2. /\ f[v].pc \in {"trampoline", "prompt"}
            /\ f[v].role = "user" \/ f[u].slot = 0
            /\ f[u].role = "net" => f[v].role # "user"
        BY <1>1, <4>1, Zenon DEF PairsOK
      <4>3. v # t
        BY <4>2, Zenon
      <4> QED BY <4>1, <4>2, <4>3, Zenon
    <3> QED BY <3>1, <3>2, Zenon
  <2>3. ASSUME NEW v \in Tid, g[v].role = "user", v \notin D \ {n}
        PROVE  PidOfTid(P, v) \in F \/ \E u \in Tid : Registers(g, u, v)
    <3>1. CASE v = n
      BY <3>1, Zenon DEF Registers
    <3>2. CASE v # n
      <4>1. v \notin D /\ f[v].role = "user"
        BY <2>3, <3>2, Zenon
      <4>2. PidOfTid(P, v) \in F \/ \E u \in Tid : Registers(f, u, v)
        BY <1>1, <4>1, Zenon DEF PairsOK
      <4>3. \A u \in Tid : Registers(f, u, v) => Registers(g, u, v)
        BY <1>4, Zenon DEF Registers
      <4> QED BY <4>2, <4>3, Zenon
    <3> QED BY <3>1, <3>2, Zenon
  <2> QED BY <2>1, <2>2, <2>3, Zenon DEF PairsOK
<1>11. CountOK(n + 1, P, g)
  <2> DEFINE R == {u \in Tid : f[u].pc = "register"}
  <2>1. {u \in Tid : g[u].pc = "register"} = R \cup {t} /\ t \notin R
    BY <1>4, Zenon
  <2>2. IsFiniteSet(R) /\ Cardinality(R) \in Nat /\ P.next_pid + Cardinality(R) < n
    BY <1>1, Registering DEF CountOK
  <2>3. P.next_pid \in Nat
    BY <1>1, Zenon DEF TableType
  <2> HIDE DEF R
  <2>4. Cardinality(R \cup {t}) = Cardinality(R) + 1
    BY <2>1, <2>2, FS_AddElement, Zenon
  <2>5. P.next_pid + (Cardinality(R) + 1) < n + 1
    BY <1>1, <2>2, <2>3
  <2> QED BY <2>1, <2>4, <2>5, Zenon DEF CountOK
<1>12. SlotsOK(P, U, g)
  <2>1. \A u \in Tid : g[u].slot = f[u].slot
    BY <1>4, Zenon
  <2> QED BY <1>1, <2>1 DEF SlotsOK
<1>13. TableType(n + 1, P)
  BY <1>1 DEF TableType
<1>14. Ends(D \ {n}, P, g)
  <2>1. \A p \in DOMAIN P.table : g[P.table[p].task].role = f[P.table[p].task].role
    BY <1>3, Zenon
  <2> QED BY <1>1, <1>3, <2>1 DEF Ends
<1>15. (B \cup {n}) \cap (D \ {n}) = {}
  BY <1>1, Zenon
<1> QED BY <1>1, <1>8, <1>10, <1>11, <1>12, <1>13, <1>14, <1>15, Zenon DEF World

(* sys_spawn: load, spawn, register and start in one trap.                 *)
LEMMA SysSpawnWorld ==
    ASSUME NEW D, NEW B, NEW n, NEW P, NEW U, NEW F, NEW f,
           World(D, B, n, P, U, F, f), n + 1 <= TidMax, n \notin B,
           NEW t, PidOfTid(P, t) \in F,
           NEW slot \in Slot \ U,
           NEW Q, Q = RegisterProcess(P, "program", n, t, slot),
           NEW E, E = CloneFdTable(F, PidOfTid(P, t), P.next_pid),
           NEW c \in Frame, c.slot = 0, c.dead = {}, c.role = "user",
           c.pc = "trampoline",
           NEW g, g = [f EXCEPT ![n] = c]
    PROVE  World(D \ {n}, B, n + 1, Q, U \cup {slot}, E, g)
<1> DEFINE k == P.next_pid
           N == n + 1
           name == "program"
<1>1. /\ TableType(n, P) /\ Kinship(P) /\ Ends(D, P, f) /\ f \in [Tid -> Frame]
      /\ P.next_pid > 1 /\ B \cap D = {} /\ SlotsOK(P, U, f) /\ n \in Nat \ {0}
      /\ F \subseteq Pid /\ U \subseteq Slot /\ TasksOK(D, B, n, P, F, f)
      /\ PairsOK(D, P, F, f) /\ CountOK(n, P, f) /\ N \in 1 .. TidMax /\ N \in Nat
  BY TableConstants DEF World
<1>2. /\ n \in Tid /\ n # 0 /\ f[n] = Idle
      /\ n \notin DOMAIN P.by_tid
      /\ \A p \in DOMAIN P.table : P.table[p].task # n /\ P.table[p].task \in Tid
      /\ \A u \in Tid : f[u].pc \in StartPcs => f[u].tid # n /\ f[u].tid \in Tid
  BY NewTid
<1>3. f[n].pc = "yield" /\ f[n].slot = 0
  BY <1>2 DEF Idle
<1>4. /\ g \in [Tid -> Frame] /\ g[n] = c
      /\ \A u \in Tid : u # n => g[u] = f[u]
  BY <1>1, <1>2, FrameFacts
<1>5. k \in Pid /\ k \in Nat \ {0} /\ k \notin DOMAIN P.table /\ k \notin DOMAIN P.table
  <2>1. World(D, B, n, P, U, F, f) /\ k \in Pid /\ k < n
    BY NextPid, Zenon
  <2> QED BY <1>1, <2>1 DEF Pid, TableType
<1>6. TableType(N, P) /\ n \in 1 .. N - 1
  BY <1>1 DEF TableType
<1>7. Registered(N, P, Q, n, t, slot) /\ Kinship(Q)
  <2>1. /\ name \in {"init-sup", "init", "ssh-shell", "program"}
        /\ Q = RegisterProcess(P, name, n, t, slot)
    BY Zenon
  <2> HIDE DEF name, N
  <2>2. PidOfTid(P, t) \in Pid \cup {0} /\ slot \in Slot \cup {0} /\ (k = 1 => n = 1)
    BY <1>1, PidsKnown
  <2>3. Registered(N, P, Q, n, t, slot)
    BY <1>1, <1>2, <1>5, <1>6, <2>1, <2>2, RegisterFacts, Zenon
  <2>4. Kinship(Q)
    BY <1>1, <1>2, <1>5, <1>6, <2>1, <2>2, RegisterKin, Zenon
  <2> QED BY <2>3, <2>4, Zenon
<1>8. /\ Registered(N, P, Q, n, t, slot)
      /\ \A u : u # n => PidOfTid(Q, u) = PidOfTid(P, u)
      /\ PidOfTid(Q, n) = k
      /\ \A q : q # k => Children(P, q) \subseteq Children(Q, q)
      /\ \A q : q # k => ZombieChildren(Q, q) = ZombieChildren(P, q)
  <2>1. TableType(N, P) /\ Kinship(P) /\ n \notin DOMAIN P.by_tid /\ N \in Nat
        /\ Registered(N, P, Q, n, t, slot)
    BY <1>1, <1>2, <1>6, <1>7, Zenon
  <2> HIDE DEF N
  <2> QED BY ONLY <2>1, RegisterUnnoticed, Zenon
<1>9. Q.next_pid = k + 1 /\ TableType(N, Q)
  BY <1>7, Zenon DEF Registered
<1>10. Q.next_pid > 1 /\ \A i \in Nat : i < k => i < Q.next_pid /\ i # k
  BY <1>5, <1>9
<1>11. /\ DOMAIN Q.table = DOMAIN P.table \cup {k}
       /\ DOMAIN Q.by_tid = DOMAIN P.by_tid \cup {n}
       /\ \A q \in DOMAIN P.table : /\ Q.table[q].task = P.table[q].task
                                    /\ Q.table[q].state = P.table[q].state
                                    /\ Q.table[q].slot = P.table[q].slot
       /\ Q.table[k].task = n /\ Q.table[k].state = "Running"
       /\ Q.table[k].slot = slot
  BY <1>7, Zenon DEF Registered
<1>12. F \subseteq E /\ E \subseteq Pid /\ k \in E
  BY <1>1, <1>5, Zenon DEF CloneFdTable
<1>13. SlotsOK(Q, U \cup {slot}, g)
  <2>1. SlotGiven(P, Q, k, slot)
    BY <1>5, <1>11, Zenon DEF SlotGiven
  <2>2. SlotMoved(f, g, n, f[n].slot)
    BY <1>3, <1>4, Zenon DEF SlotMoved
  <2> HIDE DEF k
  <2>3. /\ SlotsOK(P, U, f) /\ SlotGiven(P, Q, k, slot)
        /\ slot \in Slot \ U /\ SlotMoved(f, g, n, f[n].slot)
              => SlotsOK(Q, U \cup {slot}, g)
    <3>1. slot \in Slot \cup {0} /\ SlotsOK(P, U, f)
      BY <1>1, Zenon
    <3> QED BY <1>2, <2>1, <3>1, RegisterSlots, Zenon
  <2> QED BY <2>2, <2>3, Zenon
<1>14. \A u : PidOfTid(P, u) \in F => u # n
  BY <1>1, <1>2, PidsKnown DEF PidOfTid, Pid
<1> HIDE DEF k, N, name
<1>15. ASSUME NEW u \in Tid, u # n PROVE TaskOK(D \ {n}, B, N, Q, E, u, f[u])
  <2>1. TaskOK(D, B, n, P, F, u, f[u]) /\ f[u] \in Frame
    BY <1>1, Zenon DEF TasksOK
  <2>2. TaskOK(D \ {n}, B, N, P, F, u, f[u])
    <3>1. TaskOK(D \ {n}, B, n + 1, P, F, u, f[u])
      BY <1>1, <1>15, <2>1, TaskLater, Zenon
    <3> QED BY <3>1, Zenon DEF N
  <2>3. f[u].pc = "register" => f[u].tid \notin DOMAIN Q.by_tid
    BY <1>2, <1>11, <2>1, Zenon DEF TaskOK, StartPcs
  <2>4. f[u].pc \in ReapPcs => f[u].pid \notin DOMAIN Q.table /\ f[u].pid < Q.next_pid
    <3>1. f[u].pid \in Nat /\ P.next_pid = k
      BY <2>1, FrameFields DEF Pid, k
    <3> QED BY <1>10, <1>11, <2>1, <3>1, Zenon DEF TaskOK
  <2>5. ASSUME NEW q \in f[u].dead
        PROVE  /\ q < Q.next_pid
               /\ q \in DOMAIN Q.table => Q.table[q].state = "Zombie"
    <3>1. q \in Nat
      BY <2>1, FrameFields DEF Pid
    <3>2. q < k /\ (q \in DOMAIN P.table => P.table[q].state = "Zombie")
      BY <2>1, Zenon DEF TaskOK, k
    <3> QED BY <1>10, <1>11, <3>1, <3>2, Zenon
  <2>6. f[u].role \in {"sup", "shell"} /\ f[u].pc \in {"spawn", "register"}
           => PidOfTid(Q, u) \in E
    BY <1>8, <1>12, <1>14, <2>1, Zenon DEF TaskOK
  <2>7. ASSUME u \in B, f[u].pc = "wait", u # 1
        PROVE  /\ Children(Q, PidOfTid(Q, u)) # {}
               /\ ZombieChildren(Q, PidOfTid(Q, u)) = {}
    <3>1. PidOfTid(Q, u) = PidOfTid(P, u)
      BY <1>8, <1>15, Zenon
    <3>2. /\ Children(P, PidOfTid(P, u)) # {}
          /\ ZombieChildren(P, PidOfTid(P, u)) = {}
      BY <2>1, <2>7, Zenon DEF TaskOK
    <3>3. PidOfTid(P, u) # k
      BY <1>5, <3>2, Zenon DEF Children
    <3> QED BY <1>8, <3>1, <3>2, <3>3, Zenon
  <2> QED BY <2>2, <2>3, <2>4, <2>5, <2>6, <2>7, Zenon DEF TaskOK
<1>16. TaskOK(D \ {n}, B, N, Q, E, n, c)
  <2>1. c.pc \in PcsOf(c.role)
    BY Zenon DEF PcsOf
  <2>2. ~(n = 0 \/ n >= N)
    BY <1>1 DEF N
  <2>3. /\ c.pc \notin StartPcs /\ c.pc \notin ReapPcs
        /\ c.pc \notin {"spawn", "register"} /\ c.pc # "wait"
    BY Zenon DEF StartPcs, ReapPcs
  <2> QED BY <2>1, <2>2, <2>3, Zenon DEF TaskOK, StartPcs
<1>17. TasksOK(D \ {n}, B, N, Q, E, g)
  BY <1>4, <1>15, <1>16, Zenon DEF TasksOK
<1>18. \A u, v \in Tid : Registers(g, u, v) <=> Registers(f, u, v)
  BY <1>3, <1>4, Zenon DEF Registers
<1>19. PairsOK(D \ {n}, Q, E, g)
  <2>1. \A v, u \in Tid : g[v].pc \in StartPcs /\ g[u].pc \in StartPcs /\ v # u
           => g[v].tid # g[u].tid
    BY <1>1, <1>4 DEF PairsOK, StartPcs
  <2>2. ASSUME NEW u \in Tid, NEW v \in Tid, Registers(g, u, v)
        PROVE  /\ g[v].pc \in {"trampoline", "prompt"}
               /\ g[v].role = "user" \/ g[u].slot = 0
               /\ g[u].role = "net" => g[v].role # "user"
    <3>1. Registers(f, u, v) /\ u # n /\ v # n
      BY <1>2, <1>3, <1>18, <2>2, Zenon DEF Registers, StartPcs
    <3> QED BY <1>1, <1>4, <3>1, Zenon DEF PairsOK
  <2>3. ASSUME NEW v \in Tid, g[v].role = "user", v \notin D \ {n}
        PROVE  PidOfTid(Q, v) \in E \/ \E u \in Tid : Registers(g, u, v)
    <3>1. CASE v = n
      BY <1>8, <1>12, <3>1, Zenon
    <3>2. CASE v # n
      <4>1. v \notin D /\ f[v].role = "user"
        BY <1>4, <2>3, <3>2, Zenon
      <4>2. PidOfTid(P, v) \in F \/ \E u \in Tid : Registers(f, u, v)
        BY <1>1, <4>1, Zenon DEF PairsOK
      <4> QED BY <1>8, <1>12, <1>18, <3>2, <4>2, Zenon
    <3> QED BY <3>1, <3>2, Zenon
  <2> QED BY <2>1, <2>2, <2>3, Zenon DEF PairsOK
<1>20. CountOK(N, Q, g)
  <2> DEFINE R == {u \in Tid : f[u].pc = "register"}
  <2>1. {u \in Tid : g[u].pc = "register"} = R
    BY <1>3, <1>4, Zenon
  <2>2. Cardinality(R) \in Nat /\ k + Cardinality(R) < n
    BY <1>1, Registering, Zenon DEF CountOK, k
  <2> HIDE DEF R
  <2>3. (k + 1) + Cardinality(R) < N
    BY <1>1, <1>5, <2>2 DEF N
  <2> QED BY <1>9, <2>1, <2>3, Zenon DEF CountOK
<1>21. Ends(D \ {n}, Q, g)
  <2>1. \A p \in DOMAIN P.table : g[P.table[p].task].role = f[P.table[p].task].role
    BY <1>2, <1>4, Zenon
  <2>2. ASSUME NEW p \in DOMAIN P.table
        PROVE  /\ Q.table[p].state = "Zombie" => Q.table[p].task \in D \ {n}
               /\ Q.table[p].slot # 0
                     => /\ g[Q.table[p].task].role = "user"
                        /\ Q.table[p].task \in D => Q.table[p].state = "Zombie"
    <3>1. /\ Q.table[p].task = P.table[p].task /\ Q.table[p].state = P.table[p].state
          /\ Q.table[p].slot = P.table[p].slot /\ P.table[p].task # n
          /\ g[P.table[p].task].role = f[P.table[p].task].role
      BY <1>2, <1>11, <2>1, Zenon
    <3>2. /\ P.table[p].state = "Zombie" => P.table[p].task \in D
          /\ P.table[p].slot # 0
                => /\ f[P.table[p].task].role = "user"
                   /\ P.table[p].task \in D => P.table[p].state = "Zombie"
      BY <1>1, Zenon DEF Ends
    <3> QED BY <3>1, <3>2, Zenon
  <2>3. /\ Q.table[k].state # "Zombie" /\ g[Q.table[k].task].role = "user"
        /\ Q.table[k].task \notin D \ {n}
    BY <1>4, <1>11, Zenon
  <2> QED BY <1>11, <2>2, <2>3, Zenon DEF Ends
<1>22. B \cap (D \ {n}) = {} /\ U \cup {slot} \subseteq Slot
  BY <1>1, Zenon
<1>23. World(D \ {n}, B, N, Q, U \cup {slot}, E, g)
  BY <1>1, <1>4, <1>7, <1>9, <1>10, <1>12, <1>13, <1>17, <1>19, <1>20, <1>21, <1>22, Zenon DEF World
<1> QED BY <1>23, Zenon DEF N

-----------------------------------------------------------------------------
(* Tasks that end, sleep or wake, and processes that are marked or sent a  *)
(* signal: the same processes, with the same families.                     *)

Alike(P, Q) ==
    /\ Q = [table |-> Q.table, by_tid |-> Q.by_tid, next_pid |-> Q.next_pid]
    /\ Q.next_pid = P.next_pid /\ Q.by_tid = P.by_tid
    /\ DOMAIN Q.table = DOMAIN P.table
    /\ \A p \in DOMAIN P.table :
          /\ Q.table[p] \in Process
          /\ Q.table[p].task = P.table[p].task
          /\ Q.table[p].slot = P.table[p].slot
          /\ Q.table[p].parent = P.table[p].parent
          /\ Q.table[p].children = P.table[p].children
          /\ P.table[p].state = "Zombie" => Q.table[p].state = "Zombie"

(* What must hold where D grows to C and B shrinks to X.                   *)
Settled(D, B, Q, f, C, X) ==
    /\ D \subseteq C /\ X \subseteq B /\ X \cap C = {}
    /\ Ends(C, Q, f)
    /\ \A t \in Tid : f[t].pc = "register" => f[t].tid \in X
    /\ \A t \in Tid : t \in C \ D => /\ f[t].role \notin {"sup", "net"}
                                     /\ f[t].role = "shell" => f[t].pc \in ExitPcs
    /\ \A t \in Tid : t \in X /\ f[t].pc = "wait" /\ t # 1
          => ZombieChildren(Q, PidOfTid(Q, t)) = {}

(* Then the world is sound again.                                          *)
LEMMA AlikeWorld ==
    ASSUME NEW D, NEW B, NEW n, NEW P, NEW U, NEW F, NEW f,
           World(D, B, n, P, U, F, f), NEW Q, Alike(P, Q),
           NEW C, NEW X, Settled(D, B, Q, f, C, X)
    PROVE  World(C, X, n, Q, U, F, f)
<1>1. /\ TableType(n, P) /\ Kinship(P) /\ Ends(D, P, f) /\ f \in [Tid -> Frame]
      /\ SlotsOK(P, U, f) /\ TasksOK(D, B, n, P, F, f)
      /\ PairsOK(D, P, F, f) /\ CountOK(n, P, f)
  BY Zenon DEF World
<1>2. /\ \A t : PidOfTid(Q, t) = PidOfTid(P, t)
      /\ \A p : Children(Q, p) = Children(P, p)
  BY Zenon DEF Alike, PidOfTid, Children
<1>3. TableType(n, Q)
  BY <1>1, Zenon DEF TableType, Alike
<1>4. Kinship(Q)
  <2>1. \A p \in DOMAIN P.table : \A c \in Pid :
           c \in Q.table[p].children
              <=> (c \in DOMAIN Q.table /\ Q.table[c].parent = p)
    BY <1>1 DEF Kinship, Alike
  <2>2. \A p \in DOMAIN P.table :
           /\ Q.table[p].parent = 0 \/ Q.table[p].parent \in DOMAIN Q.table
           /\ Q.table[p].parent < p
           /\ Q.table[p].task \in DOMAIN Q.by_tid
           /\ Q.by_tid[Q.table[p].task] = p
    BY <1>1, Zenon DEF Kinship, Alike
  <2>3. \A t \in DOMAIN Q.by_tid : /\ Q.by_tid[t] \in DOMAIN Q.table
                                   /\ Q.table[Q.by_tid[t]].task = t
    BY <1>1 DEF Kinship, Alike
  <2>4. 1 \in DOMAIN Q.table => Q.table[1].task = 1
    BY <1>1, Zenon DEF Kinship, Alike
  <2>5. DOMAIN Q.table = DOMAIN P.table
    BY Zenon DEF Alike
  <2> QED BY <2>1, <2>2, <2>3, <2>4, <2>5, Zenon DEF Kinship
<1>5. SlotsOK(Q, U, f)
  <2>1. /\ DOMAIN Q.table = DOMAIN P.table
        /\ \A p \in DOMAIN P.table : Q.table[p].slot = P.table[p].slot
    BY Zenon DEF Alike
  <2> QED BY <1>1, <2>1 DEF SlotsOK
<1>6. CountOK(n, Q, f)
  BY <1>1, Zenon DEF CountOK, Alike
<1>7. PairsOK(C, Q, F, f)
  BY <1>1, <1>2, Zenon DEF PairsOK, Settled
<1>8. ASSUME NEW t \in Tid PROVE TaskOK(C, X, n, Q, F, t, f[t])
  <2>1. TaskOK(D, B, n, P, F, t, f[t])
    BY <1>1, Zenon DEF TasksOK
  <2>2. f[t].pc = "register" => f[t].tid \in X /\ f[t].tid \notin DOMAIN Q.by_tid
    BY <2>1, Zenon DEF TaskOK, Settled, Alike
  <2>3. f[t].role \in {"sup", "net", "shell"} /\ t \in C => f[t].pc \in ExitPcs
    BY <2>1, Zenon DEF TaskOK, Settled
  <2>4. /\ f[t].pc \in ReapPcs => f[t].pid \notin DOMAIN Q.table /\ f[t].pid < Q.next_pid
        /\ \A q \in f[t].dead : /\ q < Q.next_pid
                                /\ q \in DOMAIN Q.table => Q.table[q].state = "Zombie"
    BY <2>1, Zenon DEF TaskOK, Alike
  <2>5. t \in X /\ f[t].pc = "wait" /\ t # 1
           => /\ Children(Q, PidOfTid(Q, t)) # {}
              /\ ZombieChildren(Q, PidOfTid(Q, t)) = {}
    BY <1>2, <2>1 DEF TaskOK, Settled
  <2> QED BY <1>2, <2>1, <2>2, <2>3, <2>4, <2>5, Zenon DEF TaskOK
<1>9. TasksOK(C, X, n, Q, F, f)
  BY <1>8, Zenon DEF TasksOK
<1> QED BY <1>1, <1>3, <1>4, <1>5, <1>6, <1>7, <1>9, Zenon DEF World, Alike, Settled

(* A table is like itself.                                                 *)
LEMMA AlikeSelf ==
    ASSUME NEW n, NEW P, TableType(n, P)
    PROVE  Alike(P, P)
BY Zenon DEF Alike, TableType

(* unblock_task of a task that is not being registered.                    *)
LEMMA WakeWorld ==
    ASSUME NEW D, NEW B, NEW n, NEW P, NEW U, NEW F, NEW f,
           World(D, B, n, P, U, F, f), NEW x,
           \A t \in Tid : f[t].pc = "register" => f[t].tid # x
    PROVE  World(D, B \ {x}, n, P, U, F, f)
<1>1. Alike(P, P)
  BY AlikeSelf, Zenon DEF World
<1>2. Settled(D, B, P, f, D, B \ {x})
  BY Zenon DEF World, TasksOK, TaskOK, Settled
<1> QED BY <1>1, <1>2, AlikeWorld, Zenon

(* mark_zombie of a shell that has returned to task_trampoline.            *)
LEMMA MarkWorld ==
    ASSUME NEW D, NEW B, NEW n, NEW P, NEW U, NEW F, NEW f,
           World(D, B, n, P, U, F, f), NEW t \in Tid,
           f[t].role = "shell", f[t].pc \in ExitPcs
    PROVE  World(D \cup {t}, B \ {t}, n, P, U, F, f)
<1>1. Alike(P, P)
  BY AlikeSelf, Zenon DEF World
<1>2. Ends(D \cup {t}, P, f)
  BY Zenon DEF World, Ends
<1>3. \A u \in Tid : f[u].pc = "register" => f[u].tid \in B \ {t}
  <2>1. \A u \in Tid : f[u].pc = "register" => f[u].tid \in B /\ f[u].tid \in Tid
    BY FrameFields, Zenon DEF World, TasksOK, TaskOK
  <2>2. \A u \in Tid : f[u].pc = "register" => f[u].tid # t
    <3>1. \A u, v \in Tid : Registers(f, u, v) => f[v].pc \in {"trampoline", "prompt"}
      BY Zenon DEF World, PairsOK
    <3> QED BY <2>1, <3>1, Zenon DEF Registers, ExitPcs
  <2> QED BY <2>1, <2>2, Zenon
<1>4. Settled(D, B, P, f, D \cup {t}, B \ {t})
  BY <1>2, <1>3, Zenon DEF World, TasksOK, TaskOK, Settled
<1> QED BY <1>1, <1>4, AlikeWorld, Zenon

(* sys_wait blocks, with children of whom none has exited.                 *)
LEMMA SleepWorld ==
    ASSUME NEW D, NEW B, NEW n, NEW P, NEW U, NEW F, NEW f,
           World(D, B, n, P, U, F, f), NEW t \in Tid, t \notin D,
           t # 1 => /\ Children(P, PidOfTid(P, t)) # {}
                    /\ ZombieChildren(P, PidOfTid(P, t)) = {}
    PROVE  World(D, B \cup {t}, n, P, U, F, f)
<1>1. TasksOK(D, B, n, P, F, f)
  BY Zenon DEF World
<1>2. ASSUME NEW u \in Tid PROVE TaskOK(D, B \cup {t}, n, P, F, u, f[u])
  <2>1. TaskOK(D, B, n, P, F, u, f[u])
    BY <1>1, Zenon DEF TasksOK
  <2>2. f[u].pc = "register" => f[u].tid \in B \cup {t}
    BY <2>1, Zenon DEF TaskOK
  <2>3. u \in B \cup {t} /\ f[u].pc = "wait" /\ u # 1
           => /\ Children(P, PidOfTid(P, u)) # {}
              /\ ZombieChildren(P, PidOfTid(P, u)) = {}
    BY <2>1, Zenon DEF TaskOK
  <2> QED BY <2>1, <2>2, <2>3, Zenon DEF TaskOK
<1>3. TasksOK(D, B \cup {t}, n, P, F, f)
  BY <1>2, Zenon DEF TasksOK
<1> QED BY <1>3, Zenon DEF World

(* A table in which the processes are replaced.                            *)
LEMMA PutTable ==
    ASSUME NEW n, NEW P, TableType(n, P), NEW T
    PROVE  [P EXCEPT !.table = T]
              = [table |-> T, by_tid |-> P.by_tid, next_pid |-> P.next_pid]
BY DEF TableType

(* An edit of one process leaves the others.                               *)
LEMMA EditAlike ==
    ASSUME NEW n, NEW P, TableType(n, P), NEW p \in DOMAIN P.table,
           NEW w, Edit(P.table[p], w),
           NEW Q, Q = [table |-> [P.table EXCEPT ![p] = w],
                       by_tid |-> P.by_tid, next_pid |-> P.next_pid]
    PROVE  /\ Alike(P, Q)
           /\ Q.table[p] = w
           /\ \A q \in DOMAIN P.table : q # p => Q.table[q] = P.table[q]
<1> DEFINE T == [P.table EXCEPT ![p] = w]
<1>1. /\ DOMAIN T = DOMAIN P.table /\ T[p] = w
      /\ \A q \in DOMAIN P.table : q # p => T[q] = P.table[q]
  BY Zenon
<1>3. Q = [table |-> T, by_tid |-> P.by_tid, next_pid |-> P.next_pid]
  BY Zenon
<1> HIDE DEF T
<1>4. /\ Q.table = T /\ Q.by_tid = P.by_tid /\ Q.next_pid = P.next_pid
      /\ Q = [table |-> Q.table, by_tid |-> Q.by_tid, next_pid |-> Q.next_pid]
  BY <1>3
<1>5. ASSUME NEW q \in DOMAIN P.table
      PROVE  /\ T[q] \in Process
             /\ T[q].task = P.table[q].task /\ T[q].slot = P.table[q].slot
             /\ T[q].parent = P.table[q].parent /\ T[q].children = P.table[q].children
             /\ P.table[q].state = "Zombie" => T[q].state = "Zombie"
  <2>1. CASE q = p
    BY <1>1, <2>1, Zenon DEF Edit
  <2>2. CASE q # p
    BY <1>1, <2>2, Zenon DEF TableType
  <2> QED BY <2>1, <2>2, Zenon
<1>6. Alike(P, Q)
  BY <1>1, <1>4, <1>5 DEF Alike
<1> QED BY <1>1, <1>4, <1>6, Zenon

(* A signal is made pending, or taken.                                     *)
LEMMA SignalWorld ==
    ASSUME NEW D, NEW B, NEW n, NEW P, NEW U, NEW F, NEW f,
           World(D, B, n, P, U, F, f), NEW p \in DOMAIN P.table,
           NEW w, Edit(P.table[p], w), w.state = P.table[p].state,
           NEW Q, Q = [table |-> [P.table EXCEPT ![p] = w],
                       by_tid |-> P.by_tid, next_pid |-> P.next_pid]
    PROVE  World(D, B, n, Q, U, F, f)
<1>1. TableType(n, P) /\ Ends(D, P, f) /\ TasksOK(D, B, n, P, F, f) /\ B \cap D = {}
  BY Zenon DEF World
<1>2. /\ Alike(P, Q) /\ Q.table[p] = w
      /\ \A q \in DOMAIN P.table : q # p => Q.table[q] = P.table[q]
  BY <1>1, EditAlike, Zenon
<1>3. \A q \in DOMAIN P.table : Q.table[q].state = P.table[q].state
  BY <1>2, Zenon
<1>4. Ends(D, Q, f)
  BY <1>1, <1>2, <1>3 DEF Ends, Alike
<1>5. \A q : ZombieChildren(Q, q) = ZombieChildren(P, q)
  BY <1>2, <1>3, Zenon DEF Alike, ZombieChildren, IsZombie, Children
<1>6. \A t : PidOfTid(Q, t) = PidOfTid(P, t)
  BY <1>2, Zenon DEF Alike, PidOfTid
<1>7. Settled(D, B, Q, f, D, B)
  BY <1>1, <1>4, <1>5, <1>6, Zenon DEF Settled, TasksOK, TaskOK
<1> QED BY <1>2, <1>7, AlikeWorld, Zenon

(* sys_exit and scheduler::exit: the process is marked, then its parent is *)
(* woken, then the task is marked.                                         *)
LEMMA ExitWorld ==
    ASSUME NEW D, NEW B, NEW n, NEW P, NEW U, NEW F, NEW f,
           World(D, B, n, P, U, F, f), NEW t \in Tid,
           \/ f[t].role = "user" /\ f[t].pc # "trampoline"
           \/ f[t].role = "shell" /\ f[t].pc \in ExitPcs,
           NEW Q, Q = ExitTable(P, t),
           NEW X, X \subseteq B \ {t}, B \ {t, ParentTask(P, t)} \subseteq X,
           ParentTask(P, t) = 0 \/ ParentTask(P, t) \notin X
    PROVE  World(D \cup {t}, X, n, Q, U, F, f)
<1> DEFINE p == PidOfTid(P, t)
<1>1. /\ TableType(n, P) /\ Ends(D, P, f) /\ TasksOK(D, B, n, P, F, f) /\ B \cap D = {}
      /\ Kinship(P) /\ PairsOK(D, P, F, f)
  BY Zenon DEF World
<1>2. /\ p # 0 => p \in DOMAIN P.table /\ P.table[p].task = t
      /\ 0 \notin DOMAIN P.table
      /\ \A q \in DOMAIN P.table : P.table[q].task = t => q = p
      /\ \A q \in DOMAIN P.table : P.table[q].task # 0
      /\ \A q \in DOMAIN P.table : P.table[q].task \in DOMAIN P.by_tid
  BY <1>1, PidsKnown DEF Kinship, PidOfTid, TableType
<1>3. /\ Alike(P, Q)
      /\ p # 0 => Q.table[p].state = "Zombie"
      /\ \A q \in DOMAIN P.table : q # p => Q.table[q] = P.table[q]
  <2>1. CASE p = 0
    <3>1. Q = P
      BY <1>2, <2>1, Zenon DEF ExitTable
    <3> QED BY <1>1, <2>1, <3>1, AlikeSelf, Zenon
  <2>2. CASE p # 0
    <3> DEFINE w == [P.table[p] EXCEPT !.state = "Zombie"]
           T == [P.table EXCEPT ![p] = w]
    <3>1. Q = [table |-> T, by_tid |-> P.by_tid, next_pid |-> P.next_pid]
          /\ p \in DOMAIN P.table
      <4>1. Q = [P EXCEPT !.table = T] /\ p \in DOMAIN P.table
        BY <1>2, <2>2, Zenon DEF ExitTable
      <4> HIDE DEF T
      <4> QED BY <1>1, <4>1, PutTable, Zenon
    <3>2. Edit(P.table[p], w) /\ w.state = "Zombie"
      <4>1. P.table[p] \in Process
        BY <1>1, <3>1, Zenon DEF TableType
      <4> QED BY <4>1, EditState, Zenon
    <3> HIDE DEF p, w
    <3>3. /\ Alike(P, Q) /\ Q.table[p] = w
          /\ \A q \in DOMAIN P.table : q # p => Q.table[q] = P.table[q]
      BY <1>1, <3>1, <3>2, EditAlike
    <3> QED BY <3>2, <3>3, Zenon
  <2> QED BY <2>1, <2>2, Zenon
<1> HIDE DEF p
<1>4. Ends(D \cup {t}, Q, f)
  <2>1. ASSUME NEW q \in DOMAIN P.table
        PROVE  /\ Q.table[q].state = "Zombie" => Q.table[q].task \in D \cup {t}
               /\ Q.table[q].slot # 0
                     => /\ f[Q.table[q].task].role = "user"
                        /\ Q.table[q].task \in D \cup {t} => Q.table[q].state = "Zombie"
    <3>1. Q.table[q].task = P.table[q].task /\ Q.table[q].slot = P.table[q].slot
      BY <1>3, Zenon DEF Alike
    <3>2. /\ P.table[q].state = "Zombie" => P.table[q].task \in D
          /\ P.table[q].slot # 0
                => /\ f[P.table[q].task].role = "user"
                   /\ P.table[q].task \in D => P.table[q].state = "Zombie"
      BY <1>1, Zenon DEF Ends
    <3>3. CASE q = p
      BY <1>2, <1>3, <3>1, <3>2, <3>3, Zenon
    <3>4. CASE q # p
      BY <1>2, <1>3, <3>1, <3>2, <3>4, Zenon
    <3> QED BY <3>3, <3>4, Zenon
  <2> QED BY <1>3, <2>1, Zenon DEF Ends, Alike
<1>5. ASSUME NEW u \in Tid, f[u].pc = "register" PROVE f[u].tid \in X
  <2>1. f[u].tid \in B /\ f[u].tid \notin DOMAIN P.by_tid /\ f[u].tid \in 1 .. n - 1
    BY <1>1, <1>5, Zenon DEF TasksOK, TaskOK, StartPcs
  <2>2. f[u].tid # t
    <3>1. f[t].pc \notin {"trampoline", "prompt"}
      <4>1. f[t] \in Frame /\ f[t].pc \in PcsOf(f[t].role)
        BY <1>1, Zenon DEF TasksOK, TaskOK
      <4> QED BY <4>1, PcRoles, Zenon DEF ExitPcs
    <3> QED BY <1>1, <1>5, <3>1, Zenon DEF PairsOK, Registers
  <2>3. f[u].tid # ParentTask(P, t)
    BY <1>2, <2>1 DEF ParentTask
  <2> QED BY <2>1, <2>2, <2>3, Zenon
<1>6. ASSUME NEW u \in Tid, u \in X, f[u].pc = "wait", u # 1
      PROVE  ZombieChildren(Q, PidOfTid(Q, u)) = {}
  <2> DEFINE q == PidOfTid(P, u)
  <2>1. PidOfTid(Q, u) = q /\ Children(Q, q) = Children(P, q)
    BY <1>3, Zenon DEF Alike, PidOfTid, Children
  <2>2. ZombieChildren(P, q) = {} /\ Children(P, q) # {}
    BY <1>1, <1>6, Zenon DEF TasksOK, TaskOK
  <2>3. q \in DOMAIN P.table /\ P.table[q].task = u
    <3>1. q # 0
      BY <1>2, <2>2, Zenon DEF Children
    <3> QED BY <1>1, <3>1, PidsKnown
  <2> HIDE DEF q
  <2>4. p \notin Children(P, q)
    <3> SUFFICES ASSUME p \in Children(P, q) PROVE FALSE
      BY Zenon
    <3>1. p \in Pid /\ p \in P.table[q].children
      BY <1>1, <2>3, ProcFields, Zenon DEF Children, TableType
    <3>2. p \in DOMAIN P.table /\ P.table[p].parent = q
      BY <1>1, <2>3, <3>1, Zenon DEF Kinship
    <3>3. ParentTask(P, t) = u
      BY <2>3, <3>2, Zenon DEF ParentTask, p
    <3> QED BY <1>2, <1>6, <2>3, <3>3, Zenon
  <2>5. \A c \in Children(P, q) : ~IsZombie(Q, c)
    BY <1>3, <2>2, <2>4, Zenon DEF ZombieChildren, IsZombie, Alike
  <2> QED BY <2>1, <2>5, Zenon DEF ZombieChildren
<1>7. Settled(D, B, Q, f, D \cup {t}, X)
  BY <1>1, <1>4, <1>5, <1>6, Zenon DEF Settled
<1> QED BY <1>3, <1>7, AlikeWorld, Zenon

-----------------------------------------------------------------------------
(* The edits of a frame, field by field.                                   *)

(* From f to g, task t keeps its role, has these other fields, and no      *)
(* other frame changes.                                                    *)
Moved(f, g, t, pc, slot, tid, pid, dead) ==
    /\ g \in [Tid -> Frame] /\ g = [f EXCEPT ![t] = g[t]] /\ g[t] \in Frame
    /\ g[t].role = f[t].role /\ g[t].pc = pc /\ g[t].slot = slot
    /\ g[t].tid = tid /\ g[t].pid = pid /\ g[t].dead = dead

(* Task t is moved when its frame has those fields and no other changed.   *)
LEMMA MovedFrame ==
    ASSUME NEW f \in [Tid -> Frame], NEW t \in Tid, NEW g,
           g = [u \in Tid |-> g[u]], g[t] \in Frame,
           \A u \in Tid : u # t => g[u] = f[u],
           NEW pc, NEW slot, NEW tid, NEW pid, NEW dead,
           /\ g[t].role = f[t].role /\ g[t].pc = pc /\ g[t].slot = slot
           /\ g[t].tid = tid /\ g[t].pid = pid /\ g[t].dead = dead
    PROVE  Moved(f, g, t, pc, slot, tid, pid, dead)
<1>1. \A u \in Tid : g[u] \in Frame
  BY Zenon
<1>2. g \in [Tid -> Frame]
  BY <1>1, Zenon
<1>3. g = [f EXCEPT ![t] = g[t]]
  BY <1>2, Zenon
<1> QED BY <1>2, <1>3, Zenon DEF Moved

(* The task's PC moves and nothing else.                                   *)
LEMMA PutPc ==
    ASSUME NEW f \in [Tid -> Frame], NEW t \in Tid, NEW x \in Pcs,
           NEW g, g = [f EXCEPT ![t].pc = x]
    PROVE  Moved(f, g, t, x, f[t].slot, f[t].tid, f[t].pid, f[t].dead)
<1>1. g[t] \in Frame
  BY Zenon DEF Frame
<1>2. g = [u \in Tid |-> g[u]] /\ \A u \in Tid : u # t => g[u] = f[u]
  BY Zenon DEF Frame
<1>3. /\ g[t].role = f[t].role /\ g[t].pc = x /\ g[t].slot = f[t].slot
      /\ g[t].tid = f[t].tid /\ g[t].pid = f[t].pid /\ g[t].dead = f[t].dead
  BY DEF Frame
<1> QED BY ONLY f \in [Tid -> Frame], t \in Tid, <1>1, <1>2, <1>3, MovedFrame, Zenon

(* load_elf took a slot.                                                   *)
LEMMA PutPcSlot ==
    ASSUME NEW f \in [Tid -> Frame], NEW t \in Tid,
           NEW x \in Pcs, NEW a \in Slot \cup {0},
           NEW g, g = [f EXCEPT ![t].pc = x, ![t].slot = a]
    PROVE  Moved(f, g, t, x, a, f[t].tid, f[t].pid, f[t].dead)
<1>1. g[t] \in Frame
  BY Zenon DEF Frame
<1>2. g = [u \in Tid |-> g[u]] /\ \A u \in Tid : u # t => g[u] = f[u]
  BY Zenon DEF Frame
<1>3. /\ g[t].role = f[t].role /\ g[t].pc = x /\ g[t].slot = a
      /\ g[t].tid = f[t].tid /\ g[t].pid = f[t].pid /\ g[t].dead = f[t].dead
  BY DEF Frame
<1> QED BY ONLY f \in [Tid -> Frame], t \in Tid, <1>1, <1>2, <1>3, MovedFrame, Zenon

(* A slot given back (slot_free).                                          *)
LEMMA PutSlotPc ==
    ASSUME NEW f \in [Tid -> Frame], NEW t \in Tid,
           NEW a \in Slot \cup {0}, NEW x \in Pcs,
           NEW g, g = [f EXCEPT ![t].slot = a, ![t].pc = x]
    PROVE  Moved(f, g, t, x, a, f[t].tid, f[t].pid, f[t].dead)
<1>1. g[t] \in Frame
  BY Zenon DEF Frame
<1>2. g = [u \in Tid |-> g[u]] /\ \A u \in Tid : u # t => g[u] = f[u]
  BY Zenon DEF Frame
<1>3. /\ g[t].role = f[t].role /\ g[t].pc = x /\ g[t].slot = a
      /\ g[t].tid = f[t].tid /\ g[t].pid = f[t].pid /\ g[t].dead = f[t].dead
  BY DEF Frame
<1> QED BY ONLY f \in [Tid -> Frame], t \in Tid, <1>1, <1>2, <1>3, MovedFrame, Zenon

(* The drain loop holds the pid and the slot of the child it removed.      *)
LEMMA PutPcPidSlot ==
    ASSUME NEW f \in [Tid -> Frame], NEW t \in Tid,
           NEW x \in Pcs, NEW p \in Pid \cup {0},
           NEW a \in Slot \cup {0},
           NEW g, g = [f EXCEPT ![t].pc = x, ![t].pid = p, ![t].slot = a]
    PROVE  Moved(f, g, t, x, a, f[t].tid, p, f[t].dead)
<1>1. g[t] \in Frame
  BY Zenon DEF Frame
<1>2. g = [u \in Tid |-> g[u]] /\ \A u \in Tid : u # t => g[u] = f[u]
  BY Zenon DEF Frame
<1>3. /\ g[t].role = f[t].role /\ g[t].pc = x /\ g[t].slot = a
      /\ g[t].tid = f[t].tid /\ g[t].pid = p /\ g[t].dead = f[t].dead
  BY DEF Frame
<1> QED BY ONLY f \in [Tid -> Frame], t \in Tid, <1>1, <1>2, <1>3, MovedFrame, Zenon

(* A registered child: the slot is its process's now.                     *)
LEMMA PutPcSlotPid ==
    ASSUME NEW f \in [Tid -> Frame], NEW t \in Tid,
           NEW x \in Pcs, NEW a \in Slot \cup {0},
           NEW p \in Pid \cup {0},
           NEW g, g = [f EXCEPT ![t].pc = x, ![t].slot = a, ![t].pid = p]
    PROVE  Moved(f, g, t, x, a, f[t].tid, p, f[t].dead)
<1>1. g[t] \in Frame
  BY Zenon DEF Frame
<1>2. g = [u \in Tid |-> g[u]] /\ \A u \in Tid : u # t => g[u] = f[u]
  BY Zenon DEF Frame
<1>3. /\ g[t].role = f[t].role /\ g[t].pc = x /\ g[t].slot = a
      /\ g[t].tid = f[t].tid /\ g[t].pid = p /\ g[t].dead = f[t].dead
  BY DEF Frame
<1> QED BY ONLY f \in [Tid -> Frame], t \in Tid, <1>1, <1>2, <1>3, MovedFrame, Zenon

(* reap_orphans collects the pids to reap.                                 *)
LEMMA PutPcDead ==
    ASSUME NEW f \in [Tid -> Frame], NEW t \in Tid,
           NEW x \in Pcs, NEW d \in SUBSET Pid,
           NEW g, g = [f EXCEPT ![t].pc = x, ![t].dead = d]
    PROVE  Moved(f, g, t, x, f[t].slot, f[t].tid, f[t].pid, d)
<1>1. g[t] \in Frame
  BY Zenon DEF Frame
<1>2. g = [u \in Tid |-> g[u]] /\ \A u \in Tid : u # t => g[u] = f[u]
  BY Zenon DEF Frame
<1>3. /\ g[t].role = f[t].role /\ g[t].pc = x /\ g[t].slot = f[t].slot
      /\ g[t].tid = f[t].tid /\ g[t].pid = f[t].pid /\ g[t].dead = d
  BY DEF Frame
<1> QED BY ONLY f \in [Tid -> Frame], t \in Tid, <1>1, <1>2, <1>3, MovedFrame, Zenon

(* reap_orphans has removed one of them.                                   *)
LEMMA PutPcDeadPidSlot ==
    ASSUME NEW f \in [Tid -> Frame], NEW t \in Tid,
           NEW x \in Pcs, NEW d \in SUBSET Pid,
           NEW p \in Pid \cup {0}, NEW a \in Slot \cup {0},
           NEW g, g = [f EXCEPT ![t].pc = x, ![t].dead = d, ![t].pid = p, ![t].slot = a]
    PROVE  Moved(f, g, t, x, a, f[t].tid, p, d)
<1>1. g[t] \in Frame
  BY Zenon DEF Frame
<1>2. g = [u \in Tid |-> g[u]] /\ \A u \in Tid : u # t => g[u] = f[u]
  BY Zenon DEF Frame
<1>3. /\ g[t].role = f[t].role /\ g[t].pc = x /\ g[t].slot = a
      /\ g[t].tid = f[t].tid /\ g[t].pid = p /\ g[t].dead = d
  BY DEF Frame
<1> QED BY ONLY f \in [Tid -> Frame], t \in Tid, <1>1, <1>2, <1>3, MovedFrame, Zenon

(* The fd table of a removed process is gone (cleanup_process_fds).        *)
LEMMA PutPidPc ==
    ASSUME NEW f \in [Tid -> Frame], NEW t \in Tid,
           NEW p \in Pid \cup {0}, NEW x \in Pcs,
           NEW g, g = [f EXCEPT ![t].pid = p, ![t].pc = x]
    PROVE  Moved(f, g, t, x, f[t].slot, f[t].tid, p, f[t].dead)
<1>1. g[t] \in Frame
  BY Zenon DEF Frame
<1>2. g = [u \in Tid |-> g[u]] /\ \A u \in Tid : u # t => g[u] = f[u]
  BY Zenon DEF Frame
<1>3. /\ g[t].role = f[t].role /\ g[t].pc = x /\ g[t].slot = f[t].slot
      /\ g[t].tid = f[t].tid /\ g[t].pid = p /\ g[t].dead = f[t].dead
  BY DEF Frame
<1> QED BY ONLY f \in [Tid -> Frame], t \in Tid, <1>1, <1>2, <1>3, MovedFrame, Zenon

(* A child is started: its starter drops the locals.                       *)
LEMMA PutPidTidPc ==
    ASSUME NEW f \in [Tid -> Frame], NEW t \in Tid,
           NEW p \in Pid \cup {0}, NEW k \in Tid,
           NEW x \in Pcs,
           NEW g, g = [f EXCEPT ![t].pid = p, ![t].tid = k, ![t].pc = x]
    PROVE  Moved(f, g, t, x, f[t].slot, k, p, f[t].dead)
<1>1. g[t] \in Frame
  BY Zenon DEF Frame, Tid
<1>2. g = [u \in Tid |-> g[u]] /\ \A u \in Tid : u # t => g[u] = f[u]
  BY Zenon DEF Frame
<1>3. /\ g[t].role = f[t].role /\ g[t].pc = x /\ g[t].slot = f[t].slot
      /\ g[t].tid = k /\ g[t].pid = p /\ g[t].dead = f[t].dead
  BY DEF Frame
<1> QED BY ONLY f \in [Tid -> Frame], t \in Tid, <1>1, <1>2, <1>3, MovedFrame, Zenon

(* spawn_blocked: the frame of the new task n, and its tid in t's locals.  *)
LEMMA PutSpawn ==
    ASSUME NEW f \in [Tid -> Frame], NEW t \in Tid, NEW n \in Tid, t # n,
           NEW c \in Frame, NEW x \in Pcs,
           NEW g, g = [f EXCEPT ![n] = c, ![t].tid = n, ![t].pc = x]
    PROVE  Spawned(f, g, t, n, c, x)
<1>1. f[t] \in Frame
  BY Zenon
<1>2. g[t] \in Frame
  BY <1>1, Zenon DEF Frame
<1>3. /\ g = [u \in Tid |-> g[u]] /\ g[n] = c
      /\ \A u \in Tid : u # n /\ u # t => g[u] = f[u]
  BY Zenon DEF Frame
<1>4. /\ g[t].role = f[t].role /\ g[t].pc = x /\ g[t].slot = f[t].slot
      /\ g[t].tid = n /\ g[t].dead = f[t].dead
  BY Zenon DEF Frame
<1>5. \A u \in Tid : g[u] \in Frame
  BY ONLY f \in [Tid -> Frame], c \in Frame, <1>2, <1>3, Zenon
<1>6. g \in [Tid -> Frame]
  BY ONLY <1>3, <1>5, Zenon
<1> QED BY <1>2, <1>3, <1>4, <1>6, Zenon DEF Spawned

(* The frame a new task starts with.                                       *)
LEMMA StartFrame ==
    /\ StartAs("shell", "prompt") \in Frame
    /\ StartAs("shell", "prompt").role = "shell"
    /\ StartAs("shell", "prompt").pc = "prompt"
    /\ StartAs("shell", "prompt").slot = 0 /\ StartAs("shell", "prompt").dead = {}
    /\ StartAs("user", "trampoline") \in Frame
    /\ StartAs("user", "trampoline").role = "user"
    /\ StartAs("user", "trampoline").pc = "trampoline"
    /\ StartAs("user", "trampoline").slot = 0
    /\ StartAs("user", "trampoline").dead = {}
<1>1. 0 \in Tid /\ {} \in SUBSET Pid
  BY TableConstants DEF Tid
<1> QED BY <1>1, Zenon DEF StartAs, Idle, Frame, Pcs

(* A running task that is not dead goes on to another PC of its role, one  *)
(* where none of its locals is in use.                                     *)
LEMMA GotoTask ==
    ASSUME NEW D, NEW B, NEW n, NEW P, NEW F, NEW t, NEW w,
           TaskOK(D, B, n, P, F, t, w), t \notin B,
           NEW r \in Frame, r.role = w.role, r.pc \in PcsOf(r.role),
           r.pc \notin StartPcs \cup ReapPcs,
           r.pc = "spawn" => r.role = "net" /\ r.slot = 0,
           ~(t = 0 \/ t >= n), r.slot # 0 => r.pc \in SlotPcs,
           t \in D /\ r.role # "user" => r.pc \in ExitPcs,
           \A q \in r.dead : \/ q \in w.dead
                             \/ q < P.next_pid /\ IsZombie(P, q)
    PROVE  TaskOK(D, B, n, P, F, t, r)
BY Zenon DEF TaskOK, StartPcs, IsZombie

(* The fd table of a process that is gone can go (cleanup_process_fds).    *)
LEMMA FdsGo ==
    ASSUME NEW D, NEW B, NEW n, NEW P, NEW U, NEW F, NEW f,
           World(D, B, n, P, U, F, f), NEW q, q \notin DOMAIN P.table
    PROVE  World(D, B, n, P, U, F \ {q}, f)
<1> DEFINE E == F \ {q}
<1>1. E \subseteq Pid /\ \A t \in Tid : PidOfTid(P, t) \in F => PidOfTid(P, t) \in E
  <2>1. Kinship(P) /\ F \subseteq Pid
    BY Zenon DEF World
  <2>2. 0 \notin Pid
    BY DEF Pid
  <2> QED BY <2>1, <2>2 DEF Kinship, PidOfTid
<1> HIDE DEF E
<1>2. TasksOK(D, B, n, P, E, f)
  <2> SUFFICES ASSUME NEW t \in Tid PROVE TaskOK(D, B, n, P, E, t, f[t])
    BY Zenon DEF TasksOK
  <2>1. TaskOK(D, B, n, P, F, t, f[t])
    BY Zenon DEF World, TasksOK
  <2> QED BY <1>1, <2>1, Zenon DEF TaskOK
<1>3. PairsOK(D, P, E, f)
  BY <1>1, Zenon DEF World, PairsOK
<1>4. World(D, B, n, P, U, E, f)
  BY <1>1, <1>2, <1>3, Zenon DEF World
<1> QED BY <1>4, Zenon DEF E

(* A new fd table disturbs nobody (seed_fd_table).                         *)
LEMMA FdsCome ==
    ASSUME NEW D, NEW B, NEW n, NEW P, NEW U, NEW F, NEW f,
           World(D, B, n, P, U, F, f), NEW E \in SUBSET Pid, F \subseteq E
    PROVE  World(D, B, n, P, U, E, f)
<1>2. TasksOK(D, B, n, P, E, f)
  <2> SUFFICES ASSUME NEW t \in Tid PROVE TaskOK(D, B, n, P, E, t, f[t])
    BY Zenon DEF TasksOK
  <2>1. TaskOK(D, B, n, P, F, t, f[t])
    BY Zenon DEF World, TasksOK
  <2> QED BY <2>1, Zenon DEF TaskOK
<1>3. PairsOK(D, P, E, f)
  BY Zenon DEF World, PairsOK
<1> QED BY <1>2, <1>3, Zenon DEF World

(* A signal is queued or taken: the world stays sound.                     *)
LEMMA PendingWorld ==
    ASSUME NEW D, NEW B, NEW n, NEW P, NEW U, NEW F, NEW f,
           World(D, B, n, P, U, F, f), NEW p \in DOMAIN P.table,
           NEW G \in SUBSET Sigs,
           NEW Q, Q = [P EXCEPT !.table[p].pending = G]
    PROVE  World(D, B, n, Q, U, F, f)
<1> DEFINE w == [P.table[p] EXCEPT !.pending = G]
           T == [P.table EXCEPT ![p] = w]
<1>1. TableType(n, P) /\ P.table[p] \in Process
  BY Zenon DEF World, TableType
<1>2. Edit(P.table[p], w) /\ w.state = P.table[p].state
  BY <1>1, EditPending, Zenon
<1>3. Q = [P EXCEPT !.table = T]
  BY Zenon
<1> HIDE DEF T
<1>4. Q = [table |-> T, by_tid |-> P.by_tid, next_pid |-> P.next_pid]
  BY <1>1, <1>3, PutTable, Zenon
<1>5. Q = [table |-> [P.table EXCEPT ![p] = w],
           by_tid |-> P.by_tid, next_pid |-> P.next_pid]
  BY <1>4, Zenon DEF T
<1> HIDE DEF w
<1> QED BY ONLY World(D, B, n, P, U, F, f), p \in DOMAIN P.table, <1>2, <1>5,
           SignalWorld, Zenon
=============================================================================
