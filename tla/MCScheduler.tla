---------------------------- MODULE MCScheduler ----------------------------
(***************************************************************************)
(* Instances of Scheduler and of Locks for TLC, side by side: a behaviour  *)
(* is one of the scheduler, whose functions are atomic under SCHED, or one *)
(* of the mutexes below it.  `side` says which; the other stays in its     *)
(* initial state.                                                          *)
(***************************************************************************)
EXTENDS Scheduler, Locks

MCpriority ==
    [t \in Tid |-> IF t \in IdleTids THEN 0 ELSE 10]

CONSTANT Pinned         \* the tids pinned to core 0, like "net"

MCaffinity ==
    [t \in Tid |-> IF t \in IdleTids THEN t
                   ELSE IF t \in Pinned THEN 0 ELSE AnyCore]

VARIABLE side

SideInit == Init /\ LockInit /\ side \in {"sched", "locks"}

SideNext ==
    \/ side = "sched" /\ Next /\ UNCHANGED <<lockVars, side>>
    \/ side = "locks" /\ LockNext /\ UNCHANGED <<vars, side>>

SideSpec == SideInit /\ [][SideNext]_<<vars, lockVars, side>>

(* The scheduler's fairness, on its side.                                  *)
SideFairSpec ==
    SideSpec /\ WF_<<vars, lockVars, side>>(side = "sched" /\ (Run(0) \/ TimerInterrupt) /\ UNCHANGED <<lockVars, side>>)
=============================================================================
