------------------------------ MODULE Signals ------------------------------
(***************************************************************************)
(* Signals, seen from one user process on one core: sys_sigaction,         *)
(* sys_kill, check_signals at the end of every trap and interrupt, the     *)
(* handler and its return through sys_sigreturn                            *)
(* (kernel/src/scheduler/process.rs, kernel/src/syscall/handler.rs,        *)
(* kernel/src/syscall/trap.rs).                                            *)
(*                                                                         *)
(* A frame is a saved PC and register A2.  The program is a loop over the  *)
(* addresses 0 .. LastPc, any of which may hold a syscall instruction; a   *)
(* handler is at Handler and returns to Restorer, which issues             *)
(* sigreturn.  While the process waits inside a syscall (a pipe that is    *)
(* empty or full yields from kernel code) its current frame is in Kernel   *)
(* text and the user frame of the trap lies below it.                      *)
(*                                                                         *)
(* A definition named after the one that follows it (CatchableAny before   *)
(* Catchable) is a mutant, wrong on purpose; nothing uses it.              *)
(***************************************************************************)
EXTENDS Naturals, FiniteSetsExt

CONSTANTS
    LastPc,     \* last address of the program
    Sigs        \* the signals in play

ASSUME SignalConstants == LastPc \in Nat /\ Sigs \subseteq 1 .. 31

VARIABLES
    frame,      \* the context of the process
    outer,      \* the user frame below a kernel one
    mode,       \* "running", "ready", "blocked" or "exited"
    data,       \* what the call in the kernel waits for has arrived
    pending,    \* pending_signals
    handlers,   \* the signals whose signal_handlers entry is not 0
    saved       \* saved_signal_context

sigVars == <<frame, outer, mode, data, pending, handlers, saved>>

Lethal == {2, 9, 15}
Program == 0 .. LastPc
Handler == LastPc + 1
Restorer == LastPc + 2
UserText == 0 .. Restorer
Kernel == LastPc + 3
Own == 0                \* a value of the program in A2
Result == 32            \* the result of a syscall in A2
NoFrame == [pc |-> LastPc + 4, a2 |-> Own]
-----------------------------------------------------------------------------
DeliverableAnywhere(f, pend) == pend # {}

(* The early returns of check_signals: a frame in kernel text, or nothing  *)
(* pending.                                                                *)
Deliverable(f, pend) == f.pc \in UserText /\ pend # {}

(* check_signals on frame f: the lowest pending signal is taken off the    *)
(* mask, and then kills, is ignored, is dropped while a handler runs, or   *)
(* enters its handler.                                                     *)
CheckSignals(f, pend, hand, sav) ==
    LET sig == Min(pend)
        Keep(p) == [frame |-> f, pending |-> p, saved |-> sav, exit |-> FALSE]
    IN IF ~Deliverable(f, pend) THEN Keep(pend)
       ELSE IF sig \notin hand
       THEN [Keep(pend \ {sig}) EXCEPT !.exit = sig \in Lethal]
       ELSE IF sav # NoFrame THEN Keep(pend \ {sig})
       ELSE [Keep(pend \ {sig}) EXCEPT !.frame = [pc |-> Handler, a2 |-> sig],
                                       !.saved = f]

(* The process goes on with frame f, its signals checked.                  *)
Continue(f, pend, hand, sav) ==
    LET c == CheckSignals(f, pend, hand, sav) IN
    /\ frame' = c.frame
    /\ pending' = c.pending
    /\ saved' = c.saved
    /\ mode' = IF c.exit THEN "exited" ELSE "running"

(* The end of a trap or interrupt: preempt_switch may hand the core to     *)
(* another task, on which check_signals then acts, or keep this one.       *)
EndTrap(f, pend, hand, sav) ==
    \/ Continue(f, pend, hand, sav)
    \/ /\ frame' = f
       /\ pending' = pend
       /\ saved' = sav
       /\ mode' = "ready"

(* What __exception does to the frame after the dispatch: A2 takes the     *)
(* result and PC steps over the syscall instruction.                       *)
Stepped(pc) == IF pc \in Program THEN (pc + 1) % (LastPc + 1) ELSE pc
Returned(f) == [pc |-> Stepped(f.pc), a2 |-> Result]

Executes == mode = "running" /\ frame.pc \in Program \cup {Handler}
-----------------------------------------------------------------------------
(* The program executes an instruction.                                    *)
Execute ==
    /\ Executes
    /\ frame' = [pc |-> Stepped(frame.pc), a2 |-> Own]
    /\ UNCHANGED <<outer, mode, data, pending, handlers, saved>>

(* The handler returns, to the restorer in A0.                             *)
HandlerReturns ==
    /\ mode = "running" /\ frame.pc = Handler
    /\ frame' = [frame EXCEPT !.pc = Restorer]
    /\ UNCHANGED <<outer, mode, data, pending, handlers, saved>>

TimerInterrupt ==
    /\ mode = "running" /\ frame.pc \in UserText
    /\ EndTrap(frame, pending, handlers, saved)
    /\ UNCHANGED <<outer, data, handlers>>

(* The process is switched to: preempt_switch loads its frame, and the     *)
(* trap that switched ends with check_signals on it.                       *)
SwitchTo ==
    /\ mode = "ready"
    /\ Continue(frame, pending, handlers, saved)
    /\ UNCHANGED <<outer, data, handlers>>

(* A syscall that neither waits nor touches the signals.                   *)
Syscall ==
    /\ Executes
    /\ EndTrap(Returned(frame), pending, handlers, saved)
    /\ UNCHANGED <<outer, data, handlers>>

Catchable(sig) == sig # 9

SysSigaction(sig) ==
    /\ Executes
    /\ Catchable(sig)
    /\ \E hand \in {handlers \cup {sig}, handlers \ {sig}} :
         /\ handlers' = hand
         /\ EndTrap(Returned(frame), pending, hand, saved)
    /\ UNCHANGED <<outer, data>>

(* sys_kill by another process, which can only run while this one does     *)
(* not, or by the process itself.                                          *)
SysKill(sig) ==
    \/ /\ mode \in {"ready", "blocked"}
       /\ pending' = pending \cup {sig}
       /\ mode' = "ready"
       /\ UNCHANGED <<frame, outer, data, handlers, saved>>
    \/ /\ Executes
       /\ EndTrap(Returned(frame), pending \cup {sig}, handlers, saved)
       /\ UNCHANGED <<outer, data, handlers>>

(* sys_wait with nothing to collect: the trap restarts, PC and A2 as they  *)
(* were, and the task is blocked.                                          *)
SysWaitBlocks ==
    /\ Executes
    /\ mode' = "blocked"
    /\ UNCHANGED <<frame, outer, data, pending, handlers, saved>>

(* A pipe end that has to wait: blocked, in the yield inside the syscall.  *)
SysPipeBlocks ==
    /\ Executes
    /\ outer' = frame
    /\ frame' = [pc |-> Kernel, a2 |-> Own]
    /\ mode' = "blocked"
    /\ data' = FALSE
    /\ UNCHANGED <<pending, handlers, saved>>

(* Someone wakes the process: a child exits, or the peer moves bytes.      *)
Wakes ==
    /\ mode = "blocked"
    /\ mode' = "ready"
    /\ data' = TRUE
    /\ UNCHANGED <<frame, outer, pending, handlers, saved>>

(* The loop around the yield: the call returns, or waits again.            *)
KernelResumes ==
    /\ mode = "running" /\ frame.pc = Kernel
    /\ \/ /\ data
          /\ EndTrap(Returned(outer), pending, handlers, saved)
          /\ outer' = NoFrame
       \/ /\ ~data
          /\ mode' = "blocked"
          /\ UNCHANGED <<frame, outer, pending, saved>>
    /\ UNCHANGED <<data, handlers>>

TakeContextLeft(sav) == sav

(* saved_signal_context.take()                                             *)
TakeContext(sav) == NoFrame

(* sys_sigreturn puts the saved frame in place, and the trap then ends     *)
(* like any other, on that frame.                                          *)
SysSigreturn ==
    /\ mode = "running" /\ frame.pc = Restorer
    /\ EndTrap(Returned(IF saved = NoFrame THEN frame ELSE saved),
               pending, handlers, TakeContext(saved))
    /\ UNCHANGED <<outer, data, handlers>>

SigInit ==
    /\ frame = [pc |-> 0, a2 |-> Own]
    /\ outer = NoFrame
    /\ mode = "ready"
    /\ data = FALSE
    /\ pending = {} /\ handlers = {}
    /\ saved = NoFrame

SigNext ==
    \/ Execute \/ HandlerReturns \/ TimerInterrupt \/ SwitchTo \/ Syscall
    \/ SysWaitBlocks \/ SysPipeBlocks \/ Wakes \/ KernelResumes
    \/ SysSigreturn
    \/ \E sig \in Sigs : SysSigaction(sig) \/ SysKill(sig)

SigSpec == SigInit /\ [][SigNext]_sigVars
-----------------------------------------------------------------------------
Frames == [pc : UserText \cup {Kernel}, a2 : {Own, Result} \cup Sigs]

(* Type invariant.                                                         *)
SigTypeOK ==
    /\ frame \in Frames
    /\ outer \in Frames \cup {NoFrame}
    /\ saved \in Frames \cup {NoFrame}
    /\ mode \in {"running", "ready", "blocked", "exited"}
    /\ data \in BOOLEAN
    /\ pending \subseteq Sigs
    /\ handlers \subseteq Sigs \ {9}

(* check_signals leaves a frame in kernel text alone, so a call that waits *)
(* in the kernel comes back there, with its user frame untouched below:    *)
(* "protecting kernel routines from corruption" (README.md:173).           *)
KernelFrameKept ==
    /\ outer # NoFrame <=> frame.pc = Kernel
    /\ saved.pc # Kernel

(* The single saved_signal_context is in use exactly while a handler runs, *)
(* and it is a frame of the interrupted program: neither a second signal   *)
(* nor one delivered by sigreturn's own trap overwrites it.                *)
SavedWhileHandling ==
    LET user == IF outer = NoFrame THEN frame ELSE outer IN
    /\ saved # NoFrame <=> user.pc \in {Handler, Restorer}
    /\ saved.pc \in Program \cup {NoFrame.pc}

(* sigreturn resumes the program where it was interrupted, with the        *)
(* registers it had (sys_sigreturn and the end of __exception).            *)
ResumesWhereInterrupted ==
    [][frame.pc = Restorer /\ frame'.pc \in Program
          => frame' = saved]_sigVars
=============================================================================
