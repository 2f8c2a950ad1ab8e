------------------------------- MODULE MCIpc -------------------------------
(* The calls a process makes to the kernel: on files, on pipes, and for    *)
(* signals.  A behaviour is of one of the three.                           *)
EXTENDS Pipe, Signals, Vfs

Flag(rd, wr, cr, ap, tr) == [rd |-> rd, wr |-> wr, create |-> cr, append |-> ap, trunc |-> tr]
SomeFlags == {Flag(TRUE, FALSE, FALSE, FALSE, FALSE), Flag(FALSE, TRUE, TRUE, FALSE, TRUE),
              Flag(FALSE, TRUE, TRUE, TRUE, FALSE)}
SomePaths == {<<"", "a">>, <<"b">>, <<"", "m", "a">>, <<".", "..", "a">>, <<"", "a", "b">>, <<"long">>}

VARIABLE side
IpcInit ==
    /\ side \in {"pipe", "signals", "files"} /\ Init /\ SigInit /\ VfsInit
    /\ side # "pipe" => ~smp
IpcNext ==
    /\ \/ side = "pipe" /\ Next /\ UNCHANGED <<sigVars, vfsVars>>
       \/ side = "signals" /\ SigNext /\ UNCHANGED <<vars, vfsVars>>
       \/ side = "files" /\ VfsNext /\ UNCHANGED <<vars, sigVars>>
    /\ UNCHANGED side
\* The fairness of Pipe's FairSpec, on its side.
IpcFairness == \A t \in Task : WF_vars(side = "pipe" /\ CallStep(t))
IpcSpec == IpcInit /\ [][IpcNext]_<<vars, sigVars, vfsVars, side>> /\ IpcFairness
=============================================================================
