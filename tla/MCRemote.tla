------------------------------ MODULE MCRemote -----------------------------
(* A user at the console or at the far end of an SSH connection: the       *)
(* server with its sessions, and the shells that read what is typed.  A    *)
(* behaviour is one of either; a session's shell stands for both in Ssh.   *)
EXTENDS Ssh, MCShell

MCShellText == <<"a", LF>>

VARIABLE side
NoShell == [kind |-> "edit", input |-> <<>>]
RemoteInit ==
    /\ side \in {"ssh", "shell"} /\ Init /\ ShellInit
    /\ side = "ssh" => job = NoShell
RemoteNext ==
    /\ \/ side = "ssh" /\ Next /\ UNCHANGED shellVars
       \/ side = "shell" /\ ShellNext /\ UNCHANGED vars
    /\ UNCHANGED side
\* The fairness of Ssh, on its side.
RemoteFairness ==
    /\ WF_vars(side = "ssh" /\ NetStep) /\ SF_vars(side = "ssh" /\ TimedOut) /\ WF_vars(side = "ssh" /\ DeadlinePasses)
    /\ \A i \in 1 .. 2 * (MAX_CONNS - 1) :
          SF_vars(side = "ssh" /\ SharedNext /\ i \in DOMAIN shells /\ (ShellWrite(i) \/ ShellRead(i)))
RemoteSpec == RemoteInit /\ [][RemoteNext]_<<vars, shellVars, side>> /\ RemoteFairness
=============================================================================
