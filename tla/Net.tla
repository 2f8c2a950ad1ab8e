-------------------------------- MODULE Net --------------------------------
(***************************************************************************)
(* net_task's link management (drivers/wifi.rs) and the sockets of user    *)
(* programs (vfs/socket.rs, the socket calls of syscall/handler.rs).       *)
(* Programs' calls run with interrupts masked, so each is one step; the    *)
(* kernel shell's wifi command is not.  net_task takes its queues, then    *)
(* does everything else in one section under NET_SOCKETS, which masks      *)
(* interrupts as well.  The radio, DHCP and smoltcp's sockets are          *)
(* external: a SocketSet reuses the lowest free index, and panics on a     *)
(* handle that names no socket.                                            *)
(* A definition named after the one that follows it is a mutant, wrong on  *)
(* purpose; nothing uses it.                                               *)
(***************************************************************************)
EXTENDS Fd, Functions

CONSTANTS Procs, Ports,
          MAX_SOCKETS,         \* handles of the socket set that are explored
          MAX_OPS,             \* what one behaviour may do: a call counts 1, a command or a fault 2
          MAX_LINK             \* times the access point goes away or a lease is lost

ASSUME NetAssumption == MAX_SOCKETS \in Nat \ {0} /\ {MAX_OPS, MAX_LINK} \subseteq Nat

VARIABLES net,                 \* net_task: pc, drained commands, associated, have_ip, dhcp_reset_pending
          pub,                 \* STATUS, CURRENT_IP, SCAN_STATE, BLE's flags
          wq, nq,              \* WIFI_CMD_QUEUE, NET_CMD_QUEUE
          radio, dhcp, iface,  \* external: association, lease, address
          up, socks,           \* NET_SOCKETS: whether it is there, and its sockets
          inodes, tabs,        \* socket inodes, descriptor tables
          ops, bad, panic      \* budget spent, the network's share of it, what panicked
netVars == <<net, pub, wq, nq, radio, dhcp, iface, up, socks, inodes, tabs, ops, bad, panic>>
link == <<net, pub, wq, radio, dhcp, iface, up, bad>>

Handles == 1 .. MAX_SOCKETS
NoSock == [kind |-> "none"]
NoInode == [h |-> 0]
NewSock(k) == [kind |-> k, st |-> "closed", port |-> 0, rx |-> 0]

NetStart(pc0) ==
    /\ net = [pc |-> pc0, todo |-> <<>>, cmds |-> <<>>, tries |-> 0, fresh |-> FALSE, associated |-> FALSE, have_ip |-> FALSE, reset |-> FALSE]
    /\ pub = [status |-> "Down", ip |-> 0, scan |-> "idle", asking |-> FALSE, adv_req |-> FALSE, adv |-> FALSE]
    /\ wq = <<>> /\ nq = <<>> /\ up = FALSE
    /\ radio = [link |-> FALSE, pending |-> FALSE] /\ dhcp = [bound |-> FALSE, changed |-> FALSE] /\ iface = 0
    /\ socks = [h \in Handles |-> NoSock] /\ inodes = [i \in Handles |-> NoInode] /\ tabs = [p \in Procs |-> <<>>]
    /\ ops = 0 /\ bad = 0 /\ panic = "none"
NetInit == NetStart("boot")

---------------------------------------------------------------------------
\* Socket calls

Referenced(t) == (UNION {{t[p][i].ino : i \in DOMAIN t[p]} : p \in Procs}) \ {0}
\* SocketInode::drop, for every inode the tables no longer hold.
Dropped(t) == {inodes[i].h : i \in Referenced(tabs) \ Referenced(t)}
CloseSocket(t) ==
    /\ tabs' = t
    /\ inodes' = [i \in Handles |-> IF i \in Referenced(t) THEN inodes[i] ELSE NoInode]
    /\ IF \E h \in Dropped(t) : socks[h] = NoSock THEN panic' = "drop" /\ UNCHANGED socks
       ELSE socks' = [h \in Handles |-> IF h \in Dropped(t) THEN NoSock ELSE socks[h]] /\ UNCHANGED panic

NetCall == panic = "none" /\ ops < MAX_OPS /\ ops' = ops + 1
Ask == panic = "none" /\ ops + 1 < MAX_OPS /\ ops' = ops + 2
FreeHandles == {h \in Handles : socks[h] = NoSock}
NewInode == Min({i \in Handles : inodes[i] = NoInode})
Inode(p, fd) == inodes[tabs[p][fd + 1].ino]
Ino(p, fd) == tabs[p][fd + 1].ino

\* sys_socket; when the table is full the inode's drop removes the handle
\* and the error path removes it again.
SysSocket(p, k) ==
    /\ NetCall /\ up /\ FreeHandles # {}
    /\ LET r == Insert(tabs[p], [ino |-> NewInode])
       IN  IF r.ok THEN /\ tabs' = [tabs EXCEPT ![p] = r.tab]
                        /\ inodes' = [inodes EXCEPT ![NewInode] = [h |-> Min(FreeHandles), kind |-> k, port |-> 0, remote |-> 0]]
                        /\ socks' = [socks EXCEPT ![Min(FreeHandles)] = NewSock(k)] /\ UNCHANGED panic
           ELSE panic' = "removed_twice" /\ UNCHANGED <<tabs, socks, inodes>>
    /\ UNCHANGED link /\ UNCHANGED nq

\* bind records the port; a datagram socket is bound at once, once.
SysBind(p, fd, port) ==
    /\ NetCall /\ IsOpen(tabs[p], fd)
    /\ inodes' = [inodes EXCEPT ![Ino(p, fd)].port = port]
    /\ socks' = IF Inode(p, fd).kind = "udp" /\ socks[Inode(p, fd).h].port = 0
                THEN [socks EXCEPT ![Inode(p, fd).h].port = port] ELSE socks
    /\ UNCHANGED link /\ UNCHANGED <<nq, tabs, panic>>

\* listen: a stream socket with a port, that is closed or listens there.
CanListen(s, port) == s.st = "closed" \/ (s.st = "listen" /\ s.port = port)
SysListen(p, fd) ==
    /\ NetCall /\ IsOpen(tabs[p], fd) /\ Inode(p, fd).kind = "tcp" /\ Inode(p, fd).port # 0
    /\ socks' = IF CanListen(socks[Inode(p, fd).h], Inode(p, fd).port)
                THEN [socks EXCEPT ![Inode(p, fd).h].st = "listen", ![Inode(p, fd).h].port = Inode(p, fd).port] ELSE socks
    /\ UNCHANGED link /\ UNCHANGED <<nq, tabs, panic, inodes>>

SysAcceptUnbound(p, fd) ==
    /\ NetCall /\ IsOpen(tabs[p], fd) /\ Inode(p, fd).kind = "tcp" /\ Inode(p, fd).port # 0 /\ FreeHandles # {}
    /\ socks[Inode(p, fd).h].st = "est"
    /\ LET r == Insert(tabs[p], [ino |-> NewInode])
       IN  /\ r.ok /\ tabs' = [tabs EXCEPT ![p] = r.tab]
           /\ inodes' = [inodes EXCEPT ![Ino(p, fd)].h = Min(FreeHandles), ![NewInode] = Inode(p, fd)]
    /\ socks' = [socks EXCEPT ![Min(FreeHandles)] = NewSock("tcp")]
    /\ UNCHANGED link /\ UNCHANGED <<nq, panic>>
SysAcceptShared(p, fd) ==
    /\ NetCall /\ IsOpen(tabs[p], fd) /\ Inode(p, fd).kind = "tcp" /\ Inode(p, fd).port # 0
    /\ socks[Inode(p, fd).h].st = "est" /\ \E i \in Handles : inodes[i] = NoInode
    /\ LET r == Insert(tabs[p], [ino |-> NewInode])
       IN  r.ok /\ tabs' = [tabs EXCEPT ![p] = r.tab] /\ inodes' = [inodes EXCEPT ![NewInode] = Inode(p, fd)]
    /\ UNCHANGED link /\ UNCHANGED <<nq, panic, socks>>
\* accept: the established socket goes to a new inode, a new socket that
\* listens takes its place.  A full table drops the new inode.
SysAccept(p, fd) ==
    /\ NetCall /\ IsOpen(tabs[p], fd) /\ Inode(p, fd).kind = "tcp" /\ Inode(p, fd).port # 0 /\ FreeHandles # {}
    /\ socks[Inode(p, fd).h].st = "est"
    /\ LET r == Insert(tabs[p], [ino |-> NewInode])
           s == [socks EXCEPT ![Min(FreeHandles)] = [NewSock("tcp") EXCEPT !.st = "listen", !.port = Inode(p, fd).port]]
       IN  /\ tabs' = [tabs EXCEPT ![p] = r.tab]
           /\ inodes' = [i \in Handles |-> CASE i = Ino(p, fd) -> [inodes[i] EXCEPT !.h = Min(FreeHandles)]
                                              [] i = NewInode /\ r.ok -> [Inode(p, fd) EXCEPT !.remote = 0]
                                              [] OTHER -> inodes[i]]
           /\ socks' = IF r.ok THEN s ELSE [s EXCEPT ![Inode(p, fd).h] = NoSock]
    /\ UNCHANGED link /\ UNCHANGED <<nq, panic>>

\* connect: a datagram socket notes the peer; for a stream the command is
\* queued, whatever the answer.
SysConnect(p, fd) ==
    /\ NetCall /\ IsOpen(tabs[p], fd)
    /\ IF Inode(p, fd).kind = "tcp"
       THEN nq' = Append(nq, Inode(p, fd).h) /\ UNCHANGED inodes
       ELSE inodes' = [inodes EXCEPT ![Ino(p, fd)].remote = 1] /\ UNCHANGED nq
    /\ UNCHANGED link /\ UNCHANGED <<tabs, socks, panic>>

\* read_at: what was received; write_at leaves the socket as it is.
SysRead(p, fd) ==
    /\ NetCall /\ IsOpen(tabs[p], fd) /\ socks[Inode(p, fd).h].rx > 0
    /\ socks' = [socks EXCEPT ![Inode(p, fd).h].rx = @ - 1]
    /\ UNCHANGED link /\ UNCHANGED <<nq, tabs, inodes, panic>>

SysClose(p, fd) ==
    /\ NetCall /\ IsOpen(tabs[p], fd)
    /\ CloseSocket([tabs EXCEPT ![p] = RemoveFd(@, fd).tab])
    /\ UNCHANGED link /\ UNCHANGED nq
\* A child gets a copy of the table; a process that ends loses its own.
Spawn(p, q) ==
    /\ NetCall /\ tabs[p] # <<>> /\ tabs[q] = <<>> /\ tabs' = [tabs EXCEPT ![q] = tabs[p]]
    /\ UNCHANGED link /\ UNCHANGED <<nq, inodes, socks, panic>>
ExitProc(p) ==
    /\ NetCall /\ tabs[p] # <<>> /\ CloseSocket([tabs EXCEPT ![p] = <<>>])
    /\ UNCHANGED link /\ UNCHANGED nq

Fds == 0 .. MAX_OPEN_FILES - 1
SocketCall ==
    \E p \in Procs :
       \/ \E k \in {"tcp", "udp"} : SysSocket(p, k)
       \/ ExitProc(p)
       \/ \E q \in Procs \ {p} : Spawn(p, q)
       \/ \E fd \in Fds : SysListen(p, fd) \/ SysAccept(p, fd) \/ SysConnect(p, fd) \/ SysRead(p, fd) \/ SysClose(p, fd)
       \/ \E fd \in Fds, port \in Ports : SysBind(p, fd, port)

---------------------------------------------------------------------------
\* Commands for the link, from /dev/wlan0, /dev/ble0 and the kernel shell

sockets == <<nq, socks, inodes, tabs, panic>>
RequestConnect == Ask /\ wq' = Append(wq, "connect") /\ UNCHANGED <<net, pub, radio, dhcp, iface, up, bad>> /\ UNCHANGED sockets
RequestDisconnect == Ask /\ wq' = Append(wq, "disconnect") /\ UNCHANGED <<net, pub, radio, dhcp, iface, up, bad>> /\ UNCHANGED sockets
\* request_scan: the state first, then the queue.
RequestScan ==
    /\ Ask /\ ~pub.asking /\ pub' = [pub EXCEPT !.scan = "running", !.asking = TRUE]
    /\ UNCHANGED <<net, wq, radio, dhcp, iface, up, bad>> /\ UNCHANGED sockets
QueueScan ==
    /\ panic = "none" /\ pub.asking /\ pub' = [pub EXCEPT !.asking = FALSE] /\ wq' = Append(wq, "scan")
    /\ UNCHANGED <<net, radio, dhcp, iface, up, bad, ops>> /\ UNCHANGED sockets
RequestAdvertise ==
    /\ Ask /\ ~pub.adv_req /\ pub' = [pub EXCEPT !.adv_req = TRUE]
    /\ UNCHANGED <<net, wq, radio, dhcp, iface, up, bad>> /\ UNCHANGED sockets

---------------------------------------------------------------------------
\* net_task

NetAt(pc) == panic = "none" /\ net.pc = pc
Quiet == UNCHANGED <<socks, inodes, tabs, ops, bad>>

\* Up to the first connect(); every step of it may fail for good.
Boot ==
    /\ NetAt("boot")
    /\ \/ net' = [net EXCEPT !.pc = "failed"] /\ pub' = [pub EXCEPT !.status = "Failed"] /\ UNCHANGED radio
       \/ net' = [net EXCEPT !.pc = "wait"] /\ pub' = [pub EXCEPT !.status = "Connecting"] /\ radio' = [radio EXCEPT !.pending = TRUE]
    /\ UNCHANGED <<wq, nq, dhcp, iface, up, panic>> /\ Quiet

\* Both loops take the whole queue and go through it.
TakeCommands(pc, next) ==
    /\ NetAt(pc)
    /\ net' = [net EXCEPT !.pc = next, !.todo = wq, !.fresh = FALSE] /\ wq' = <<>>
    /\ UNCHANGED <<nq, pub, radio, dhcp, iface, up, panic>> /\ Quiet

\* process_wifi_cmd: whether the address has to be asked for again.
Processed(n, again) == [n EXCEPT !.todo = Tail(@), !.fresh = @ \/ again, !.have_ip = @ /\ ~again, !.tries = 0]
Next_command(pc) == NetAt(pc) /\ net.todo # <<>>
Linkless == [link |-> FALSE, pending |-> FALSE]
Joining == [link |-> FALSE, pending |-> TRUE]
DoConnect(pc) ==
    /\ Next_command(pc) /\ Head(net.todo) = "connect"
    /\ \/ net' = Processed(net, FALSE) /\ radio' \in {radio, Linkless} /\ UNCHANGED pub
       \/ net' = Processed(net, TRUE) /\ radio' = Joining /\ pub' = [pub EXCEPT !.ip = 0, !.status = "Connecting"]
    /\ UNCHANGED <<wq, nq, dhcp, iface, up, panic>> /\ Quiet
DoDisconnect(pc) ==
    /\ Next_command(pc) /\ Head(net.todo) = "disconnect"
    /\ net' = Processed(net, TRUE) /\ radio' = Linkless /\ pub' = [pub EXCEPT !.ip = 0, !.status = "Down"]
    /\ UNCHANGED <<wq, nq, dhcp, iface, up, panic>> /\ Quiet
\* A scan leaves the network first, tries three times, and goes back.
StartScan(pc) ==
    /\ Next_command(pc) /\ Head(net.todo) = "scan" /\ net.tries = 0
    /\ net' = [net EXCEPT !.tries = 1] /\ radio' = Linkless /\ pub' = [pub EXCEPT !.ip = 0]
    /\ UNCHANGED <<wq, nq, dhcp, iface, up, panic>> /\ Quiet
TryScan(pc) ==
    /\ Next_command(pc) /\ Head(net.todo) = "scan" /\ net.tries > 0
    /\ \/ net.tries < 3 /\ net' = [net EXCEPT !.tries = @ + 1] /\ UNCHANGED <<radio, pub>>
       \/ /\ net' = Processed(net, TRUE) /\ radio' = Joining
          /\ pub' \in {[pub EXCEPT !.scan = "done"]} \cup (IF net.tries = 3 THEN {[pub EXCEPT !.scan = "error"]} ELSE {})
    /\ UNCHANGED <<wq, nq, dhcp, iface, up, panic>> /\ Quiet
Command(pc) == DoConnect(pc) \/ DoDisconnect(pc) \/ StartScan(pc) \/ TryScan(pc)

AssociatedGivesUp(due) ==
    /\ NetAt("waiting") /\ net.todo = <<>>
    /\ IF radio.link
       THEN /\ net' = [net EXCEPT !.pc = "cmds", !.associated = TRUE, !.have_ip = FALSE, !.reset = FALSE]
            /\ up' = TRUE
       ELSE net' = [net EXCEPT !.pc = "wait"] /\ UNCHANGED up
    /\ UNCHANGED <<wq, nq, pub, radio, dhcp, iface, panic>> /\ Quiet
\* Waiting for the first association: the interface and its sockets are only
\* made once there is one; every 3 s it tries again.
Associated(due) ==
    /\ NetAt("waiting") /\ net.todo = <<>>
    /\ IF radio.link
       THEN /\ net' = [net EXCEPT !.pc = "cmds", !.associated = TRUE, !.have_ip = FALSE, !.reset = FALSE]
            /\ up' = TRUE /\ UNCHANGED radio
       ELSE net' = [net EXCEPT !.pc = "wait"] /\ radio' = (IF due THEN Joining ELSE radio) /\ UNCHANGED up
    /\ UNCHANGED <<wq, nq, pub, dhcp, iface, panic>> /\ Quiet

\* poll_advertise, then the sockets' commands.
TakeConnects ==
    /\ NetAt("doing") /\ net.todo = <<>>
    /\ pub' = [pub EXCEPT !.adv_req = FALSE, !.adv = @ \/ pub.adv_req]
    /\ net' = [net EXCEPT !.pc = "section", !.cmds = nq] /\ nq' = <<>>
    /\ UNCHANGED <<wq, radio, dhcp, iface, up, panic>> /\ Quiet

\* The section under NET_SOCKETS: the DHCP reset, the connects, the DHCP
\* event and the check of the link when it is due.
WasReset == net.fresh \/ net.reset
ConnectMissing == \E i \in DOMAIN net.cmds : socks[net.cmds[i]].kind # "tcp"
Connecting(s) ==
    [h \in Handles |-> IF h \in Range(net.cmds) /\ s[h].st = "closed" /\ iface # 0 /\ ~WasReset
                       THEN [s[h] EXCEPT !.st = "synsent"] ELSE s[h]]
AfterReset == IF WasReset THEN [bound |-> FALSE, changed |-> dhcp.changed \/ dhcp.bound] ELSE dhcp
Leased(d, n, b) ==
    CASE d.changed /\ d.bound -> [ifc |-> 1, net |-> [n EXCEPT !.have_ip = TRUE],
                                  pub |-> IF n.have_ip THEN b ELSE [b EXCEPT !.ip = 1, !.status = "Connected"]]
      [] d.changed /\ ~d.bound -> [ifc |-> 0, net |-> [n EXCEPT !.have_ip = FALSE],
                                   pub |-> [b EXCEPT !.ip = 0, !.status = IF @ = "Connected" THEN "Connecting" ELSE @]]
      [] OTHER -> [ifc |-> IF WasReset THEN 0 ELSE iface, net |-> n, pub |-> b]
LinkCheck(r) ==
    CASE radio.link /\ r.net.associated -> r
      [] radio.link /\ ~r.net.associated -> [r EXCEPT !.net.associated = TRUE, !.net.reset = TRUE]
      [] OTHER -> [r EXCEPT !.net.associated = FALSE, !.net.have_ip = @ /\ ~r.net.associated,
                            !.pub.ip = IF r.net.associated THEN 0 ELSE @, !.pub.status = "Connecting"]
Section(due) ==
    /\ NetAt("section")
    /\ IF ConnectMissing THEN panic' = "connect" /\ UNCHANGED <<net, pub, radio, dhcp, iface, socks>>
       ELSE /\ socks' = Connecting(socks)
            /\ dhcp' = [AfterReset EXCEPT !.changed = FALSE]
            /\ \E r \in {Leased(AfterReset, [net EXCEPT !.reset = FALSE, !.fresh = FALSE, !.cmds = <<>>, !.pc = "cmds"], pub)} :
               \E c \in {IF due THEN LinkCheck(r) ELSE r} : net' = c.net /\ pub' = c.pub /\ iface' = c.ifc
            /\ radio' = IF due /\ ~radio.link THEN Joining ELSE radio
            /\ UNCHANGED panic
    /\ UNCHANGED <<wq, nq, up, inodes, tabs, ops, bad>>

NetStep ==
    \/ Boot \/ TakeCommands("wait", "waiting") \/ TakeCommands("cmds", "doing") \/ TakeConnects
    \/ \E pc \in {"waiting", "doing"} : Command(pc)
    \/ \E due \in BOOLEAN : Associated(due) \/ Section(due)

---------------------------------------------------------------------------
\* External: the access point, the DHCP server, the peers

Joins ==
    /\ panic = "none" /\ radio.pending /\ radio' = [link |-> TRUE, pending |-> FALSE]
    /\ UNCHANGED <<net, pub, wq, nq, dhcp, iface, up, socks, inodes, tabs, ops, bad, panic>>
LinkLost ==
    /\ panic = "none" /\ radio.link /\ bad < MAX_LINK /\ Ask /\ radio' = [radio EXCEPT !.link = FALSE] /\ bad' = bad + 1
    /\ UNCHANGED <<net, pub, wq, nq, dhcp, iface, up, socks, inodes, tabs, panic>>
\* Leases and segments arrive when the interface is polled.
Polled == NetAt("cmds") /\ net.associated /\ radio.link
LeaseGiven ==
    /\ Polled /\ ~dhcp.bound /\ dhcp' = [bound |-> TRUE, changed |-> TRUE]
    /\ UNCHANGED <<net, pub, wq, nq, radio, iface, up, socks, inodes, tabs, ops, bad, panic>>
LeaseLost ==
    /\ Polled /\ dhcp.bound /\ bad < MAX_LINK /\ Ask /\ dhcp' = [bound |-> FALSE, changed |-> TRUE] /\ bad' = bad + 1
    /\ UNCHANGED <<net, pub, wq, nq, radio, iface, up, socks, inodes, tabs, panic>>
Arrives(h) ==
    /\ Polled /\ iface # 0 /\ socks[h].kind = "tcp"
    /\ socks' \in CASE socks[h].st = "listen" -> {[socks EXCEPT ![h].st = "est", ![h].rx = 1]}
                    [] socks[h].st = "synsent" -> {[socks EXCEPT ![h].st = t] : t \in {"est", "closed"}}
                    [] socks[h].st = "est" -> {[socks EXCEPT ![h].st = t] : t \in {"closewait", "closed"}}
                    [] OTHER -> {}
    /\ UNCHANGED <<net, pub, wq, nq, radio, dhcp, iface, up, inodes, tabs, ops, bad, panic>>
External == Joins \/ LinkLost \/ LeaseGiven \/ LeaseLost \/ \E h \in Handles : Arrives(h)

NetNext ==
    \/ NetStep \/ External \/ SocketCall \/ QueueScan
    \/ RequestConnect \/ RequestDisconnect \/ RequestScan \/ RequestAdvertise

\* net_task is scheduled for ever, its timers run out, the shell that asks for
\* a scan goes on, and the access point and the DHCP server answer in the end.
NetFairness ==
    /\ WF_netVars(NetStep) /\ WF_netVars(QueueScan)
    /\ SF_netVars(Section(TRUE)) /\ SF_netVars(Associated(TRUE))
    /\ WF_netVars(Joins) /\ SF_netVars(LeaseGiven)
NetSpec == NetInit /\ [][NetNext]_netVars /\ NetFairness

---------------------------------------------------------------------------
NetTypeOK ==
    /\ net.pc \in {"boot", "failed", "wait", "waiting", "cmds", "doing", "section"} /\ net.tries \in 0 .. 3
    /\ pub.status \in {"Down", "Connecting", "Connected", "Failed"} /\ pub.scan \in {"idle", "running", "done", "error"}
    /\ {pub.ip, iface} \subseteq {0, 1}
    /\ \A h \in Handles : socks[h].kind \in {"none", "tcp", "udp"}
    /\ \A p \in Procs : Len(tabs[p]) <= MAX_OPEN_FILES
    /\ panic \in {"none", "connect", "drop", "removed_twice"}

\* Every socket in the set belongs to exactly one inode that some table still
\* holds, and every such inode's handle names a socket of its kind: accept's
\* swap and the drops of copied descriptors neither leak one nor free it twice.
OneOwner ==
    panic = "none" =>
       /\ \A i \in Referenced(tabs) : socks[inodes[i].h].kind = inodes[i].kind
       /\ \A i, j \in Referenced(tabs) : inodes[i].h = inodes[j].h => i = j
       /\ \A h \in Handles : socks[h] # NoSock => \E i \in Referenced(tabs) : inodes[i].h = h

\* When net_task starts a round, the address `wifi` and `ip` show is there
\* exactly when the task believes it has one, and is the interface's.
AddressAgrees ==
    net.pc = "cmds" => /\ net.have_ip <=> pub.ip # 0
                       /\ pub.ip # 0 => iface = pub.ip

\* Sockets, descriptors and the address shown agree, whatever net_task and
\* the socket calls do in between (vfs/socket.rs, handle_net).
NetInv == NetTypeOK /\ OneOwner /\ AddressAgrees

\* An inode's handle changes only when accept hands the established socket to
\* a new descriptor (or frees it, when there is none left), and the listener
\* goes on listening on its port without a gap.
AcceptKeepsListening ==
    [][\A i \in Referenced(tabs) \cap Referenced(tabs') : inodes'[i].h # inodes[i].h =>
          /\ socks'[inodes'[i].h].st = "listen" /\ socks'[inodes'[i].h].port = inodes[i].port
          /\ IF \E j \in Referenced(tabs') \ Referenced(tabs) : inodes'[j].h = inodes[i].h
             THEN socks'[inodes[i].h] = socks[inodes[i].h] ELSE socks'[inodes[i].h] = NoSock]_netVars

Stopped == panic # "none" \/ net.pc = "failed"
\* A scan that was asked for ends in results or an error, whatever else is
\* asked meanwhile (unless net_task has given up).
ScanAnswered == pub.scan = "running" ~> (pub.scan \in {"done", "error"} \/ Stopped)

\* Once the network stops failing, the link comes back by itself after a lost
\* association, a lost lease, a scan or a disconnect, and the address is shown.
Recovers == <>[](pub.ip # 0 /\ pub.status = "Connected" /\ net.associated) \/ <>Stopped

\* What net_task was asked for, or lost, comes in the end: the answer to a
\* scan, and the link.
NetAnswers == ScanAnswered /\ Recovers
=============================================================================
