-------------------------------- MODULE Ssh --------------------------------
(***************************************************************************)
(* The SSH server: the part of net_task that owns the listening socket     *)
(* (drivers/wifi.rs), the connection it pumps (drivers/ssh/mod.rs), its    *)
(* channel (drivers/ssh/channel.rs), the session behind it (session.rs)    *)
(* and the shell task, with a client that follows the protocol and may     *)
(* drop the connection at any moment.  A packet is a record with the       *)
(* sequence number it was sealed with and whether it was encrypted at all. *)
(* The shell runs between any two steps of the net task; the network moves *)
(* bytes and socket states only when the task polls it, at the top of its  *)
(* loop.  The socket is smoltcp's: "syn" is a connection being made,       *)
(* "closewait" one whose client has finished, "finwait" one the server     *)
(* closed, "lastack" one both did.                                         *)
(* A definition named after the one that follows it is a mutant, wrong on  *)
(* purpose; nothing uses it.                                               *)
(***************************************************************************)
EXTENDS Session, FiniteSets

CONSTANTS MAX_AUTH_ATTEMPTS,
          INITIAL_WINDOW,      \* bytes the client may send before an adjustment
          PEER_WINDOW,         \* bytes the client lets the server send
          PACKET,              \* bytes of one data packet (peer_max_packet - 64)
          SHELL_TEXT,          \* what the shell writes before it is done
          SEQ,                 \* values of a sequence number, 2^32
          TX_SIZE,             \* packets the socket holds for the client
          MAX_INPUT,           \* bytes the client types
          MAX_CONNS,           \* connections the client makes; the last stops at its greeting
          MAX_EXTRAS           \* packets it adds to the usual order in each

ASSUME SshAssumption == {MAX_AUTH_ATTEMPTS, INITIAL_WINDOW, PEER_WINDOW, PACKET, SEQ, TX_SIZE} \subseteq Nat \ {0}

VARIABLES tcp, wire, back,     \* the connection and what is under way in it
          cl,                  \* the client
          conn, active, pc,    \* Connection, ssh_active, where net_task is
          chans, shells        \* per session: its channel, its shell task
vars == <<tcp, wire, back, cl, conn, active, pc, chans, shells>>

NoChannel == [sess |-> 0, send |-> 0, recv |-> 0, started |-> FALSE]
NewConnection ==
    [state |-> "VersionExchange", started |-> FALSE, rx |-> <<>>, tx |-> <<>>, send_seq |-> 0, recv_seq |-> 0,
     out_enc |-> FALSE, in_enc |-> FALSE, awaiting |-> FALSE, keyed |-> FALSE, authed |-> FALSE, fails |-> 0,
     has |-> FALSE, ch |-> NoChannel, closing |-> FALSE, due |-> FALSE]
NewClient(n) ==
    [phase |-> "off", enc |-> FALSE, dec |-> FALSE, sseq |-> 0, rseq |-> 0, win |-> 0, used |-> 0, typed |-> 0,
     got |-> <<>>, conns |-> n, extra |-> 0, asked |-> <<>>]

Init ==
    /\ tcp = "listen" /\ wire = <<>> /\ back = <<>> /\ cl = NewClient(0)
    /\ conn = [NewConnection EXCEPT !.state = "Closed"] /\ active = FALSE /\ pc = "sock"
    /\ chans = <<>> /\ shells = <<>>

---------------------------------------------------------------------------
\* Connection: sending

Packet(c, m, arg) == [m |-> m, arg |-> arg, seq |-> c.send_seq, enc |-> c.out_enc]
Send(c, m, arg) == [c EXCEPT !.tx = Append(@, Packet(c, m, arg)), !.send_seq = (@ + 1) % SEQ]

\* close_shell and destroy: the session leaves the table and is closed.
CloseShell(c) == IF c.ch.sess = 0 THEN chans ELSE [chans EXCEPT ![c.ch.sess] = CloseChannel(@)]

\* A step of the connection: the new connection and the new sessions.
Done(c) == conn' = c /\ UNCHANGED <<chans, shells>>
Disconnect(c) ==
    /\ conn' = [Send(c, "disconnect", 0) EXCEPT !.state = "Closed"]
    /\ chans' = CloseShell(c) /\ UNCHANGED shells

---------------------------------------------------------------------------
\* Connection: the handlers, one packet p each

OnKexInit(c, p) ==
    CASE p.m = "kexinit" /\ p.arg = "common" -> Done([c EXCEPT !.state = "Kex"])
      [] OTHER -> Disconnect(c)

OnKexEarly(c, p) ==
    CASE p.m = "newkeys" /\ c.awaiting -> Done([c EXCEPT !.in_enc = TRUE, !.awaiting = FALSE, !.state = "Encrypted"])
      [] p.m = "ecdh" -> Done(Send([Send(c, "reply", 0) EXCEPT !.out_enc = TRUE, !.awaiting = TRUE, !.keyed = TRUE], "newkeys", 0))
      [] OTHER -> Disconnect(c)
\* After the reply and NEWKEYS, which still go out in the clear, everything
\* sent is encrypted; what is received only after the client's NEWKEYS.
OnKex(c, p) ==
    CASE p.m = "newkeys" /\ c.awaiting -> Done([c EXCEPT !.in_enc = TRUE, !.awaiting = FALSE, !.state = "Encrypted"])
      [] p.m = "ecdh" -> Done([Send(Send(c, "reply", 0), "newkeys", 0) EXCEPT !.out_enc = TRUE, !.awaiting = TRUE, !.keyed = TRUE])
      [] OTHER -> Disconnect(c)

OnService(c, p) ==
    IF p.m = "service" /\ p.arg = "userauth" THEN Done([Send(c, "accept", 0) EXCEPT !.state = "UserAuth"]) ELSE Disconnect(c)

\* fail_auth
FailAuth(c) == IF c.fails >= MAX_AUTH_ATTEMPTS THEN Disconnect(c) ELSE Done(c)
OnUserAuth(c, p) ==
    CASE p.m # "auth" -> Done(c)
      [] p.m = "auth" /\ p.arg = "good" -> Done([Send(c, "success", 0) EXCEPT !.authed = TRUE, !.state = "Session"])
      [] p.m = "auth" /\ p.arg = "probe" -> Done(Send(c, "pkok", 0))
      [] OTHER -> FailAuth([Send(c, "failure", 0) EXCEPT !.fails = @ + 1])

OnChannelOpen(c, p) ==
    IF p.arg # "session" \/ c.has THEN Done(Send(c, "openfail", 0))
    ELSE Done(Send([c EXCEPT !.has = TRUE, !.ch = [NoChannel EXCEPT !.send = PEER_WINDOW, !.recv = INITIAL_WINDOW]], "confirm", 0))

\* SessionShell::start: the session, then the task.  A shell that is already
\* there is dropped, which closes its session.
Started(c, input) ==
    /\ chans' = Append(CloseShell(c), PushInput(NewChannel, input))
    /\ shells' = Append(shells, [state |-> "run", done |-> 0, got |-> <<>>])
    /\ conn' = Send([c EXCEPT !.ch.sess = Len(chans) + 1, !.ch.started = TRUE], "chansuccess", 0)
OnChannelRequest(c, p) ==
    CASE ~c.has -> Done(c)
      [] c.has /\ p.arg = "pty" -> Done(Send(c, "chansuccess", 0))
      [] c.has /\ p.arg = "shell" -> Started(c, <<>>) \/ Done(Send(c, "chanfail", 0))
      [] c.has /\ p.arg = "exec" -> Started(c, <<"cmd", "exit">>) \/ Done(Send(c, "chanfail", 0))
      [] OTHER -> Done(Send(c, "chanfail", 0))

\* on_data: what does not fit the ring is gone; the window is refilled when
\* it is below half.
Refilled(c) ==
    IF c.ch.recv < INITIAL_WINDOW \div 2
    THEN Send([c EXCEPT !.ch.recv = INITIAL_WINDOW], "adjust", INITIAL_WINDOW - c.ch.recv) ELSE c
OnData(c, p) ==
    IF ~c.has THEN Done(c)
    ELSE /\ conn' = Refilled([c EXCEPT !.ch.recv = IF @ > 0 THEN @ - 1 ELSE 0])
         /\ chans' = IF c.ch.sess = 0 THEN chans ELSE [chans EXCEPT ![c.ch.sess] = PushInput(@, <<p.arg>>)]
         /\ UNCHANGED shells

OnSession(c, p) ==
    CASE p.m = "open" -> OnChannelOpen(c, p)
      [] p.m = "request" -> OnChannelRequest(c, p)
      [] p.m = "data" -> OnData(c, p)
      [] p.m = "adjust" -> Done(IF c.has THEN [c EXCEPT !.ch.send = @ + p.arg] ELSE c)
      [] p.m = "close" -> /\ conn' = [IF c.has /\ ~c.closing THEN Send(c, "close", 0) ELSE c EXCEPT !.state = "Closed"]
                          /\ chans' = CloseShell(c) /\ UNCHANGED shells
      [] OTHER -> Done(c)

HandlePacket(c, p) ==
    CASE p.m = "disconnect" -> Done([c EXCEPT !.state = "Closed"])
      [] p.m = "ignore" -> Done(c)
      [] p.m = "global" -> Done(Send(c, "reqfail", 0))
      [] p.m \notin {"disconnect", "ignore", "global"} ->
            CASE c.state = "KexInit" -> OnKexInit(c, p)
              [] c.state = "Kex" -> OnKex(c, p)
              [] c.state = "Encrypted" -> OnService(c, p)
              [] c.state = "UserAuth" -> OnUserAuth(c, p)
              [] c.state = "Session" -> OnSession(c, p)
              [] OTHER -> Done(c)

---------------------------------------------------------------------------
\* net_task and Connection::pump

Is_open == tcp # "closed"
Is_active == tcp \in {"syn", "est", "closewait", "finwait", "lastack"}
May_send == tcp \in {"est", "closewait"}
May_recv == tcp \in {"est", "finwait"} \/ wire # <<>>
SockClose == tcp' = CASE tcp \in {"syn", "est"} -> "finwait" [] tcp = "closewait" -> "lastack" [] tcp = "listen" -> "closed" [] OTHER -> tcp

ShutdownForgets == conn' = [conn EXCEPT !.state = "Closed", !.has = FALSE, !.ch = NoChannel] /\ chans' = chans
\* shutdown
Shutdown == conn' = [conn EXCEPT !.state = "Closed", !.has = FALSE, !.ch = NoChannel] /\ chans' = CloseShell(conn)

ReapedNever == shells
\* reap_orphans, then what happened to the socket.
Reaped == [i \in DOMAIN shells |-> IF shells[i].state = "zombie" THEN [shells[i] EXCEPT !.state = "gone"] ELSE shells[i]]
Sock ==
    /\ pc = "sock"
    /\ shells' = Reaped
    /\ CASE ~Is_open ->
              /\ tcp' = "listen" /\ active' = FALSE /\ pc' = "sock"
              /\ IF active THEN Shutdown ELSE UNCHANGED <<conn, chans>>
         [] Is_open /\ active /\ (~Is_active \/ (May_send /\ ~May_recv)) ->
              /\ SockClose /\ Shutdown /\ active' = FALSE /\ pc' = "again"
         [] Is_open /\ Is_active /\ ~active ->
              /\ conn' = NewConnection /\ active' = TRUE /\ pc' = "pump" /\ UNCHANGED <<tcp, chans>>
         [] Is_open /\ Is_active /\ active /\ ~(May_send /\ ~May_recv) -> pc' = "pump" /\ UNCHANGED <<tcp, conn, chans, active>>
         [] OTHER -> UNCHANGED <<tcp, conn, chans, active, pc>>
    /\ UNCHANGED <<wire, back, cl>>
\* The same turn: a socket that is still active gets a new connection.
Again ==
    /\ pc = "again"
    /\ IF Is_active THEN conn' = NewConnection /\ active' = TRUE /\ pc' = "pump" ELSE pc' = "sock" /\ UNCHANGED <<conn, active>>
    /\ UNCHANGED <<tcp, wire, back, cl, chans, shells>>

\* The two timeouts disconnect and return without a flush.
TimedOut ==
    /\ pc = "pump" /\ (~conn.authed \/ conn.state = "Session")
    /\ Disconnect(conn) /\ pc' = "ended"
    /\ UNCHANGED <<tcp, wire, back, cl, active>>

\* The greeting, then everything received.
Pump ==
    /\ pc = "pump"
    /\ LET c == IF conn.started THEN conn ELSE Send([conn EXCEPT !.started = TRUE], "kexinit", 0)
       IN  conn' = [c EXCEPT !.rx = @ \o wire]
    /\ wire' = <<>> /\ pc' = "packets"
    /\ UNCHANGED <<tcp, back, cl, active, chans, shells>>

\* try_take_version_line: other lines are skipped, one that does not end is
\* an error.
Version ==
    /\ pc = "packets" /\ conn.state = "VersionExchange"
    /\ CASE conn.rx = <<>> -> pc' = "flush" /\ UNCHANGED conn
         [] conn.rx # <<>> /\ Head(conn.rx).m = "endless" -> pc' = "failed" /\ UNCHANGED conn
         [] conn.rx # <<>> /\ Head(conn.rx).m # "endless" ->
               /\ conn' = [conn EXCEPT !.rx = Tail(@), !.state = IF Head(conn.rx).m = "version" THEN "KexInit" ELSE @]
               /\ UNCHANGED pc
    /\ UNCHANGED <<tcp, wire, back, cl, active, chans, shells>>

\* next_packet: opened with the keys and the number that are due.
Opens(c, p) == p.enc = c.in_enc /\ p.seq = c.recv_seq
Packets ==
    /\ pc = "packets" /\ conn.state # "VersionExchange"
    /\ CASE conn.state = "Closed" -> pc' = "flush" /\ UNCHANGED <<conn, chans, shells>>
         [] conn.state # "Closed" /\ conn.rx = <<>> ->
               pc' = (IF conn.state = "Session" THEN "output" ELSE "flush") /\ UNCHANGED <<conn, chans, shells>>
         [] conn.state # "Closed" /\ conn.rx # <<>> ->
               IF Opens(conn, Head(conn.rx))
               THEN HandlePacket([conn EXCEPT !.rx = Tail(@), !.recv_seq = (@ + 1) % SEQ], Head(conn.rx)) /\ pc' = pc
               ELSE pc' = "failed" /\ UNCHANGED <<conn, chans, shells>>
    /\ UNCHANGED <<tcp, wire, back, cl, active>>

\* pump_shell_output, one packet of it.
Room(c) == IF c.ch.send < PACKET THEN c.ch.send ELSE PACKET
PumpOutputFree ==
    /\ pc = "output"
    /\ IF conn.has /\ conn.ch.sess # 0 /\ conn.ch.send > 0 /\ chans[conn.ch.sess].from # <<>>
       THEN /\ conn' = Send(conn, "data", Output(chans[conn.ch.sess], Room(conn)))
            /\ chans' = [chans EXCEPT ![conn.ch.sess] = TakeOutput(@, Room(conn))]
            /\ pc' = pc
       ELSE pc' = "exited" /\ UNCHANGED <<conn, chans>>
    /\ UNCHANGED <<tcp, wire, back, cl, active, shells>>
PumpOutput ==
    /\ pc = "output"
    /\ IF conn.has /\ conn.ch.sess # 0 /\ conn.ch.send > 0 /\ chans[conn.ch.sess].from # <<>>
       THEN LET data == Output(chans[conn.ch.sess], Room(conn))
            IN  /\ conn' = Send([conn EXCEPT !.ch.send = @ - Len(data)], "data", data)
                /\ chans' = [chans EXCEPT ![conn.ch.sess] = TakeOutput(@, Room(conn))]
                /\ pc' = pc
       ELSE pc' = "exited" /\ UNCHANGED <<conn, chans>>
    /\ UNCHANGED <<tcp, wire, back, cl, active, shells>>

\* The shell is gone, and then: nothing of it is left to send.
ShellExited == conn.ch.sess # 0 /\ shells[conn.ch.sess].state # "run"
HasOutput == conn.ch.sess # 0 /\ chans[conn.ch.sess].from # <<>>
CheckExited ==
    /\ pc = "exited"
    /\ pc' = IF ~conn.closing /\ ShellExited THEN "drained" ELSE "flush"
    /\ UNCHANGED <<tcp, wire, back, cl, conn, active, chans, shells>>
CheckDrained ==
    /\ pc = "drained"
    /\ conn' = IF HasOutput THEN conn ELSE [Send(Send(conn, "eof", 0), "close", 0) EXCEPT !.closing = TRUE]
    /\ pc' = "flush"
    /\ UNCHANGED <<tcp, wire, back, cl, active, chans, shells>>
\* 1500 ms after closing.
DeadlinePasses ==
    /\ conn.closing /\ ~conn.due
    /\ conn' = [conn EXCEPT !.due = TRUE]
    /\ UNCHANGED <<tcp, wire, back, cl, active, pc, chans, shells>>

\* The closing deadline, then flush: as much as the socket takes.
Deadline(c) == IF c.state = "Session" /\ c.closing /\ c.due THEN [c EXCEPT !.state = "Closed"] ELSE c
Fits == IF ~May_send THEN 0 ELSE IF Len(conn.tx) < TX_SIZE - Len(back) THEN Len(conn.tx) ELSE TX_SIZE - Len(back)
Flush ==
    /\ pc = "flush" /\ pc' = "ended"
    /\ back' = back \o SubSeq(conn.tx, 1, Fits)
    /\ conn' = [Deadline(conn) EXCEPT !.tx = SubSeq(@, Fits + 1, Len(@))]
    /\ UNCHANGED <<tcp, wire, cl, active, chans, shells>>

\* Back in net_task: a connection that is closed, or failed, ends.
Ended ==
    /\ pc \in {"ended", "failed"}
    /\ IF pc = "failed" \/ conn.state = "Closed"
       THEN Shutdown /\ SockClose /\ active' = FALSE ELSE UNCHANGED <<conn, chans, tcp, active>>
    /\ pc' = "sock"
    /\ UNCHANGED <<wire, back, cl, shells>>

NetStep ==
    \/ Sock \/ Again \/ Pump \/ Version \/ Packets \/ PumpOutput \/ CheckExited \/ CheckDrained \/ Flush \/ Ended

---------------------------------------------------------------------------
\* The shell task: it writes its text, retrying while the ring is full, and
\* reads until "exit" or the end of the session.

Left(i) == SubSeq(SHELL_TEXT, shells[i].done + 1, Len(SHELL_TEXT))
ShellWrite(i) ==
    /\ shells[i].state = "run" /\ Left(i) # <<>>
    /\ LET w == WriteRing(chans[i], Left(i))
       IN  CASE WriteAnswer(chans[i], Left(i), w) = "Ok" ->
                  chans' = [chans EXCEPT ![i].from = w.from] /\ shells' = [shells EXCEPT ![i].done = @ + w.taken]
             [] WriteAnswer(chans[i], Left(i), w) = "WouldBlock" -> UNCHANGED <<chans, shells>>
             [] OTHER -> shells' = [shells EXCEPT ![i].done = Len(SHELL_TEXT)] /\ UNCHANGED chans
    /\ UNCHANGED <<tcp, wire, back, cl, conn, active, pc>>
ShellRead(i) ==
    /\ shells[i].state = "run" /\ Left(i) = <<>>
    /\ CASE ReadAnswer(chans[i]) = "End" -> shells' = [shells EXCEPT ![i].state = "zombie"] /\ UNCHANGED chans
         [] ReadAnswer(chans[i]) = "WouldBlock" -> UNCHANGED <<chans, shells>>
         [] OTHER ->
               /\ shells' = [shells EXCEPT ![i].got = Append(@, Head(chans[i].to)),
                                           ![i].state = IF Head(chans[i].to) = "exit" THEN "zombie" ELSE @]
               /\ chans' = [chans EXCEPT ![i].to = Tail(@)]
    /\ UNCHANGED <<tcp, wire, back, cl, conn, active, pc>>
\* Its steps are between those of net_task that see its session.
SharedNext == pc \in {"sock", "packets", "output", "exited", "drained", "ended"}
ShellStep == SharedNext /\ \E i \in DOMAIN shells : ShellWrite(i) \/ ShellRead(i)

---------------------------------------------------------------------------
\* The client and the network, seen when net_task polls

Net == UNCHANGED <<conn, active, pc, chans, shells>>
Connected == cl.phase \notin {"off", "dead"}

Connect ==
    /\ pc = "sock" /\ tcp = "listen" /\ cl.phase = "off" /\ cl.conns < MAX_CONNS
    /\ tcp' = "syn" /\ wire' = <<>> /\ back' = <<>>
    /\ cl' = [NewClient(cl.conns + 1) EXCEPT !.phase = "hello"]
    /\ Net
Establish ==
    /\ pc = "sock" /\ tcp = "syn" /\ Connected
    /\ tcp' = "est" /\ UNCHANGED <<wire, back, cl>> /\ Net
\* A reset, or the end of an orderly close, loses what was under way.
Gone(t) == tcp' = t /\ wire' = <<>> /\ back' = <<>> /\ cl' = NewClient(cl.conns) /\ Net
Reset == pc = "sock" /\ Connected /\ Gone(IF tcp = "syn" THEN "listen" ELSE "closed")
\* The client's side closes: it reads no more, the server may still read.
Leave ==
    /\ pc = "sock" /\ Connected /\ (cl.phase = "leave" \/ tcp = "finwait")
    /\ \/ tcp = "est" /\ tcp' = "closewait" /\ back' = <<>> /\ cl' = NewClient(cl.conns) /\ UNCHANGED wire /\ Net
       \/ tcp = "finwait" /\ Gone("closed")
LastAck == pc = "sock" /\ tcp = "lastack" /\ Gone("closed")
\* It loses its power or its network, and nothing more is heard of it.
Vanish == pc = "sock" /\ Connected /\ cl' = [cl EXCEPT !.phase = "dead"] /\ UNCHANGED <<tcp, wire, back>> /\ Net

\* It sends a packet and goes on in phase p.
Says(m, arg, c) ==
    /\ wire' = Append(wire, [m |-> m, arg |-> arg, seq |-> cl.sseq, enc |-> cl.enc])
    /\ cl' = [c EXCEPT !.sseq = (@ + 1) % SEQ]
SaysLine(m, p) == wire' = Append(wire, [m |-> m]) /\ cl' = p
Phase(p) == [cl EXCEPT !.phase = p]
Extra == [cl EXCEPT !.extra = @ + 1]
ClientSends ==
    /\ pc = "sock" /\ tcp \in {"est", "finwait"} /\ Connected
    /\ CASE cl.phase = "hello" ->
               \/ SaysLine("version", Phase("init"))
               \/ cl.extra < MAX_EXTRAS /\ \E l \in {"line", "endless"} : SaysLine(l, Extra)
         [] cl.phase = "init" -> cl.conns < MAX_CONNS /\ \E a \in {"common", "none"} : Says("kexinit", a, Phase("kexinit?"))
         [] cl.phase = "ecdh" -> Says("ecdh", 0, Phase("reply?"))
         [] cl.phase = "newkeys" -> Says("newkeys", 0, [Phase("service") EXCEPT !.enc = TRUE])
         [] cl.phase = "service" -> \E a \in {"userauth", "other"} : Says("service", a, Phase("accept?"))
         [] cl.phase = "auth" -> 
               \/ Says("auth", "good", Phase("auth?"))
               \/ Says("auth", "bad", [Phase("auth?") EXCEPT !.extra = MAX_EXTRAS])
               \/ cl.extra < MAX_EXTRAS /\ Says("auth", "probe", [Extra EXCEPT !.phase = "auth?"])
         [] cl.phase = "open" -> \E a \in {"session", "x11"} : Says("open", a, Phase("confirm?"))
         [] cl.phase = "request" -> 
               \/ \E a \in {"shell", "exec"} : Says("request", a, [Phase("req?") EXCEPT !.asked = Append(@, a)])
               \/ /\ cl.extra < MAX_EXTRAS
                  /\ \E a \in {"pty", "env"} : Says("request", a, [Extra EXCEPT !.phase = "other?"])
         [] cl.phase = "talk" ->
               \/ /\ cl.win > 0 /\ cl.typed < MAX_INPUT
                  /\ Says("data", IF cl.typed = MAX_INPUT - 1 THEN "exit" ELSE "key", [cl EXCEPT !.win = @ - 1, !.typed = @ + 1])
               \/ cl.used = PEER_WINDOW /\ Says("adjust", cl.used, [cl EXCEPT !.used = 0])
               \/ Says("close", 0, Phase("close?"))
               \/ /\ cl.extra < MAX_EXTRAS /\ cl.typed = 0
                  /\ \/ \E m \in {"ignore", "global", "eof", "open", "other"} : Says(m, "session", Extra)
                     \/ Says("request", "shell", [Phase("close?") EXCEPT !.asked = Append(@, "shell")])
                     \/ Says("disconnect", 0, Phase("leave"))
         [] OTHER -> FALSE
    /\ UNCHANGED <<tcp, back>> /\ Net

\* It takes the next packet when it waits for one.
Expects == [kexinit |-> "ecdh", accept |-> "auth", failure |-> "auth", pkok |-> "auth", success |-> "open",
            reply |-> "newkeys?", openfail |-> "leave", chanfail |-> "leave", disconnect |-> "leave", close |-> "leave"]
Received(p) ==
    CASE p.m = "newkeys" -> [Phase("newkeys") EXCEPT !.dec = TRUE]
      [] p.m = "confirm" -> [Phase("request") EXCEPT !.win = INITIAL_WINDOW]
      [] p.m = "chansuccess" -> Phase(CASE cl.phase = "other?" -> "request" [] cl.phase = "req?" -> "talk" [] OTHER -> cl.phase)
      [] p.m = "chanfail" -> Phase(IF cl.phase = "other?" THEN "request" ELSE "leave")
      [] p.m = "openfail" -> IF cl.phase = "confirm?" THEN Phase("leave") ELSE cl
      [] p.m = "data" -> [cl EXCEPT !.got = @ \o p.arg, !.used = @ + Len(p.arg)]
      [] p.m = "adjust" -> [cl EXCEPT !.win = @ + p.arg]
      [] p.m \in {"reqfail", "eof"} -> cl
      [] OTHER -> Phase(Expects[p.m])
Waits == cl.phase \in {"kexinit?", "reply?", "newkeys?", "accept?", "auth?", "confirm?", "req?", "other?", "talk", "close?"}
ClientReceives ==
    /\ pc = "sock" /\ Waits /\ back # <<>>
    /\ back' = Tail(back) /\ cl' = [Received(Head(back)) EXCEPT !.rseq = (@ + 1) % SEQ]
    /\ UNCHANGED <<tcp, wire>> /\ Net

ClientStep == Connect \/ Establish \/ Reset \/ Leave \/ LastAck \/ Vanish \/ ClientSends \/ ClientReceives
Next == NetStep \/ TimedOut \/ DeadlinePasses \/ ShellStep \/ ClientStep

\* The net task and the shells are scheduled; a silent client is timed out.
Fairness ==
    /\ WF_vars(NetStep) /\ SF_vars(TimedOut) /\ WF_vars(DeadlinePasses)
    /\ \A i \in 1 .. 2 * (MAX_CONNS - 1) :
          SF_vars(SharedNext /\ i \in DOMAIN shells /\ (ShellWrite(i) \/ ShellRead(i)))
Spec == Init /\ [][Next]_vars /\ Fairness

---------------------------------------------------------------------------
\* Properties

\* Everything this connection has under way, oldest first.
ToClient == back \o conn.tx
ToServer == conn.rx \o wire
Live == active /\ tcp \in {"syn", "est", "closewait"} /\ cl.phase # "off"
Count(q, m, weight(_)) == FoldLeft(LAMBDA n, p : IF p.m = m THEN n + weight(p) ELSE n, 0, q)

TypeOK ==
    /\ tcp \in {"listen", "syn", "est", "closewait", "finwait", "lastack", "closed"}
    /\ conn.state \in {"VersionExchange", "KexInit", "Kex", "Encrypted", "UserAuth", "Session", "Closed"}
    /\ conn.fails \in 0 .. MAX_AUTH_ATTEMPTS /\ conn.ch.sess \in 0 .. Len(chans)
    /\ conn.ch.recv \in 0 .. INITIAL_WINDOW /\ conn.ch.send \in 0 .. PEER_WINDOW
    /\ Len(shells) = Len(chans)
    /\ \A i \in DOMAIN chans : Len(chans[i].to) <= RING_CAP /\ Len(chans[i].from) <= RING_CAP

\* The two ends never disagree about a packet: whatever is under way, in
\* either direction, carries the number its receiver will be at, and is
\* encrypted exactly when the receiver will by then have changed keys
\* (send_seq, recv_seq, out_encrypted, in_encrypted around NEWKEYS).
InStep(q, seq, enc) ==
    \A i \in DOMAIN q : /\ q[i].seq = (seq + i - 1) % SEQ
                        /\ q[i].enc = (enc \/ \E j \in 1 .. i - 1 : q[j].m = "newkeys")
Packed(q) == SelectSeq(q, LAMBDA p : p.m \notin {"version", "line", "endless"})
KeysInStep ==
    Live => /\ InStep(ToClient, cl.rseq, cl.dec) /\ conn.send_seq = (cl.rseq + Len(ToClient)) % SEQ
            /\ InStep(Packed(ToServer), conn.recv_seq, conn.in_enc)

\* Flow control conserves credit: what each side may still send, what is
\* under way, and what is on its way back as an adjustment add up to the
\* window, so neither ever overruns the other or loses its allowance
\* (pump_shell_output, on_data, add_send_window).
Size(p) == Len(p.arg)
Grant(p) == p.arg
One(p) == 1
Credits ==
    Live /\ conn.has =>
        /\ conn.ch.send + Count(ToClient, "data", Size) + cl.used + Count(ToServer, "adjust", Grant) = PEER_WINDOW
        /\ conn.ch.recv = cl.win + Count(ToServer, "data", One) + Count(ToClient, "adjust", Grant)
                         + (IF Count(ToClient, "confirm", One) = 1 THEN INITIAL_WINDOW ELSE 0)

\* No session outlives its connection: when net_task comes round, an open
\* channel is the one of the connection it is serving ("a TCP reset that
\* strands the Connection, or the Connection being replaced").
NoStrandedShell ==
    pc = "sock" => \A i \in DOMAIN chans : chans[i].open => active /\ conn.has /\ conn.ch.sess = i

\* The server's state is well-formed and no session outlives its connection
\* (serve, shutdown, the replacement of a Connection).
SshInv == TypeOK /\ NoStrandedShell

\* The client's terminal shows what the shell wrote, in order, each "nl" as
\* "cr" "nl", nothing lost or repeated between the ring, the packets and
\* the wire, however the ring filled up.
OneShell == Len(cl.asked) = 1
OutputExact ==
    Live /\ conn.ch.sess # 0 /\ chans[conn.ch.sess].open /\ OneShell =>
        cl.got \o FoldLeft(LAMBDA t, p : IF p.m = "data" THEN t \o p.arg ELSE t, <<>>, ToClient) \o chans[conn.ch.sess].from
            = WriteConsole(SubSeq(SHELL_TEXT, 1, shells[conn.ch.sess].done))

\* The channel is closed on the client only when its shell is gone and its
\* last output is ahead of the close ("we have flushed its last bytes").
OutputBeforeClose ==
    conn.closing /\ OneShell /\ conn.has /\ chans[conn.ch.sess].open =>
        /\ shells[conn.ch.sess].state # "run" /\ shells[conn.ch.sess].done = Len(SHELL_TEXT)
        /\ chans[conn.ch.sess].from = <<>>

\* As long as the client has not sent more than a ring holds, the shell gets
\* every byte, in order, after the command an exec request brought.
Offered ==
    (IF "exec" \in Range(cl.asked) THEN <<"cmd", "exit">> ELSE <<>>)
        \o [n \in 1 .. cl.typed |-> IF n = MAX_INPUT THEN "exit" ELSE "key"]
InputKept ==
    Live /\ conn.ch.sess # 0 /\ chans[conn.ch.sess].open /\ OneShell /\ Len(Offered) <= RING_CAP =>
        shells[conn.ch.sess].got \o chans[conn.ch.sess].to
            \o FoldLeft(LAMBDA t, p : IF p.m = "data" THEN Append(t, p.arg) ELSE t, <<>>, ToServer)
          = Offered

\* Between shell and client no byte is lost, doubled or reordered, in either
\* direction, through rings, windows and packets, nor by the close.
StreamsKept == OutputExact /\ OutputBeforeClose /\ InputKept

\* A session whose client is gone, in whatever way, ends: its shell sees the
\* end of its input, exits, and is reaped.
Reclaimed ==
    <>[](cl.phase \in {"off", "dead"}) => <>[](\A i \in DOMAIN shells : shells[i].state = "gone")
=============================================================================
