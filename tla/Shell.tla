------------------------------- MODULE Shell -------------------------------
(***************************************************************************)
(* The user shell (userland/apps/src/bin/sh.rs, interactive or running a   *)
(* script) or the session shell of the kernel (shell/mod.rs,               *)
(* shell/commands/mod.rs) with the programs it runs.  A shell moves its    *)
(* own descriptors around, starts programs that get a copy of its table,   *)
(* and waits.  A program is as long as what it reads and writes: gen       *)
(* writes, filter copies to the end of its input, head copies one item.    *)
(* A process that has exited keeps its descriptors until it is reaped.     *)
(* A definition named after the one that follows it is a mutant, wrong on  *)
(* purpose; nothing uses it.                                               *)
(***************************************************************************)
EXTENDS CommandLine, Fd

CONSTANTS SCRIPT_MAX,    \* longest script (1024)
          CAPACITY,      \* items a pipe holds
          ITEMS,         \* items gen writes
          MAX_KEYS,      \* keys typed at an interactive shell
          Keys,          \* what may be typed
          Programs,      \* command name |-> what the program does
          Openable,      \* names a redirection can open
          Sessions       \* records kind, input: what the shells are given

ASSUME ShellAssumption == {SCRIPT_MAX, CAPACITY, ITEMS} \subseteq Nat \ {0} /\ MAX_KEYS \in Nat

VARIABLES job, sh, table, kids, pipes
shellVars == <<job, sh, table, kids, pipes>>

Tty == [ino |-> 1, end |-> "tty"]
OutFile == [ino |-> 2, end |-> "w"]
PipeEnd(p, end) == [ino |-> 2 + p, end |-> end]
IsPipe(file) == file.ino > 2

---------------------------------------------------------------------------
\* Descriptors and children

Tables == {table} \cup {kids[k].fds : k \in DOMAIN kids}
Open(tabs, p, end) == \E tab \in tabs : \E i \in DOMAIN tab : tab[i] # NoFile /\ tab[i] = PipeEnd(p, end)
FdOf(k, fd) == kids[k].fds[fd + 1]
Zombies == {k \in DOMAIN kids : kids[k].state = "zombie"}

Closed(tab, fds) == FoldLeft(LAMBDA t, fd : IF fd >= 0 THEN CloseIn(t, fd) ELSE t, tab, fds)
NewPid == Max({0} \cup DOMAIN kids \cup Range(sh.pids)) + 1
Child(prog, fds, stage, last, redir) ==
    [prog |-> prog, fds |-> fds, stage |-> stage, last |-> last, redir |-> redir, state |-> "run", hold |-> FALSE,
     left |-> CASE prog = "gen" -> ITEMS [] prog = "head" -> 1 [] OTHER -> 0]
Spawned(kid) == kids @@ (NewPid :> kid)
CanRun(argv) == argv[1] \in DOMAIN Programs

\* Reaping releases the table.
Reap(k) == kids' = [j \in DOMAIN kids \ {k} |-> kids[j]]

---------------------------------------------------------------------------
\* Init, and what both shells share

Idle ==
    [pc |-> "line", lines |-> <<>>, ed |-> Blanked, keys |-> 0, orig |-> <<>>, buf |-> <<>>, from |-> 1, to |-> 1,
     more |-> FALSE, seg |-> <<1, 1>>, stages |-> <<>>, i |-> 1, prev |-> -1, next |-> -1, wr |-> -1, rfd |-> -1, saved |-> -1,
     pids |-> <<>>, n |-> 0, bg |-> FALSE, code |-> 0, queue |-> <<>>, ends |-> <<>>, redirs |-> <<>>, failed |-> FALSE]

ShellInit ==
    /\ job \in Sessions
    /\ table = Seeded(Tty, Tty) /\ kids = <<>> /\ pipes = <<>>
    /\ sh = CASE job.kind = "edit" -> [Idle EXCEPT !.pc = "prompt"]
              [] job.kind = "kernel" -> [Idle EXCEPT !.lines = job.input]
              [] job.kind = "script" /\ Len(job.input) > SCRIPT_MAX -> [Idle EXCEPT !.pc = "exit", !.code = 1]
              [] OTHER -> [Idle EXCEPT !.lines = Split(job.input, {NL})]

\* The loop goes on with the rest of the line, the next line, or the prompt.
Back(st) ==
    [st EXCEPT !.pc = CASE job.kind = "kernel" -> "pipeline"
                        [] job.kind # "kernel" /\ st.more -> "seg"
                        [] job.kind = "edit" /\ ~st.more -> "prompt"
                        [] OTHER -> "line",
               !.pids = <<>>, !.prev = -1, !.next = -1, !.wr = -1, !.rfd = -1, !.saved = -1]

\* wait: any child that has exited, the oldest first; without children it
\* fails at once, and the kernel shell then stops waiting.
Wait ==
    /\ sh.pc = "wait" /\ sh.n > 0
    /\ IF kids = <<>>
       THEN kids' = kids /\ sh' = [sh EXCEPT !.n = IF job.kind = "kernel" THEN 0 ELSE @ - 1]
       ELSE /\ Zombies # {}
            /\ Reap(Min(Zombies))
            /\ sh' = [sh EXCEPT !.n = @ - 1,
                                !.code = IF job.kind = "kernel" /\ ~sh.failed /\ Min(Zombies) = Last(sh.pids)
                                         THEN kids[Min(Zombies)].stage ELSE @]
    /\ UNCHANGED <<job, table, pipes>>

\* Then a redirection is undone: dup2(saved, 1), close(saved).
Waited ==
    /\ sh.pc = "wait" /\ sh.n = 0
    /\ table' = IF sh.saved >= 0 THEN Closed(Dup2(table, sh.saved, 1).tab, <<sh.saved>>) ELSE table
    /\ sh' = Back(sh)
    /\ UNCHANGED <<job, kids, pipes>>

---------------------------------------------------------------------------
\* The user shell: lines

Accept(st, line) ==
    LET r == Trimmed(line, 1, Len(line) + 1)
    IN  [st EXCEPT !.orig = Append(line, NUL), !.buf = Append(line, NUL), !.from = r[1], !.to = r[2], !.more = TRUE, !.pc = "seg"]

\* run_script: one line of the file.
ScriptLine ==
    /\ sh.pc = "line" /\ job.kind = "script"
    /\ LET line == Chomp(Head(sh.lines))
           solid == SelectSeq(line, LAMBDA c : c \notin {SP, TAB})
           rest == [sh EXCEPT !.lines = Tail(@)]
       IN  sh' = CASE sh.lines = <<>> -> [sh EXCEPT !.pc = "exit"]
                   [] sh.lines # <<>> /\ (Len(line) > LINE \/ solid = <<>> \/ solid[1] = "#") -> rest
                   [] OTHER -> Accept(rest, line)
    /\ UNCHANGED <<job, table, kids, pipes>>

\* reap_background_jobs, then the prompt.
Prompt ==
    /\ sh.pc = "prompt"
    /\ IF Zombies # {} THEN Reap(Min(Zombies)) /\ sh' = sh
       ELSE kids' = kids /\ sh' = [sh EXCEPT !.pc = "key", !.ed = Blanked]
    /\ UNCHANGED <<job, table, pipes>>

Type(key) ==
    /\ sh.pc = "key" /\ sh.keys < MAX_KEYS
    /\ key = "late" => sh.ed.esc # "no"
    /\ LET e == Key(sh.ed, key)
           st == [sh EXCEPT !.ed = e, !.keys = @ + 1]
       IN  sh' = CASE e.done = "line" -> Accept(st, e.buf)
                   [] e.done = "panic" -> [st EXCEPT !.pc = "exit", !.code = -1]
                   [] OTHER -> st
    /\ UNCHANGED <<job, table, kids, pipes>>

\* run_line: the next command of the line, ended by ";".
Segment ==
    /\ sh.pc = "seg"
    /\ LET cut == FindTop(sh.buf, sh.from, sh.to, {";"})
           seg == Trimmed(sh.buf, sh.from, cut)
           st == [sh EXCEPT !.from = cut + 1, !.more = cut < sh.to, !.seg = seg]
       IN  sh' = IF seg[1] = seg[2] THEN Back(st) ELSE [st EXCEPT !.pc = "exec"]
    /\ UNCHANGED <<job, table, kids, pipes>>

\* exec_line: builtins, a "sudo" that is dropped, one command, a pipeline.
Sudo(rest) == sh' = (IF rest[1] < rest[2] THEN [sh EXCEPT !.seg = rest] ELSE Back(sh)) /\ table' = table
RunStages(stages, st) ==
    CASE Len(stages) > MAX_STAGES -> sh' = Back(sh) /\ table' = table
      [] Len(stages) = 1 -> sh' = [st EXCEPT !.pc = "single"] /\ table' = table
      [] OTHER -> sh' = [st EXCEPT !.pc = "stage", !.stages = stages] /\ table' = Dup2(Dup2(table, 1, 10).tab, 0, 11).tab
ExecLine(first, alone, args) ==
    CASE first = "exit" /\ alone -> sh' = [sh EXCEPT !.pc = "exit"] /\ table' = table
      [] first = "sudo" /\ ~alone /\ args -> Sudo(Trimmed(sh.buf, sh.seg[1] + 2, sh.seg[2]))
      [] (first \in {"help", "clear"} /\ alone) \/ (first \in {"cd", "pwd"} /\ args) -> sh' = Back(sh) /\ table' = table
      [] OTHER -> RunStages(Stages(sh.buf, sh.seg[1], sh.seg[2]), [sh EXCEPT !.i = 1, !.pids = <<>>])
Exec ==
    /\ sh.pc = "exec"
    /\ ExecLine(sh.buf[sh.seg[1]], sh.seg[1] + 1 = sh.seg[2], sh.seg[1] + 1 = sh.seg[2] \/ sh.buf[sh.seg[1] + 1] = SP)
    /\ UNCHANGED <<job, kids, pipes>>

Opened(r) == r.to # {} /\ r.to \subseteq Openable

---------------------------------------------------------------------------
\* The user shell: running programs

\* run_single: the redirection is opened, the words are split in place, fd 1
\* is moved, the program started.
Moved(opened) == CloseIn(Dup2(Dup2(opened.tab, 1, 12).tab, opened.fd, 1).tab, opened.fd)
SingleSpawn(argv, bg, redir, tab, st) ==
    /\ table' = tab
    /\ kids' = IF CanRun(argv) THEN Spawned(Child(Programs[argv[1]], tab, 1, TRUE, redir)) ELSE kids
    /\ sh' = [st EXCEPT !.pc = "wait", !.n = IF CanRun(argv) /\ ~bg THEN 1 ELSE 0, !.bg = @ \/ (CanRun(argv) /\ bg),
                        !.pids = IF CanRun(argv) THEN <<NewPid>> ELSE <<>>, !.saved = IF redir THEN 12 ELSE -1]
SingleWords(t, bg, redir) ==
    \/ Prepare(t) = {} /\ sh' = Back([sh EXCEPT !.buf = t.buf]) /\ UNCHANGED <<table, kids>>
    \/ \E argv \in Prepare(t) :
          SingleSpawn(argv, bg, redir, IF redir THEN Moved(Insert(table, OutFile)) ELSE table, [sh EXCEPT !.buf = t.buf])
SingleCommand(r, bg) ==
    IF r.to # {} /\ ~Opened(r) THEN sh' = Back(sh) /\ UNCHANGED <<table, kids>>
    ELSE SingleWords(Tokenize(sh.buf, r.cmd[1], r.cmd[2]), bg, r.to # {})
SingleRange(seg, bg) == SingleCommand(Redirect(sh.buf, seg[1], seg[2]), bg)
Single ==
    /\ sh.pc = "single"
    /\ IF sh.buf[sh.seg[2] - 1] = "&" THEN SingleRange(Trimmed(sh.buf, sh.seg[1], sh.seg[2] - 1), TRUE) ELSE SingleRange(sh.seg, FALSE)
    /\ UNCHANGED <<job, pipes>>

\* run_pipeline_n, one stage: its redirection, its words, the pipe to the
\* next stage, fd 0 and fd 1, the program.  A target that cannot be opened is
\* forgotten; a stage without a command ends the loop.
Stdin(tab) == Dup2(tab, IF sh.prev >= 0 THEN sh.prev ELSE 11, 0).tab
Stdout(tab, rfd, wr) == Dup2(tab, IF rfd >= 0 THEN rfd ELSE IF wr >= 0 THEN wr ELSE 10, 1).tab
StageSpawn(argv, rfd, tab, st) ==
    /\ table' = tab
    /\ kids' = IF CanRun(argv) THEN Spawned(Child(Programs[argv[1]], tab, sh.i, sh.i = Len(sh.stages), rfd >= 0)) ELSE kids
    /\ sh' = [st EXCEPT !.pc = "drop", !.rfd = rfd, !.pids = IF CanRun(argv) THEN Append(@, NewPid) ELSE @]
StageMiddle(argv, rfd, made, st) ==
    /\ pipes' = Append(pipes, 0)
    /\ StageSpawn(argv, rfd, Stdout(Stdin(made.tab), rfd, made.w), [st EXCEPT !.wr = made.w, !.next = made.r])
StageLast(argv, rfd, tab, st) == pipes' = pipes /\ StageSpawn(argv, rfd, Stdout(Stdin(tab), rfd, -1), st)
StageWords(t, rfd, tab) ==
    \/ Prepare(t) = {} /\ sh' = [sh EXCEPT !.buf = t.buf, !.pc = "restore"] /\ UNCHANGED <<table, kids, pipes>>
    \/ \E argv \in Prepare(t) :
          IF sh.i = Len(sh.stages) THEN StageLast(argv, rfd, tab, [sh EXCEPT !.buf = t.buf])
          ELSE StageMiddle(argv, rfd, InsertPipe(tab, PipeEnd(Len(pipes) + 1, "r"), PipeEnd(Len(pipes) + 1, "w")), [sh EXCEPT !.buf = t.buf])
StageRedirect(r, opened) ==
    IF Opened(r) THEN StageWords(Tokenize(sh.buf, r.cmd[1], r.cmd[2]), opened.fd, opened.tab)
    ELSE StageWords(Tokenize(sh.buf, r.cmd[1], r.cmd[2]), -1, table)
Stage ==
    /\ sh.pc = "stage"
    /\ StageRedirect(Redirect(sh.buf, sh.stages[sh.i][1], sh.stages[sh.i][2]), Insert(table, OutFile))
    /\ UNCHANGED job

Drop_KeepsWriter ==
    /\ sh.pc = "drop"
    /\ table' = Closed(table, <<sh.rfd, sh.prev>>)
    /\ sh' = [sh EXCEPT !.pc = IF sh.i = Len(sh.stages) THEN "restore" ELSE "stage", !.i = @ + 1,
                        !.rfd = -1, !.wr = -1, !.prev = sh.next, !.next = -1]
    /\ UNCHANGED <<job, kids, pipes>>
\* What the child has a copy of is closed here.
Drop_ ==
    /\ sh.pc = "drop"
    /\ table' = Closed(table, <<sh.rfd, sh.prev, sh.wr>>)
    /\ sh' = [sh EXCEPT !.pc = IF sh.i = Len(sh.stages) THEN "restore" ELSE "stage", !.i = @ + 1,
                        !.rfd = -1, !.wr = -1, !.prev = sh.next, !.next = -1]
    /\ UNCHANGED <<job, kids, pipes>>

RestoreLeaks ==
    /\ sh.pc = "restore"
    /\ table' = Dup2(Dup2(Closed(table, <<sh.prev>>), 10, 1).tab, 11, 0).tab
    /\ sh' = [sh EXCEPT !.pc = "wait", !.n = Len(sh.pids), !.prev = -1]
    /\ UNCHANGED <<job, kids, pipes>>
Restore ==
    /\ sh.pc = "restore"
    /\ LET tab == Closed(table, <<sh.prev>>)
       IN  table' = Closed(Dup2(Dup2(tab, 10, 1).tab, 11, 0).tab, <<10, 11>>)
    /\ sh' = [sh EXCEPT !.pc = "wait", !.n = Len(sh.pids), !.prev = -1]
    /\ UNCHANGED <<job, kids, pipes>>

---------------------------------------------------------------------------
\* The kernel shell: run_session and execute.  The whole line is parsed
\* before any of it runs.

SessionText(text, rest) ==
    CASE text = <<"exit">> -> sh' = [rest EXCEPT !.pc = "exit"]
      [] text = <<>> -> sh' = rest
      [] OTHER -> \E parsed \in {ParseLine(text)} :
                      sh' = IF parsed = {} THEN rest ELSE [rest EXCEPT !.pc = "pipeline", !.queue = CHOOSE q \in parsed : TRUE]
TrimmedText(line, r) == SubSeq(line, r[1], r[2] - 1)
Stripped(line) == TrimmedText(line, Trimmed(line, 1, Len(line) + 1))
SessionLine ==
    /\ sh.pc = "line" /\ job.kind = "kernel"
    /\ IF sh.lines = <<>> THEN sh' = [sh EXCEPT !.pc = "exit"]
       ELSE SessionText(Stripped(KReadLine(Head(sh.lines))), [sh EXCEPT !.lines = Tail(@)])
    /\ UNCHANGED <<job, table, kids, pipes>>

\* dispatch: a "sudo" is dropped, a builtin runs in the shell.
Dispatched(argv) == IF argv[1] = <<"sudo">> THEN Tail(argv) ELSE argv
IsBuiltin(argv) == argv = <<>> \/ argv[1] \in {<<b>> : b \in {"echo", "help", "clear", "cd", "pwd", "sudo"}} \cup {<<>>}

\* run_command: begin_redirect, the command, and (after waiting) end_redirect.
KRun(argv, redir, saved, tab, st) ==
    /\ table' = tab
    /\ IF IsBuiltin(argv) \/ ~CanRun(argv)
       THEN /\ kids' = kids
            /\ sh' = [st EXCEPT !.pc = "wait", !.n = 0, !.failed = TRUE, !.saved = saved, !.code = IF IsBuiltin(argv) THEN 0 ELSE 127]
       ELSE /\ kids' = Spawned(Child(Programs[argv[1]], tab, 1, TRUE, redir))
            /\ sh' = [st EXCEPT !.pc = "wait", !.n = 1, !.failed = FALSE, !.saved = saved, !.pids = <<NewPid>>]
KRedirected(argv, fd, saved, st) == KRun(argv, TRUE, saved.fd, CloseIn(Dup2(saved.tab, fd, 1).tab, fd), st)
KOpened(argv, opened, st) == KRedirected(argv, opened.fd, Dup(opened.tab, 1), st)
KCommand(cmd, st) ==
    CASE cmd.to = {} -> KRun(Dispatched(cmd.argv), FALSE, -1, table, st)
      [] cmd.to # {} /\ cmd.to \subseteq Openable -> KOpened(Dispatched(cmd.argv), Insert(table, OutFile), st)
      [] OTHER -> sh' = Back(st) /\ UNCHANGED <<table, kids>>

\* run_pipeline: every stage must resolve, then all the pipes are made.
MadePipe(acc, m) == [tab |-> m.tab, ends |-> Append(acc.ends, <<m.r, m.w>>)]
MadePipes(n) ==
    FoldLeft(LAMBDA acc, p : MadePipe(acc, InsertPipe(acc.tab, PipeEnd(Len(pipes) + p, "r"), PipeEnd(Len(pipes) + p, "w"))),
             [tab |-> table, ends |-> <<>>], [k \in 1..n |-> k])
KPiped(made, st) == table' = made.tab /\ sh' = [st EXCEPT !.pc = "kstage", !.i = 1, !.ends = made.ends, !.redirs = <<>>, !.failed = FALSE]
KPipes(cmds, st) ==
    IF \E k \in DOMAIN cmds : cmds[k].argv[1] \notin Bin
    THEN sh' = [Back(st) EXCEPT !.code = 127] /\ UNCHANGED <<table, pipes>>
    ELSE pipes' = pipes \o [k \in 1..(Len(cmds) - 1) |-> 0] /\ KPiped(MadePipes(Len(cmds) - 1), st)

Pipeline ==
    /\ sh.pc = "pipeline" /\ job.kind = "kernel"
    /\ CASE sh.queue = <<>> -> sh' = [sh EXCEPT !.pc = "line"] /\ UNCHANGED <<table, kids, pipes>>
         [] sh.queue # <<>> /\ Len(sh.queue[1]) = 1 ->
               KCommand(sh.queue[1][1], [sh EXCEPT !.queue = Tail(@), !.stages = sh.queue[1]]) /\ UNCHANGED pipes
         [] OTHER -> KPipes(sh.queue[1], [sh EXCEPT !.queue = Tail(@), !.stages = sh.queue[1]]) /\ UNCHANGED kids
    /\ UNCHANGED job

\* One stage: its own target or the pipe, spawn_child.  The child's copy of
\* the table is edited before it may run.
ChildIn(tab, rd) == IF rd # 0 THEN Dup2(tab, rd, 0).tab ELSE tab
ChildOut(tab, wr) == IF wr # 1 THEN Dup2(tab, wr, 1).tab ELSE tab
InChild(tab, rd, wr, fds) == Closed(ChildOut(ChildIn(tab, rd), wr), fds)
AllEnds == FoldLeft(LAMBDA acc, e : acc \o e, <<>>, sh.ends)
KSpawn(cmd, tab, rd, wr, redirs) ==
    /\ table' = tab
    /\ IF CanRun(cmd.argv)
       THEN /\ kids' = Spawned(Child(Programs[cmd.argv[1]], InChild(tab, rd, wr, AllEnds), sh.i, sh.i = Len(sh.stages), cmd.to # {}))
            /\ sh' = [sh EXCEPT !.i = @ + 1, !.redirs = redirs, !.pids = Append(@, NewPid)]
       ELSE kids' = kids /\ sh' = [sh EXCEPT !.pc = "kclose", !.failed = TRUE, !.code = 126, !.redirs = redirs]
KStageTo(cmd, rd, opened) == KSpawn(cmd, opened.tab, rd, opened.fd, Append(sh.redirs, opened.fd))
KStageOf(cmd, rd) ==
    CASE cmd.to = {} -> KSpawn(cmd, table, rd, IF sh.i = Len(sh.stages) THEN 1 ELSE sh.ends[sh.i][2], sh.redirs)
      [] cmd.to # {} /\ cmd.to \subseteq Openable -> KStageTo(cmd, rd, Insert(table, OutFile))
      [] OTHER -> sh' = [sh EXCEPT !.pc = "kclose", !.failed = TRUE, !.code = 1] /\ UNCHANGED <<table, kids>>
KStage ==
    /\ sh.pc = "kstage" /\ sh.i <= Len(sh.stages)
    /\ KStageOf(sh.stages[sh.i], IF sh.i = 1 THEN 0 ELSE sh.ends[sh.i - 1][1])
    /\ UNCHANGED <<job, pipes>>

\* close_all and the targets, after the last stage or the one that failed.
KClose ==
    /\ sh.pc = "kclose" \/ (sh.pc = "kstage" /\ sh.i > Len(sh.stages))
    /\ table' = Closed(table, AllEnds \o sh.redirs)
    /\ sh' = [sh EXCEPT !.pc = "wait", !.n = Len(sh.pids), !.ends = <<>>, !.redirs = <<>>]
    /\ UNCHANGED <<job, kids, pipes>>

---------------------------------------------------------------------------
\* The programs

Reads(k) == kids[k].prog \in {"filter", "head"} /\ ~kids[k].hold /\ (kids[k].prog = "head" => kids[k].left > 0)
Writes(k) == kids[k].hold \/ (kids[k].prog = "gen" /\ kids[k].left > 0)
PipeOf(file) == file.ino - 2

Full(k) == IsPipe(FdOf(k, 1)) /\ Open(Tables, PipeOf(FdOf(k, 1)), "r") /\ pipes[PipeOf(FdOf(k, 1))] = CAPACITY
Filled(k) ==
    IF IsPipe(FdOf(k, 1)) /\ Open(Tables, PipeOf(FdOf(k, 1)), "r")
    THEN [pipes EXCEPT ![PipeOf(FdOf(k, 1))] = @ + 1] ELSE pipes
ChildWrites(k) ==
    /\ kids[k].state = "run" /\ Writes(k) /\ ~Full(k)
    /\ pipes' = Filled(k)
    /\ kids' = [kids EXCEPT ![k].hold = FALSE, ![k].left = IF kids[k].prog = "gen" THEN @ - 1 ELSE @]
    /\ UNCHANGED <<job, sh, table>>

\* At the end of a pipe: no items and no writer.  The terminal and a file
\* that is only written give nothing to read.
AtEnd(k) == IsPipe(FdOf(k, 0)) => pipes[PipeOf(FdOf(k, 0))] = 0 /\ ~Open(Tables, PipeOf(FdOf(k, 0)), "w")
ChildReads(k) ==
    /\ kids[k].state = "run" /\ Reads(k) /\ IsPipe(FdOf(k, 0)) /\ pipes[PipeOf(FdOf(k, 0))] > 0
    /\ pipes' = [pipes EXCEPT ![PipeOf(FdOf(k, 0))] = @ - 1]
    /\ kids' = [kids EXCEPT ![k].hold = TRUE, ![k].left = IF kids[k].prog = "head" THEN @ - 1 ELSE @]
    /\ UNCHANGED <<job, sh, table>>

ChildExits(k) ==
    /\ kids[k].state = "run" /\ ~Writes(k) /\ (Reads(k) => AtEnd(k))
    /\ kids' = [kids EXCEPT ![k].state = "zombie"]
    /\ UNCHANGED <<job, sh, table, pipes>>

---------------------------------------------------------------------------
\* The end: the shell has exited, nobody types, or a stage of the user shell
\* waits for room in a pipe that only it could read.

Finished == sh.pc = "exit" \/ (sh.pc = "key" /\ sh.keys = MAX_KEYS)
OnlyReader(k) == ~Open({table} \cup {kids[j].fds : j \in DOMAIN kids \ {k}}, PipeOf(FdOf(k, 1)), "r")
Wedged == job.kind # "kernel" /\ \E k \in DOMAIN kids : kids[k].state = "run" /\ Writes(k) /\ Full(k) /\ OnlyReader(k)
Over == (Finished \/ Wedged) /\ UNCHANGED shellVars

ShellNext ==
    \/ ScriptLine \/ Prompt \/ Segment \/ Exec \/ Single \/ Stage \/ Drop_ \/ Restore
    \/ \E key \in Keys : Type(key)
    \/ SessionLine \/ Pipeline \/ KStage \/ KClose \/ Wait \/ Waited
    \/ \E k \in DOMAIN kids : ChildWrites(k) \/ ChildReads(k) \/ ChildExits(k)
    \/ Over

ShellSpec == ShellInit /\ [][ShellNext]_shellVars

---------------------------------------------------------------------------
\* Properties

ShellTypeOK ==
    /\ sh.pc \in {"line", "prompt", "key", "seg", "exec", "single", "stage", "drop", "restore", "wait", "pipeline", "kstage", "kclose", "exit"}
    /\ sh.ed.pos \in 0..Len(sh.ed.buf) /\ Len(sh.ed.buf) <= LINE
    /\ Len(table) <= MAX_OPEN_FILES /\ sh.n \in 0..Len(sh.pids)
    /\ \A p \in DOMAIN pipes : pipes[p] \in 0..CAPACITY
    /\ \A k \in DOMAIN kids : kids[k].state \in {"run", "zombie"} /\ kids[k].prog \in Range(Programs)

\* Between two commands the shell's own descriptors are the ones it started
\* with, whatever failed on the way: run_single undoes its redirection,
\* run_pipeline_n puts 0 and 1 back and closes 10 and 11, the kernel's
\* run_pipeline and end_redirect close what they opened.
Between == sh.pc \in {"line", "prompt", "key", "seg", "pipeline", "exit"}
TableRestored == Between => \A i \in DOMAIN table : table[i] = IF i <= 3 THEN Tty ELSE NoFile

\* No stage holds a write end of the pipe it reads ("así ninguna etapa hereda
\* un escritor del pipe que va a leer"), and a stage started by the kernel
\* shell holds no pipe at all but on 0 and 1 (close_in_child).
NoOwnWriter ==
    \A k \in DOMAIN kids :
        /\ IsPipe(FdOf(k, 0)) => ~Open({kids[k].fds}, PipeOf(FdOf(k, 0)), "w")
        /\ job.kind = "kernel" => \A fd \in 2..(Len(kids[k].fds) - 1) : ~IsPipe(FdOf(k, fd))

\* The stages are chained: stage i + 1 reads a pipe, the very one stage i
\* writes unless a redirection of its own took its output; only the first
\* stage has the shell's input and only the last its output.
StageWiring ==
    \A a \in DOMAIN kids :
        /\ FdOf(a, 0) = Tty <=> kids[a].stage = 1
        /\ kids[a].redir <=> FdOf(a, 1) = OutFile
        /\ kids[a].last /\ ~kids[a].redir <=> FdOf(a, 1) = Tty
        /\ \A b \in DOMAIN kids :
              {a, b} \subseteq Range(sh.pids) /\ kids[b].stage = kids[a].stage + 1 /\ ~kids[a].redir =>
                  IsPipe(FdOf(b, 0)) /\ FdOf(b, 0).end = "r" /\ FdOf(a, 1) = [FdOf(b, 0) EXCEPT !.end = "w"]

\* A pipeline is wired as written: each stage reads the one before it, and
\* nobody keeps an end open that would withhold the end of file.
PipelineWired == NoOwnWriter /\ StageWiring

\* As long as nothing was put in the background, the shell goes on only when
\* all the programs of the command have been reaped.
ForegroundDone == Between /\ ~sh.bg => kids = <<>>

\* wait_all answers the status of the last stage, whatever the order in
\* which the stages end and are reaped.
LastStatus == sh.pc = "wait" /\ sh.n = 0 /\ job.kind = "kernel" /\ ~sh.failed => sh.code = Len(sh.stages)

\* After a line, whatever failed in it, the shell is as before it: its own
\* descriptors back, its foreground programs reaped, the last one's status.
AfterLine == ShellTypeOK /\ TableRestored /\ ForegroundDone /\ LastStatus

\* The user shell splits words in place; text that is still to be parsed is
\* never touched ("el resto de la línea (los segmentos por venir) no se toca").
Unparsed ==
    CASE sh.pc \in {"seg", "wait"} /\ sh.more -> sh.from..Len(sh.buf)
      [] sh.pc = "stage" -> sh.stages[sh.i][1]..Len(sh.buf)
      [] OTHER -> {}
LaterTextKept == \A j \in Unparsed : sh.buf[j] = sh.orig[j]

\* The two shells read a line the same way, as long as it has no tab, no
\* backslash and no "&", quotes are closed and stay out of targets, and a
\* target is the last word of its command.
UserCommand(buf, r) ==
    LET red == Redirect(buf, r[1], r[2])
    IN  {[argv |-> argv, to |-> red.to, append |-> red.append] : argv \in Prepare(Tokenize(buf, red.cmd[1], red.cmd[2]))}
Between2(cuts, a, b) ==
    [k \in 1..(Len(cuts) + 1) |-> <<IF k = 1 THEN a ELSE cuts[k - 1] + 1, IF k > Len(cuts) THEN b ELSE cuts[k]>>]
UserStages(buf, stages) == [j \in DOMAIN stages |-> UserCommand(buf, stages[j])]
UserSegments(buf, segs) == [k \in DOMAIN segs |-> UserStages(buf, Stages(buf, segs[k][1], segs[k][2]))]
NonEmpty(buf, parts) ==
    SelectSeq([k \in DOMAIN parts |-> Trimmed(buf, parts[k][1], parts[k][2])], LAMBDA r : r[1] < r[2])
UserPipelines(buf, a, b) ==
    UserSegments(buf, NonEmpty(buf, Between2(SetToSortSeq({i \in Outside(buf, a, b) : buf[i] = ";"}, <), a, b)))
TargetLast(buf, r) ==
    LET i == FindTop(buf, r[1], r[2], {">"})
        t == Trimmed(buf, IF i + 1 < r[2] /\ buf[i + 1] = ">" THEN i + 2 ELSE i + 1, r[2])
    IN  i < r[2] => t[1] < t[2] /\ \A j \in t[1]..(t[2] - 1) : buf[j] \notin Quotes \cup {SP, ">"}
Plain(line) ==
    /\ Range(line) \cap {TAB, "\\", "&"} = {}
    /\ \A r \in Range(Between2(SetToSortSeq({i \in Outside(line, 1, Len(line) + 1) : line[i] \in {";", "|"}}, <), 1, Len(line) + 1)) :
          TargetLast(line, r)
SameReading(user, kernel) ==
    (\A k \in DOMAIN user : \A j \in DOMAIN user[k] : user[k][j] # {}) =>
        \A p \in kernel : user = [k \in DOMAIN p |-> [j \in DOMAIN p[k] |-> {p[k][j]}]]
LineStart == sh.pc = "seg" /\ sh.buf = sh.orig /\ sh.from = Trimmed(sh.buf, 1, Len(sh.buf))[1]
ParsersAgree ==
    LineStart /\ Plain(Front(sh.orig)) => SameReading(UserPipelines(sh.buf, sh.from, sh.to), ParseLine(Front(sh.orig)))

\* A line is read as written: cutting it up in place leaves the text after
\* the command alone, and both shells find the same commands in it.
LinesRead == LaterTextKept /\ ParsersAgree
=============================================================================
