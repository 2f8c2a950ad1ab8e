-------------------------------- MODULE Vfs --------------------------------
(***************************************************************************)
(* Processes on the virtual file system (vfs/mod.rs, vfs/file.rs and the   *)
(* file calls of syscall/handler.rs): descriptor tables, working           *)
(* directories and one tree of in-memory file systems joined by mounts.    *)
(* A program's call runs with the trap masked, in one step.  A kernel task *)
(* (a session's shell) calls the same functions with interrupts on between *)
(* their lock sections: its creation of a file and its writes are two      *)
(* steps, and `pend' holds what it carries from the first to the second.   *)
(* Descriptors 0 to 2 of a new process are its console.  FIFO and pipe     *)
(* data is the matter of module Pipe; a byte is the pid that wrote it, 0   *)
(* where a gap was filled.                                                 *)
(***************************************************************************)
EXTENDS Names, Fd, FiniteSets

CONSTANTS Pids,          \* processes; the least one is there from the start
          KernelPids,    \* those that are kernel tasks
          Inos,          \* nodes that can exist at once; 1 and 2 are roots
          Paths,         \* paths the calls are made with
          OpenFlags,     \* open flags: records of BOOLEAN rd, wr, create, append, trunc
          MaxLen,        \* longest file, and largest offset
          UsedFds,       \* descriptors the calls are made with
          MaxCalls       \* calls made in a run

ASSUME VfsAssumption == {1, 2} \subseteq Inos /\ KernelPids \subseteq Pids /\ MaxLen \in Nat /\ MaxCalls \in Nat

VARIABLES fs, mounts, tab, cwd, pend, ok, ncalls
vfsVars == <<fs, mounts, tab, cwd, pend, ok, ncalls>>

Console == [ino |-> -1, off |-> 0, rd |-> TRUE, wr |-> TRUE, append |-> FALSE]
NoTable == <<>>          \* a table never shrinks below its three seeded slots
Idle == [op |-> "idle"]
Boot == Min(Pids)

\* The boot mounts: /m first, as /dev is, and then the root.
VfsInit ==
    /\ fs = [i \in Inos |-> IF i \in {1, 2} THEN DirNode(NoKids) ELSE NoNode]
    /\ mounts = Mount(Mount(<<>>, <<"m">>, 2).v, <<>>, 1).v
    /\ tab = [p \in Pids |-> IF p = Boot THEN Seeded(Console, Console) ELSE NoTable]
    /\ cwd = [p \in Pids |-> <<>>]
    /\ pend = [p \in Pids |-> Idle]
    /\ ok = TRUE
    /\ ncalls = 0

Alive(p) == tab[p] # NoTable
Ready(p) == Alive(p) /\ pend[p] = Idle /\ ncalls < MaxCalls

---------------------------------------------------------------------------
\* Arc counts: a node lives while it has a name, is open, or is held by a
\* call under way.

NamedNodes(f) == {1, 2} \cup UNION {{f[d].kids[n] : n \in DOMAIN f[d].kids} : d \in {i \in Inos : f[i].kind = "Dir"}}
Held(t, pd) ==
    UNION {{t[p][i].ino : i \in DOMAIN t[p]} : p \in {q \in Pids : t[q] # NoTable}}
    \cup {pd[p].ino : p \in {q \in Pids : pd[q] # Idle}}

\* Dropped nodes leave with what they alone name.
Swept(f, t, pd) ==
    LET once == [i \in Inos |-> IF i \in NamedNodes(f) \cup Held(t, pd) THEN f[i] ELSE NoNode]
    IN  [i \in Inos |-> IF i \in NamedNodes(once) \cup Held(t, pd) THEN once[i] ELSE NoNode]

FreeInos == {i \in Inos : fs[i] = NoNode}
NewIno == Min(FreeInos)

\* Bound: a call creates only while a node is left beside those the calls
\* under way will make.
InoLeft == Cardinality(FreeInos) > Cardinality({q \in Pids : pend[q].op = "create"})

\* A call of p leaves the file system f, the tables t and the calls pd.
Step(f, t, pd, okay) ==
    /\ fs' = Swept(f, t, pd)
    /\ tab' = t
    /\ pend' = pd
    /\ ok' = okay
    /\ ncalls' = ncalls + 1
    /\ UNCHANGED mounts

Fails == Step(fs, tab, pend, FALSE) /\ UNCHANGED cwd
SetTab(p, r) == Step(fs, [tab EXCEPT ![p] = r.tab], pend, r.ok) /\ UNCHANGED cwd

---------------------------------------------------------------------------
\* open: find or create the file, refuse a directory for writing, truncate,
\* and only then take a descriptor.

OpenFile(ino, fl) == [ino |-> ino, off |-> 0, rd |-> fl.rd, wr |-> fl.wr, append |-> fl.append]

\* OpenFile::new and the insertion; when the table is full the truncation
\* and the creation stay.
Emptied(f, ino, fl) == IF fl.trunc /\ fl.wr THEN Truncate(f[ino], 0) ELSE Ok(f[ino])

Installed(p, f, ino, node, r) ==
    Step([f EXCEPT ![ino] = node], [tab EXCEPT ![p] = r.tab], [pend EXCEPT ![p] = Idle], r.ok)

OpenNode(p, f, ino, fl) ==
    /\ UNCHANGED cwd
    /\ IF \/ f[ino].kind = "Dir" /\ fl.wr
          \/ ~fl.rd /\ ~fl.wr
          \/ ~Emptied(f, ino, fl).ok
       THEN Step(f, tab, [pend EXCEPT ![p] = Idle], FALSE)
       ELSE Installed(p, f, ino, Emptied(f, ino, fl).v, Insert(tab[p], OpenFile(ino, fl)))

Creating(p, path, fl) == fl.create /\ Resolve(fs, mounts, cwd[p], path) = Err("NotFound")

OpenExisting(p, path, fl) ==
    LET at == Resolve(fs, mounts, cwd[p], path)
    IN  /\ Ready(p) /\ ~Creating(p, path, fl)
        /\ IF at.ok THEN OpenNode(p, fs, at.v, fl) ELSE Fails

\* A program's open creates the file in the same step.
OpenCreate(p, path, fl) ==
    LET made == CreatePath(fs, mounts, cwd[p], path, "File", NewIno)
    IN  /\ Ready(p) /\ p \notin KernelPids /\ Creating(p, path, fl) /\ InoLeft
        /\ IF made.ok THEN OpenNode(p, made.v, NewIno, fl) ELSE Fails

\* A kernel task has resolved the parent and not yet called create on it.
ParentOf(p, path) == LET n == Normalize(cwd[p], path).v IN ResolveNorm(fs, mounts, Front(n))

KernelOpen(p, path, fl) ==
    /\ Ready(p) /\ p \in KernelPids /\ Creating(p, path, fl) /\ InoLeft
    /\ IF ParentOf(p, path).ok
       THEN Step(fs, tab, [pend EXCEPT ![p] = [op |-> "create", ino |-> ParentOf(p, path).v, fl |-> fl,
                                               name |-> Last(Normalize(cwd[p], path).v)]], TRUE)
       ELSE Step(fs, tab, pend, FALSE)
    /\ UNCHANGED cwd

KernelCreate(p) ==
    LET made == Create(fs, pend[p].ino, pend[p].name, "File", NewIno)
    IN  /\ pend[p].op = "create"
        /\ IF made.ok THEN OpenNode(p, made.v, NewIno, pend[p].fl)
           ELSE Step(fs, tab, [pend EXCEPT ![p] = Idle], FALSE) /\ UNCHANGED cwd

---------------------------------------------------------------------------
\* read, write and seek

IsData(p, fd) == IsOpen(tab[p], fd) /\ tab[p][fd + 1] # Console /\ tab[p][fd + 1].ino > 0
                 /\ fs[tab[p][fd + 1].ino].kind # "Fifo"

\* commit_offset: only into a slot that still holds the same inode.
Commit(t, fd, ino, off) ==
    IF IsOpen(t, fd) /\ t[fd + 1].ino = ino THEN [t EXCEPT ![fd + 1].off = off] ELSE t

ReadCall(p, fd, n) ==
    LET file == tab[p][fd + 1]
        got == ReadAt(fs[file.ino], file.off, n)
    IN  /\ Ready(p) /\ IsData(p, fd)
        /\ IF file.rd /\ got.ok
           THEN SetTab(p, Good(Commit(tab[p], fd, file.ino, file.off + Len(got.v)), fd))
           ELSE Fails

\* Where a write lands: at the end for append, else at the offset.
WriteOff(file) == IF file.append THEN Size(fs[file.ino]) ELSE file.off

\* n bytes of p, each of them p.
BytesOf(p, n) == [i \in 1..n |-> p]

WriteDone(p, fd, ino, off, n) ==
    Step([fs EXCEPT ![ino] = WriteAt(@, off, BytesOf(p, n)).v], [tab EXCEPT ![p] = Commit(@, fd, ino, off + n)],
         [pend EXCEPT ![p] = Idle], TRUE)

WriteCall(p, fd, n) ==
    LET file == tab[p][fd + 1]
    IN  /\ Ready(p) /\ IsData(p, fd) /\ p \notin KernelPids
        /\ IF file.wr THEN WriteOff(file) + n <= MaxLen /\ WriteDone(p, fd, file.ino, WriteOff(file), n) /\ UNCHANGED cwd
           ELSE Fails

\* A kernel task has the offset, or the size, and has not yet written.
KernelWrite(p, fd, n) ==
    LET file == tab[p][fd + 1]
    IN  /\ Ready(p) /\ IsData(p, fd) /\ p \in KernelPids /\ file.wr /\ WriteOff(file) + n <= MaxLen
        /\ Step(fs, tab, [pend EXCEPT ![p] = [op |-> "write", ino |-> file.ino, fd |-> fd,
                                               off |-> WriteOff(file), n |-> n]], TRUE)
        /\ UNCHANGED cwd

KernelWritten(p) ==
    /\ pend[p].op = "write"
    /\ WriteDone(p, pend[p].fd, pend[p].ino, pend[p].off, pend[p].n)
    /\ UNCHANGED cwd

\* seek: offset_add refuses a result below zero.
SeekTo(file, whence, d) ==
    CASE whence = "start" -> d
      [] whence = "current" -> file.off + d
      [] whence = "end" -> Size(fs[file.ino]) + d

SeekCall(p, fd, whence, d) ==
    LET to == SeekTo(tab[p][fd + 1], whence, d)
    IN  /\ Ready(p) /\ IsData(p, fd) /\ to <= MaxLen
        /\ IF to < 0 THEN Fails ELSE SetTab(p, Good([tab[p] EXCEPT ![fd + 1].off = to], fd))

---------------------------------------------------------------------------
\* Descriptors

CloseCall(p, fd) == Ready(p) /\ SetTab(p, RemoveFd(tab[p], fd))
Dup2Call(p, oldfd, newfd) == Ready(p) /\ SetTab(p, Dup2(tab[p], oldfd, newfd))
DupCall(p, fd) == Ready(p) /\ p \in KernelPids /\ SetTab(p, Dup(tab[p], fd))

\* create_pipe: the ends of one pipe, told apart by their number.
PipeEnd(n) == [ino |-> -n, off |-> 0, rd |-> n = 2, wr |-> n = 3, append |-> FALSE]
PipeCall(p) == Ready(p) /\ SetTab(p, InsertPipe(tab[p], PipeEnd(2), PipeEnd(3)))

\* clone_fd_table when a child is registered, which inherits the working
\* directory too; dup2_in gives it another standard output before it runs.
Spawn(p, c, fd) ==
    LET t == Dup2(tab[p], fd, 1)
    IN  /\ Ready(p) /\ ~Alive(c) /\ IsOpen(tab[p], fd)
        /\ Step(fs, [tab EXCEPT ![c] = t.tab], pend, TRUE)
        /\ cwd' = [cwd EXCEPT ![c] = cwd[p]]

\* cleanup_process_fds
ExitCall(p) ==
    /\ Ready(p) /\ p # Boot
    /\ Step(fs, [tab EXCEPT ![p] = NoTable], pend, TRUE)
    /\ cwd' = [cwd EXCEPT ![p] = <<>>]

---------------------------------------------------------------------------
\* Names

Make(p, path, kind) ==
    LET made == MakePath(fs, mounts, cwd[p], path, kind, NewIno)
    IN  /\ Ready(p) /\ InoLeft
        /\ IF made.ok THEN Step(made.v, tab, pend, TRUE) /\ UNCHANGED cwd ELSE Fails

UnlinkCall(p, path) ==
    LET gone == UnlinkPath(fs, mounts, cwd[p], path)
    IN  /\ Ready(p)
        /\ IF gone.ok THEN Step(gone.v, tab, pend, TRUE) /\ UNCHANGED cwd ELSE Fails

\* sys_chdir: the target must be a directory; cwd_set keeps its normal form.
Chdir(p, path) ==
    LET at == Resolve(fs, mounts, cwd[p], path)
    IN  /\ Ready(p)
        /\ IF at.ok /\ fs[at.v].kind = "Dir"
           THEN Step(fs, tab, pend, TRUE) /\ cwd' = [cwd EXCEPT ![p] = Normalize(cwd[p], path).v]
           ELSE Fails

Fds == 0..(MAX_OPEN_FILES - 1)

VfsNext ==
    \E p \in Pids :
        \/ KernelCreate(p)
        \/ KernelWritten(p)
        \/ PipeCall(p)
        \/ ExitCall(p)
        \/ \E path \in Paths, fl \in OpenFlags :
              \/ OpenExisting(p, path, fl)
              \/ OpenCreate(p, path, fl)
              \/ KernelOpen(p, path, fl)
        \/ \E path \in Paths :
              \/ UnlinkCall(p, path)
              \/ Chdir(p, path)
              \/ \E kind \in {"Dir", "Fifo"} : Make(p, path, kind)
        \/ \E fd \in UsedFds :
              \/ ReadCall(p, fd, 1)
              \/ WriteCall(p, fd, 1)
              \/ KernelWrite(p, fd, 1)
              \/ CloseCall(p, fd)
              \/ DupCall(p, fd)
              \/ SeekCall(p, fd, "start", 0) \/ SeekCall(p, fd, "current", -1) \/ SeekCall(p, fd, "end", 0)
              \/ \E newfd \in UsedFds : Dup2Call(p, fd, newfd)
              \/ \E c \in Pids : Spawn(p, c, fd)

VfsSpec == VfsInit /\ [][VfsNext]_vfsVars

---------------------------------------------------------------------------
\* Properties

VfsTypeOK ==
    /\ \A i \in Inos : fs[i].kind \in {"none", "File", "Dir", "Fifo"}
    /\ \A i \in Inos : fs[i].kind = "File" => Len(fs[i].data) <= MaxLen
    /\ \A p \in Pids : Alive(p) => Len(tab[p]) <= MAX_OPEN_FILES
    /\ \A p \in Pids : pend[p].op \in {"idle", "create", "write"}
    /\ ok \in BOOLEAN

\* Where a normalized path leads, and the directories a program can name.
At(norm) == ResolveNorm(fs, mounts, norm)
NormPaths == {Normalize(<<>>, q).v : q \in {r \in Paths : IsAbsolute(r)}}
DirPaths == {d \in UNION {{SubSeq(n, 1, k) : k \in 0..Len(n)} : n \in NormPaths} :
                At(d).ok /\ fs[At(d).v].kind = "Dir"}

\* readdir (315-345) merges the names of the mounts below a directory into
\* its own: a program is shown a name exactly when a path through that name
\* resolves, over any tree and any mount.
ListedIffResolves ==
    \A d \in DirPaths : \A name \in {"a", "b", "m"} :
        name \in Readdir(fs, mounts, <<>>, <<"">> \o d \o <<"">>).v <=> At(Append(d, name)).ok

\* normalize joins a relative path to the caller's working directory, ".."
\* included: the caller gets what the joined absolute path would give.
RelativeIsJoined ==
    \A p \in Pids : \A path \in {q \in Paths : ~IsAbsolute(q) /\ q # <<"">>} :
        Resolve(fs, mounts, cwd[p], path) = Resolve(fs, mounts, <<>>, <<"">> \o cwd[p] \o path)

\* Tables stay within MAX_OPEN_FILES, and names mean the same to resolve, to
\* readdir and to normalize, over any tree, mount and working directory.
VfsInv == VfsTypeOK /\ ListedIffResolves /\ RelativeIsJoined

\* Inodes a path leads to.
Reachable(f) == LET Kids(S) == S \cup UNION {{f[d].kids[n] : n \in DOMAIN f[d].kids} : d \in {i \in S : f[i].kind = "Dir"}}
                IN Kids(Kids(Kids({1, 2})))

\* unlink refuses a directory that is not empty (fs/ramfs.rs:194), so a call
\* never takes away more than the one name it was given.
OneNameAtATime == [][Cardinality(Reachable(fs) \ Reachable(fs')) <= 1]_vfsVars

\* A call that fails leaves every descriptor and working directory as it
\* was: create_pipe takes back the read end, a full table refuses without
\* a trace there (the file open has made or emptied by then stays so).
FailedCallKeeps ==
    [][~ok' => /\ cwd' = cwd
               /\ \A p \in Pids, fd \in Fds : IsOpen(tab'[p], fd) <=> IsOpen(tab[p], fd)
               /\ \A p \in Pids, fd \in Fds : IsOpen(tab[p], fd) => tab'[p][fd + 1] = tab[p][fd + 1]]_vfsVars

\* A call does what it was asked and no more: one that fails leaves the
\* tables alone, and unlink takes away one name.
CallsDoNoMore == FailedCallKeeps /\ OneNameAtATime
===========================================================================
