-------------------------------- MODULE Fd --------------------------------
(***************************************************************************)
(* The descriptor table of a process (vfs/mod.rs, FdTable and the          *)
(* functions on it) as operators: a table is the sequence of its slots,    *)
(* fd n is slot n + 1, and a free slot holds NoFile.  An OpenFile is a     *)
(* value: dup, dup2 and fork copy it, so the copies share the inode and    *)
(* not the offset.  A call that fails answers with its error and the       *)
(* table it leaves behind.                                                 *)
(* A definition named after the one that follows it is a mutant, wrong on  *)
(* purpose; nothing uses it.                                               *)
(***************************************************************************)
EXTENDS Integers, Sequences, FiniteSetsExt

CONSTANT MAX_OPEN_FILES

ASSUME MaxOpenAssumption == MAX_OPEN_FILES \in Nat \ {0}

NoFile == [ino |-> 0]

\* What a call answers: the table afterwards and a descriptor or an error.
Good(tab, fd) == [ok |-> TRUE, tab |-> tab, fd |-> fd]
Bad(tab, err) == [ok |-> FALSE, tab |-> tab, err |-> err]

\* get_mut: a negative number, one past the end and a free slot are BadFd.
IsOpen(tab, fd) == fd + 1 \in DOMAIN tab /\ tab[fd + 1] # NoFile

\* insert: the lowest free slot, else a new one at the end.
Insert(tab, file) ==
    LET free == {i \in DOMAIN tab : tab[i] = NoFile}
    IN  CASE free # {} -> Good([tab EXCEPT ![Min(free)] = file], Min(free) - 1)
          [] free = {} /\ Len(tab) < MAX_OPEN_FILES -> Good(Append(tab, file), Len(tab))
          [] OTHER -> Bad(tab, "TableFull")

RemoveFd(tab, fd) ==
    IF IsOpen(tab, fd) THEN Good([tab EXCEPT ![fd + 1] = NoFile], fd) ELSE Bad(tab, "BadFd")

\* dup2 and dup2_in: the table grows by free slots until newfd is in it.
Padded(tab, fd) == IF fd < Len(tab) THEN tab ELSE tab \o [i \in 1..(fd + 1 - Len(tab)) |-> NoFile]

Dup2(tab, oldfd, newfd) ==
    CASE newfd \notin 0..(MAX_OPEN_FILES - 1) \/ ~IsOpen(tab, oldfd) -> Bad(tab, "BadFd")
      [] oldfd = newfd -> Good(tab, newfd)
      [] OTHER -> Good([Padded(tab, newfd) EXCEPT ![newfd + 1] = tab[oldfd + 1]], newfd)

Dup(tab, fd) == IF IsOpen(tab, fd) THEN Insert(tab, tab[fd + 1]) ELSE Bad(tab, "BadFd")

InsertWriteEndLeaks(r, wr) ==
    LET w == Insert(r.tab, wr)
    IN  IF w.ok THEN [ok |-> TRUE, tab |-> w.tab, r |-> r.fd, w |-> w.fd] ELSE Bad(r.tab, w.err)
\* create_pipe: both ends or neither.
InsertWriteEnd(r, wr) ==
    LET w == Insert(r.tab, wr)
    IN  IF w.ok THEN [ok |-> TRUE, tab |-> w.tab, r |-> r.fd, w |-> w.fd]
        ELSE Bad(RemoveFd(r.tab, r.fd).tab, w.err)

InsertPipe(tab, rd, wr) ==
    LET r == Insert(tab, rd) IN IF r.ok THEN InsertWriteEnd(r, wr) ELSE r

\* close_in: a missing descriptor is not an error.
CloseIn(tab, fd) == RemoveFd(tab, fd).tab

\* seed_fd_table: 0 reads and 1 and 2 write the same inode.
Seeded(rd, wr) == <<rd, wr, wr>>
===========================================================================
