------------------------------- MODULE Names -------------------------------
(***************************************************************************)
(* Paths, mounts and the in-memory file system (vfs/mount.rs, fs/ramfs.rs) *)
(* as operators.  A path as written is the sequence of its parts between   *)
(* slashes, as split('/') gives them: "/a//b/" is <<"", "a", "", "b", "">>,*)
(* the empty path is <<"">>, and it is absolute when it has a first part   *)
(* that is empty and a second one.  A normalized path is the sequence of   *)
(* its names.  A file system is a function `fs' from inode numbers to      *)
(* nodes; a mount table is a sequence of records path, root.               *)
(* A definition named after the one that follows it is a mutant, wrong on  *)
(* purpose; nothing uses it.                                               *)
(***************************************************************************)
EXTENDS Integers, Sequences, SequencesExt

CONSTANT LongNames       \* names longer than MAX_NAME_LEN

Ok(v) == [ok |-> TRUE, v |-> v]
Err(e) == [ok |-> FALSE, e |-> e]

IsAbsolute(path) == Len(path) > 1 /\ path[1] = ""

\* normalize_against: "" and "." go, ".." pops, a long name is refused.
PushPart(comps, part) ==
    CASE part \in {"", "."} -> comps
      [] part = ".." -> IF comps = <<>> THEN comps ELSE Front(comps)
      [] OTHER -> Append(comps, part)

NormalizeAgainst(base, path) ==
    CASE path = <<"">> -> Err("InvalidArgument")
      [] Range(path) \cap LongNames # {} -> Err("NameTooLong")
      [] OTHER -> Ok(FoldLeft(PushPart, IF IsAbsolute(path) THEN <<>> ELSE base, path))

\* normalize: `cwd' is the working directory of the caller's process, or
\* NoCwd for a task that has no process.
NoCwd == <<"no process">>

Normalize(cwd, path) ==
    IF ~IsAbsolute(path) /\ cwd = NoCwd THEN Err("InvalidArgument") ELSE NormalizeAgainst(cwd, path)

SplitParent(norm) ==
    IF norm = <<>> THEN Err("InvalidArgument") ELSE Ok([dir |-> Front(norm), name |-> Last(norm)])

---------------------------------------------------------------------------
\* RamNode

NoNode == [kind |-> "none"]
FileNode(data) == [kind |-> "File", data |-> data]
DirNode(kids) == [kind |-> "Dir", kids |-> kids]
FifoNode == [kind |-> "Fifo"]
NoKids == [n \in {} |-> 0]
NewNode(kind) ==
    CASE kind = "File" -> FileNode(<<>>) [] kind = "Dir" -> DirNode(NoKids) [] kind = "Fifo" -> FifoNode

Size(node) == IF node.kind = "File" THEN Len(node.data) ELSE 0

Lookup(node, name) ==
    CASE node.kind # "Dir" -> Err("NotADirectory")
      [] node.kind = "Dir" /\ name \notin DOMAIN node.kids -> Err("NotFound")
      [] OTHER -> Ok(node.kids[name])

\* read_at and write_at on a file: a read is short at the end, a write past
\* the end fills the gap with zeros.
ReadAt(node, off, n) ==
    IF node.kind = "Dir" THEN Err("IsADirectory")
    ELSE Ok(SubSeq(node.data, off + 1, IF off + n < Len(node.data) THEN off + n ELSE Len(node.data)))

Resized(data, n) == [i \in 1..n |-> IF i <= Len(data) THEN data[i] ELSE 0]

WriteAt(node, off, buf) ==
    LET end == off + Len(buf)
        grown == IF end > Len(node.data) THEN Resized(node.data, end) ELSE node.data
    IN  IF node.kind = "Dir" THEN Err("IsADirectory")
        ELSE Ok(FileNode([i \in DOMAIN grown |-> IF i \in (off + 1)..end THEN buf[i - off] ELSE grown[i]]))

Truncate(node, n) ==
    CASE node.kind = "Dir" -> Err("IsADirectory")
      [] node.kind = "Fifo" -> Ok(node)
      [] OTHER -> Ok(FileNode(Resized(node.data, n)))

\* create: a fresh node under a free name.
Create(fs, dir, name, kind, ino) ==
    CASE fs[dir].kind # "Dir" -> Err("NotADirectory")
      [] fs[dir].kind = "Dir" /\ name \in DOMAIN fs[dir].kids -> Err("AlreadyExists")
      [] OTHER -> Ok([fs EXCEPT ![dir].kids = [n \in DOMAIN @ \cup {name} |-> IF n = name THEN ino ELSE @[n]],
                                ![ino] = NewNode(kind)])

\* unlink: a directory must be empty; whoever has the node open keeps it.
Unlink(fs, dir, name) ==
    LET found == Lookup(fs[dir], name)
    IN  CASE ~found.ok -> found
          [] found.ok /\ fs[found.v].kind = "Dir" /\ DOMAIN fs[found.v].kids # {} -> Err("Busy")
          [] OTHER -> Ok([fs EXCEPT ![dir].kids = [n \in DOMAIN @ \ {name} |-> @[n]]])

---------------------------------------------------------------------------
\* Mounts

\* mount: one file system per path.
Mount(mounts, path, root) ==
    IF \E i \in DOMAIN mounts : mounts[i].path = path THEN Err("AlreadyExists")
    ELSE Ok(Append(mounts, [path |-> path, root |-> root]))

\* resolve: the longest mounted prefix, then a lookup per remaining name.
BestMount(mounts, norm) ==
    LET fits == {i \in DOMAIN mounts : IsPrefix(mounts[i].path, norm)}
    IN  IF fits = {} THEN Err("NotFound")
        ELSE Ok(mounts[CHOOSE i \in fits : \A j \in fits : Len(mounts[j].path) <= Len(mounts[i].path)])

Walk(fs, root, names) ==
    FoldLeft(LAMBDA at, name : IF at.ok THEN Lookup(fs[at.v], name) ELSE at, Ok(root), names)

ResolveFrom(fs, m, norm) ==
    IF m.ok THEN Walk(fs, m.v.root, SubSeq(norm, Len(m.v.path) + 1, Len(norm))) ELSE m

ResolveNorm(fs, mounts, norm) == ResolveFrom(fs, BestMount(mounts, norm), norm)

Resolve(fs, mounts, cwd, path) ==
    LET norm == Normalize(cwd, path) IN IF norm.ok THEN ResolveNorm(fs, mounts, norm.v) ELSE norm

ChildMountsAll(mounts, norm) == {Last(m.path) : m \in {k \in Range(mounts) : k.path # <<>>}}
\* child_mounts: the names of the file systems mounted directly below.
ChildMounts(mounts, norm) ==
    {Last(m.path) : m \in {k \in Range(mounts) : k.path # <<>> /\ Front(k.path) = norm}}

\* readdir: the node's own names and those of the mounts below it.
ReaddirNorm(fs, mounts, norm, at) ==
    CASE ~at.ok -> at
      [] at.ok /\ fs[at.v].kind # "Dir" -> Err("NotADirectory")
      [] OTHER -> Ok(DOMAIN fs[at.v].kids \cup ChildMounts(mounts, norm))

Readdir(fs, mounts, cwd, path) ==
    LET norm == Normalize(cwd, path)
    IN  IF norm.ok THEN ReaddirNorm(fs, mounts, norm.v, ResolveNorm(fs, mounts, norm.v)) ELSE norm

\* create_path: the parent must resolve to a directory.
CreateIn(fs, at, name, kind, ino) == IF at.ok THEN Create(fs, at.v, name, kind, ino) ELSE at

CreatePath(fs, mounts, cwd, path, kind, ino) ==
    LET norm == Normalize(cwd, path)
        at == IF norm.ok THEN SplitParent(norm.v) ELSE norm
    IN  IF at.ok THEN CreateIn(fs, ResolveNorm(fs, mounts, at.v.dir), at.v.name, kind, ino) ELSE at

\* mkdir and mkfifo: refused when the path already names something.
MakePath(fs, mounts, cwd, path, kind, ino) ==
    IF Resolve(fs, mounts, cwd, path).ok THEN Err("AlreadyExists")
    ELSE CreatePath(fs, mounts, cwd, path, kind, ino)

\* vfs::unlink: the last name as written must not be "." or "..".
LastName(path) ==
    LET named == {i \in DOMAIN path : \A j \in (i + 1)..Len(path) : path[j] = ""}
        last == CHOOSE i \in named : \A j \in named : i <= j
    IN  path[last]

UnlinkAt(fs, mounts, at) ==
    LET dir == IF at.ok THEN ResolveNorm(fs, mounts, at.v.dir) ELSE at
    IN  IF dir.ok THEN Unlink(fs, dir.v, at.v.name) ELSE dir

UnlinkPath(fs, mounts, cwd, path) ==
    LET norm == Normalize(cwd, path)
    IN  CASE LastName(path) \in {".", ".."} -> Err("InvalidArgument")
          [] LastName(path) \notin {".", ".."} /\ ~norm.ok -> norm
          [] OTHER -> UnlinkAt(fs, mounts, SplitParent(norm.v))
===========================================================================
