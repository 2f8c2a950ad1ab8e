----------------------------- MODULE FileTools -----------------------------
(***************************************************************************)
(* The programs of userland/apps that change files: cp, mv, ln, rm, touch, *)
(* tee, dd, truncate, shred, mktemp, logger, logrotate, split, csplit and  *)
(* patch, one system call per step.  Every state is one in which the       *)
(* program can be killed or the power can go, so what an invariant says of *)
(* the files survives that; any call that touches a file can also fail.    *)
(*                                                                         *)
(* A program is the sequence of calls it still has to make, `calls', and   *)
(* what it keeps, `p'.  A call says what becomes of the program when it    *)
(* fails.  Opening, reading and writing are those of the kernel's files    *)
(* (Names, Fd): a regular file takes a write whole or not at all, a hole   *)
(* before it reads as zeros, a read gives what there is up to the size     *)
(* asked for, and standard input gives any part of it.  A definition named *)
(* after the one that follows it is a mutant, wrong on purpose; nothing    *)
(* uses it.                                                                *)
(***************************************************************************)
EXTENDS Text

CONSTANTS Tasks,      \* the runs checked: program, arguments, files, standard input
          READ,       \* bytes a reading loop asks for (256 to 1024)
          ALL,        \* bytes a program that reads once asks for (2048, 4096)
          LONG,       \* bytes of a line (80 in patch, 256 in csplit and logger)
          ROWS,       \* lines patch can hold (64)
          NAMES,      \* suffixes split has (676)
          LOG_MAX,    \* size from which a log is rotated (4096)
          KILO,       \* what a k after a number stands for (1024)
          MaxFaults   \* calls that fail in one run (bound)
ASSUME FileToolsAssumption ==
    /\ {READ, ALL, LONG, ROWS, NAMES, LOG_MAX, KILO} \subseteq Nat \ {0}
    /\ MaxFaults \in Nat

VARIABLES task, files, p, calls, faults
fileVars == <<task, files, p, calls, faults>>

Regular(data) == [kind |-> "file", data |-> data]
Folder == [kind |-> "dir", data |-> <<>>]

---------------------------------------------------------------------------
\* Calls, and what a failure does: "stop" ends the program with 1 and "quit"
\* with 2; "halt" ends it as it is; "next" goes on; "skip" goes on with the
\* next file, "mark" too, with 1; "undo" is mv's; "none" and "eof" take it for an
\* empty input.

Call(op, name, set, data, fail) == [op |-> op, name |-> name, set |-> set, data |-> data, n |-> 0, fail |-> fail]
OpenIn(name, fail) == Call("in", name, {}, <<>>, fail)
OpenOut(name, set, fail) == Call("out", name, set, <<>>, fail)
Load(n, fail) == [Call("read", "", {}, <<>>, fail) EXCEPT !.n = n]
Measure == Call("size", "", {}, <<>>, "next")
SkipIn(n) == [Call("skip", "", {}, <<>>, "next") EXCEPT !.n = n]
Rewind(n) == [Call("rewind", "", {}, <<>>, "next") EXCEPT !.n = n]
Store(data, fail) == Call("put", "", {}, data, fail)
Echo(data) == Call("say", "", {}, data, "next")
Erase(name, fail) == Call("erase", name, {}, <<>>, fail)
MakeDir(name, fail) == Call("mkdir", name, {}, <<>>, fail)

\* What follows the first call that is no read, write or measure.
NextFile(rest) ==
    LET stay == {i \in 0..Len(rest) : \A j \in 1..i : rest[j].op \in {"read", "put", "size"}}
    IN  Drop(rest, Max(stay))


\* What a program keeps: o, its options; in and pos, out and at, what it
\* reads and writes and where; said, its standard output; the rest is its own.
Fresh(o) == [o |-> o, code |-> 0, in |-> "stdin", pos |-> 0, out |-> "stdout", at |-> 0, said |-> <<>>,
             n |-> 0, k |-> 0, line |-> <<>>, cut |-> FALSE, name |-> ""]

---------------------------------------------------------------------------
\* Options: the exit status when there is nothing to do, or what they say.

DdDefault == [bs |-> KILO \div 2, ibs |-> 0, obs |-> 0, count |-> -1, skip |-> 0, seek |-> 0]
NoOptions == [code |-> -1, set |-> {}, n |-> -1, m |-> -1, src |-> "", dst |-> "", want |-> "", names |-> <<>>, dd |-> DdDefault]
Ends(o, code) == [o EXCEPT !.code = code]
Number == ("0" :> 0) @@ ("1" :> 1) @@ ("2" :> 2) @@ ("3" :> 3) @@ ("1k" :> KILO)
Glued == ("-s2" :> "2") @@ ("-sx" :> "x")
IsNumber(a) == a \in DOMAIN Number
\* Only dd and truncate know a k.
IsCount(a) == IsNumber(a) /\ a # "1k"
Leading(a) == a \in {"-h", "-s", "-f", "-v", "-sf", "-c", "-a", "-u", "-z", "-n", "-d", "-b", "-l", "-i", "-x"}

\* Options anywhere, some with a value; a value that is no number is ignored.
Anywhere(flags, valued, o, a) ==
    CASE o.code >= 0 -> o
      [] o.code < 0 /\ o.want # "" ->
            [o EXCEPT !.want = "", !.n = IF o.want \in {"-n", "-b"} /\ IsCount(a) THEN Number[a] ELSE @,
                      !.m = IF o.want = "-l" /\ IsCount(a) THEN Number[a] ELSE @]
      [] o.code < 0 /\ o.want = "" /\ a = "-h" /\ "-h" \in flags -> Ends(o, 0)
      [] o.code < 0 /\ o.want = "" /\ a \in valued -> [o EXCEPT !.want = a]
      [] o.code < 0 /\ o.want = "" /\ Leading(a) /\ a \notin valued /\ ~(a = "-h" /\ "-h" \in flags) ->
            [o EXCEPT !.set = @ \cup ({a} \cap flags)]
      [] OTHER -> [o EXCEPT !.names = Append(@, a)]
ScanAll(args, flags, valued) == FoldLeft(LAMBDA o, a : Anywhere(flags, valued, o, a), NoOptions, args)

\* Options first, up to the first argument that is none; truncate's -s must
\* have a number.
Sized(o, a) == IF IsNumber(a) THEN [o EXCEPT !.n = Number[a]] ELSE Ends(o, 1)
Valued_(o, opt, a) ==
    CASE opt = "-s" -> Sized(o, a)
      [] opt = "-f" -> [o EXCEPT !.dst = a]
      [] opt = "-n" -> [o EXCEPT !.m = IF IsCount(a) THEN Max({Number[a], 1}) ELSE @]
RECURSIVE Leads(_, _, _, _)
Leads(o, args, flags, valued) ==
    CASE o.code >= 0 -> o
      [] o.code < 0 /\ args # <<>> /\ Head(args) = "-h" -> Ends(o, 0)
      [] o.code < 0 /\ args # <<>> /\ Head(args) \in flags -> Leads([o EXCEPT !.set = @ \cup {Head(args)}], Tail(args), flags, valued)
      [] o.code < 0 /\ args # <<>> /\ Head(args) \in valued /\ Len(args) > 1 ->
            Leads(Valued_(o, Head(args), args[2]), Drop(args, 2), flags, valued)
      [] o.code < 0 /\ args = <<"-s">> /\ "-s" \in valued -> Ends(o, 1)
      [] o.code < 0 /\ args # <<>> /\ "-s" \in valued /\ Head(args) \in DOMAIN Glued ->
            Leads(Sized(o, Glued[Head(args)]), Tail(args), flags, valued)
      [] OTHER -> [o EXCEPT !.names = args]
Few(o, least) == IF o.code < 0 /\ Len(o.names) < least THEN Ends(o, 1) ELSE o

\* dd: name=value.  A bs that is no number ends it, the others are ignored.
Operand == ("if=f" :> <<"if", "f">>) @@ ("if=none" :> <<"if", "none">>) @@ ("if=d" :> <<"if", "d">>)
           @@ ("of=g" :> <<"of", "g">>) @@ ("of=d" :> <<"of", "d">>)
           @@ ("bs=2" :> <<"bs", "2">>) @@ ("bs=3" :> <<"bs", "3">>) @@ ("bs=0" :> <<"bs", "0">>) @@ ("bs=x" :> <<"bs", "x">>)
           @@ ("ibs=1" :> <<"ibs", "1">>) @@ ("obs=3" :> <<"obs", "3">>) @@ ("count=1" :> <<"count", "1">>)
           @@ ("count=0" :> <<"count", "0">>) @@ ("skip=1" :> <<"skip", "1">>) @@ ("seek=1" :> <<"seek", "1">>)
DdSet(o, key, v) ==
    CASE key = "if" -> [o EXCEPT !.src = v]
      [] key = "of" -> [o EXCEPT !.dst = v]
      [] key = "bs" /\ ~IsNumber(v) -> Ends(o, 1)
      [] key \in {"bs", "ibs", "obs"} /\ IsNumber(v) -> IF Number[v] > 0 THEN [o EXCEPT !.dd[key] = Number[v]] ELSE o
      [] OTHER -> [o EXCEPT !.dd[key] = Number[v]]
DdOperand(o, a) ==
    CASE o.code >= 0 -> o
      [] o.code < 0 /\ a = "-h" -> Ends(o, 0)
      [] o.code < 0 /\ a \in DOMAIN Operand -> DdSet(o, Operand[a][1], Operand[a][2])
      [] OTHER -> [o EXCEPT !.set = @ \cup {a}]
DdSizes(o) == [o EXCEPT !.dd.ibs = IF @ > 0 THEN @ ELSE o.dd.bs, !.dd.obs = IF @ > 0 THEN @ ELSE o.dd.bs]

\* The arguments of each program.
Plain(args) == [NoOptions EXCEPT !.names = args]
CpArgs(args) == IF Len(args) # 2 THEN Ends(NoOptions, 1) ELSE Plain(args)
MvArgs(args) == IF Len(args) < 2 \/ args[1] = args[2] THEN Ends(NoOptions, 1) ELSE Plain(args)
TeeArgs(args) ==
    IF Len(args) > 1 /\ args[1] = "-a" THEN [Plain(Tail(args)) EXCEPT !.set = {"-a"}] ELSE Few(Plain(args), 1)
LnArgs(args) == IF Len(args) < 2 THEN Ends(NoOptions, 1) ELSE Few(Leads(NoOptions, args, {"-s", "-f", "-v", "-sf"}, {}), 2)
HasSize(o) == IF o.code < 0 /\ o.n < 0 THEN Ends(o, 1) ELSE Few(o, 1)
TruncateArgs(args) == HasSize(Leads(NoOptions, args, {"-c"}, {"-s"}))
LoggerArgs(args) ==
    CASE args = <<>> \/ args = <<"-s">> -> Ends(NoOptions, 1)
      [] args # <<>> /\ args[1] = "-h" -> Ends(NoOptions, 0)
      [] Len(args) > 1 /\ args[1] = "-s" -> [Plain(Tail(args)) EXCEPT !.set = {"-s"}]
      [] OTHER -> Plain(args)
CsplitArgs(args) ==
    IF Len(args) < 2 THEN Ends(NoOptions, 1) ELSE Few(Leads([NoOptions EXCEPT !.dst = "xx", !.m = 2], args, {}, {"-f", "-n"}), 1)
PatchArgs(args) ==
    CASE Len(args) < 2 -> Ends(NoOptions, 2)
      [] Len(args) >= 2 /\ args[1] = "-i" -> [NoOptions EXCEPT !.src = args[2], !.dst = IF Len(args) > 2 THEN args[3] ELSE ""]
      [] OTHER -> [NoOptions EXCEPT !.src = args[2], !.dst = args[1]]

FileScanned(prog, args) ==
    CASE prog = "cp" -> CpArgs(args)
      [] prog = "mv" -> MvArgs(args)
      [] prog \in {"rm", "touch"} -> Few(Plain(args), 1)
      [] prog = "tee" -> TeeArgs(args)
      [] prog = "ln" -> LnArgs(args)
      [] prog = "dd" -> DdSizes(FoldLeft(DdOperand, NoOptions, args))
      [] prog = "truncate" -> TruncateArgs(args)
      [] prog = "shred" -> Few(ScanAll(args, {"-u", "-z", "-v", "-h"}, {"-n"}), 1)
      [] prog = "mktemp" -> ScanAll(args, {"-d"}, {})
      [] prog = "logger" -> LoggerArgs(args)
      [] prog = "logrotate" -> ScanAll(args, {"-f", "-v", "-h"}, {})
      [] prog = "split" -> Few(ScanAll(args, {"-h"}, {"-b", "-l"}), 1)
      [] prog = "csplit" -> CsplitArgs(args)
      [] prog = "patch" -> PatchArgs(args)

---------------------------------------------------------------------------
\* The first calls of each program.

New == {"create", "trunc"}
Each(names, Op(_)) == Concat([i \in DOMAIN names |-> Op(names[i])])
If(cond, q) == IF cond THEN q ELSE <<>>
LastOr(names, default) == IF names = <<>> THEN default ELSE Last(names)

DdFlags(o) == IF "conv=notrunc" \in o.set \/ o.dd.seek > 0 THEN {"create"} ELSE New
DdMore(o, n) == IF o.dd.count >= 0 /\ n >= o.dd.count THEN <<>> ELSE <<Load(Min({o.dd.ibs, READ}), "halt")>>
DdCalls(o) ==
    If(o.src # "", <<OpenIn(o.src, "stop")>>) \o If(o.dst # "", <<OpenOut(o.dst, DdFlags(o), "stop")>>)
    \o If(o.dd.skip > 0, <<SkipIn(o.dd.skip * o.dd.ibs)>>) \o If(o.dd.seek > 0, <<Rewind(o.dd.seek * o.dd.obs)>>)
    \o DdMore(o, 0)

TruncateFile(o, name) ==
    LET make == IF "-c" \in o.set THEN {} ELSE {"create"}
    IN  IF o.n = 0 THEN <<OpenOut(name, make \cup {"trunc"}, "mark")>>
        ELSE <<OpenOut(name, make \cup {"rw"}, "mark"), Load(READ, "eof")>>

\* A symbolic link is a file that holds the path; there are no others, so
\* without -s the status is 1, after what -f removes.
LnCalls(o) ==
    If({"-f", "-sf"} \cap o.set # {}, <<Erase(o.names[2], "next")>>)
    \o If({"-s", "-sf"} \cap o.set # {}, <<OpenOut(o.names[2], New, "stop"), Store(<<o.names[1]>>, "next")>>)

\* logger: a stamp and the words, cut so that the newline always fits.
Entry(words) ==
    LET spaced == Concat([i \in DOMAIN words |-> IF i = 1 THEN <<words[i]>> ELSE <<SP, words[i]>>])
    IN  Append(Take(<<"[t]">> \o spaced, LONG - 2), NL)

\* The pieces of csplit, 0 and 1, in as many digits as it was told to use.
PartName(o, k) == o.dst \o <<<<"0", "1">>, <<"00", "01">>, <<"000", "001">>>>[o.m][k + 1]

CpCalls(o) == <<OpenIn(o.names[1], "stop"), OpenOut(o.names[2], New, "stop"), Load(READ, "stop")>>
\* The flags 2 | 4 | 8 of mv and tee open for writing and do nothing else.
MvCalls(o) == <<OpenIn(o.names[1], "stop"), OpenOut(o.names[2], {}, "stop"), Load(READ, "undo")>>
TeeCalls(o) == <<OpenOut(o.names[1], IF "-a" \in o.set THEN {"end"} ELSE {}, "stop"), Load(READ, "halt")>>
RmCalls(o) == Each(o.names, LAMBDA f : <<Erase(f, "mark")>>)
TouchCalls(o) == Each(o.names, LAMBDA f : <<OpenOut(f, {"create"}, "mark")>>)
ShredCalls(o) == Each(o.names, LAMBDA f : <<OpenOut(f, {"rw"}, "mark"), Measure>>)
\* The name is the template with random letters in it: any name.
MktempCalls(o) == IF "-d" \in o.set THEN <<MakeDir(task.rand, "stop")>> ELSE <<OpenOut(task.rand, New, "stop")>>
LoggerCalls(o) ==
    If("-s" \in o.set, <<Echo(Entry(o.names))>>) \o <<OpenOut("log", {"create", "end"}, "stop"), Store(Entry(o.names), "next")>>
LogrotateCalls(o) == <<OpenIn(LastOr(o.names, "log"), "halt"), Measure>>
SplitCalls(o) == <<OpenIn(o.names[1], "stop"), Load(ALL, "eof")>>
CsplitCalls(o) == <<OpenIn(o.names[1], "stop"), OpenOut(PartName(o, 0), New, "stop"), Load(READ, "eof")>>
PatchCalls(o) == <<OpenIn(o.src, "quit"), Load(ALL, "eof")>>

Planned(prog, o) ==
    CASE prog = "cp" -> CpCalls(o)
      [] prog = "mv" -> MvCalls(o)
      [] prog = "tee" -> TeeCalls(o)
      [] prog = "rm" -> RmCalls(o)
      [] prog = "touch" -> TouchCalls(o)
      [] prog = "ln" -> LnCalls(o)
      [] prog = "dd" -> DdCalls(o)
      [] prog = "truncate" -> Each(o.names, LAMBDA f : TruncateFile(o, f))
      [] prog = "shred" -> ShredCalls(o)
      [] prog = "mktemp" -> MktempCalls(o)
      [] prog = "logger" -> LoggerCalls(o)
      [] prog = "logrotate" -> LogrotateCalls(o)
      [] prog = "split" -> SplitCalls(o)
      [] prog = "csplit" -> CsplitCalls(o)
      [] prog = "patch" -> PatchCalls(o)

---------------------------------------------------------------------------
\* What a program does with what it read: it keeps `p', and makes the calls
\* `q' before the ones it had left.  An empty piece is the end of the input.

Reply(pp, q) == [p |-> pp, q |-> q]
Exit(code) == [p EXCEPT !.code = code]

CopyTookIgnores(piece, c, fail, atEnd) ==
    IF piece = <<>> THEN Reply(p, atEnd) ELSE Reply(p, <<Store(piece, "next"), c>>)
CopyTook(piece, c, fail, atEnd) ==
    IF piece = <<>> THEN Reply(p, atEnd) ELSE Reply(p, <<Store(piece, fail), c>>)

\* dd: a block is read up to the buffer's size at a time and ends at a short
\* read; blocks are counted, and none is copied past the count.
DdTook(piece, want, o) ==
    LET cur == p.k + Len(piece)
        block == Reply([p EXCEPT !.n = @ + 1, !.k = 0], DdMore(o, p.n + 1))
    IN  CASE piece = <<>> /\ p.k = 0 -> Reply(p, <<>>)
          [] piece = <<>> /\ p.k > 0 -> block
          [] piece # <<>> /\ (Len(piece) < want \/ cur = o.dd.ibs) -> [block EXCEPT !.q = <<Store(piece, "halt")>> \o @]
          [] OTHER -> Reply([p EXCEPT !.k = cur], <<Store(piece, "halt"), Load(Min({o.dd.ibs - cur, READ}), "halt")>>)

\* Writes of n bytes, a buffer at a time.
Filled(n, b, fail) ==
    [i \in 1..((n + READ - 1) \div READ) |-> Store([j \in 1..Min({READ, n - (i - 1) * READ}) |-> b], fail)]
\* truncate finds the size by reading, and only ever adds to a file.
TruncateTook(piece, c, o) ==
    IF piece # <<>> THEN Reply([p EXCEPT !.n = @ + Len(piece)], <<c>>)
    ELSE Reply([p EXCEPT !.at = p.n], If(p.n < o.n, Filled(o.n - p.n, "nul", "skip")))

Overwrite(len, b) == <<Rewind(0)>> \o Filled(len, b, "skip")
ShredSized(len, o) ==
    Reply(p, Concat([i \in 1..(IF o.n >= 0 THEN o.n ELSE 3) |-> Overwrite(len, "rnd")])
             \o If("-z" \in o.set, Overwrite(len, "nul")) \o If("-u" \in o.set, <<Erase(p.out, "mark")>>))

\* logrotate: the backup is written before the log is emptied.
LogSized(len, o) ==
    Reply(p, If(len >= LOG_MAX \/ "-f" \in o.set, <<Load(ALL, "eof")>>))
LogTook(piece, log) ==
    Reply(p, <<OpenOut(log \o ".1", New, "skip")>> \o If(piece # <<>>, <<Store(piece, "next")>>) \o <<OpenOut(log, {"trunc"}, "next")>>)

\* split: pieces of n bytes, or of m lines.
Suffix == <<"aa", "ab", "ba", "bb", "ca", "cb">>
PieceName(o, k) == (IF Len(o.names) > 1 THEN Last(o.names) ELSE "x") \o Suffix[(k % NAMES) + 1]
ByBytes(o, piece, n) ==
    Concat([i \in 1..((Len(piece) + n - 1) \div n) |->
              <<OpenOut(PieceName(o, i - 1), New, "skip"), Store(SubSeq(piece, (i - 1) * n + 1, Min({i * n, Len(piece)})), "next")>>])
SplitLine(o, t, line, m) ==
    LET more == t.lines >= m
        k == IF more THEN t.k + 1 ELSE t.k
    IN  [q |-> t.q \o If(more, <<OpenOut(PieceName(o, k), New, "skip")>>) \o <<Store(line, "next"), Store(<<NL>>, "next")>>,
         k |-> k, lines |-> IF more THEN 1 ELSE t.lines + 1]
ByLines(o, piece, m) ==
    FoldLeft(LAMBDA t, line : SplitLine(o, t, line, m),
             [q |-> <<OpenOut(PieceName(o, 0), New, "skip")>>, k |-> 0, lines |-> 0], Lines(piece)).q
SplitSize(o) == IF o.n >= 0 THEN o.n ELSE IF o.m >= 0 THEN 0 ELSE KILO \div 2
SplitTook(piece, o) ==
    CASE piece = <<>> -> Reply(p, <<>>)
      [] piece # <<>> /\ SplitSize(o) > 0 -> Reply(p, ByBytes(o, piece, SplitSize(o)))
      [] OTHER -> Reply(p, If(IsUtf8(piece), ByLines(o, piece, IF o.m >= 0 THEN o.m ELSE 10)))

\* csplit: one split, before the line of that number or the first after the
\* first one that has the pattern; a line's end that does not fit is lost.
Spec_(o) == IF Len(o.names) > 1 THEN o.names[2] ELSE ""
Pattern == ("/b/" :> <<"b">>) @@ ("//" :> <<>>)
SplitsHere(o, line, num) ==
    CASE IsCount(Spec_(o)) -> num = Number[Spec_(o)]
      [] Spec_(o) \in DOMAIN Pattern -> Pattern[Spec_(o)] # <<>> /\ Has(OrEmpty(line), Pattern[Spec_(o)])
      [] OTHER -> FALSE
CsplitByte(t, b, o) ==
    LET line == IF Len(t.p.line) < LONG THEN Append(t.p.line, b) ELSE t.p.line
        cut == ~t.p.cut /\ SplitsHere(o, line, t.p.n + 1) /\ t.p.n + 1 > 1
    IN  IF b # NL THEN [t EXCEPT !.p.line = line]
        ELSE Reply([t.p EXCEPT !.line = <<>>, !.n = @ + 1, !.cut = @ \/ cut],
                   t.q \o If(cut, <<OpenOut(PartName(o, 1), New, "stop")>>) \o <<Store(line, "next")>>)
CsplitTook(piece, c, o) ==
    IF piece = <<>> THEN Reply([p EXCEPT !.line = <<>>], If(p.line # <<>>, <<Store(p.line, "next")>>))
    ELSE \* the rest of the file after what this piece gives
         LET t == FoldLeft(LAMBDA u, b : CsplitByte(u, b, o), Reply(p, <<>>), piece) IN [t EXCEPT !.q = Append(@, c)]

\* patch: a + line replaces the line its hunk names, or is added at the end;
\* a - line does nothing.
Row_(line) == Take(line, LONG)
PatchAdds(t, line) ==
    IF Len(t.ls) < ROWS THEN [ls |-> Append(t.ls, Row_(line)), cur |-> Len(t.ls) + 1] ELSE t
PatchLine(t, line) ==
    CASE line # <<>> /\ Head(line) = "@@" -> [t EXCEPT !.cur = Max({Digit[line[2]], 1}) - 1]
      [] line # <<>> /\ Head(line) = "+ " ->
            IF t.cur < Len(t.ls) THEN [ls |-> [t.ls EXCEPT ![t.cur + 1] = Row_(Tail(line))], cur |-> t.cur + 1]
            ELSE PatchAdds(t, Tail(line))
      [] OTHER -> t
Patched(lines, diff) == FoldLeft(PatchLine, [ls |-> lines, cur |-> 0], diff).ls
LoadedLines(piece) == FoldLeft(LAMBDA ls, l : Append(ls, Row_(l)), <<>>, Take(Lines(OrEmpty(piece)), ROWS))
Target(o, diff) ==
    LET at == {i \in DOMAIN diff : diff[i] # <<>> /\ Head(diff[i]) = "+++"}
    IN  IF o.dst # "" THEN o.dst ELSE IF at = {} THEN "" ELSE diff[Min(at)][2]
PatchTook(piece, o) ==
    CASE ~p.cut /\ piece = <<>> -> Reply(Exit(1), <<>>)
      [] ~p.cut /\ piece # <<>> /\ (~IsUtf8(piece) \/ Target(o, Lines(piece)) = "") -> Reply(Exit(2), <<>>)
      [] ~p.cut /\ piece # <<>> /\ IsUtf8(piece) /\ Target(o, Lines(piece)) # "" ->
            Reply([p EXCEPT !.cut = TRUE, !.line = piece, !.name = Target(o, Lines(piece))],
                  <<OpenIn(Target(o, Lines(piece)), "none"), Load(ALL, "eof")>>)
      [] OTHER -> Reply(p, <<OpenOut(p.name, New, "stop")>>
                           \o Each(Patched(LoadedLines(piece), Lines(p.line)), LAMBDA l : <<Store(l, "next"), Store(<<NL>>, "next")>>))

Took(prog, piece, c, o) ==
    CASE prog = "cp" -> CopyTook(piece, c, "stop", <<>>)
      [] prog = "mv" -> CopyTook(piece, c, "undo", <<Erase(o.names[1], "stop")>>)
      [] prog = "tee" -> IF piece = <<>> THEN Reply(p, <<>>) ELSE Reply(p, <<Echo(piece), Store(piece, "next"), c>>)
      [] prog = "dd" -> DdTook(piece, c.n, o)
      [] prog = "truncate" -> TruncateTook(piece, c, o)
      [] prog = "logrotate" -> LogTook(piece, LastOr(o.names, "log"))
      [] prog = "split" -> SplitTook(piece, o)
      [] prog = "csplit" -> CsplitTook(piece, c, o)
      [] prog = "patch" -> PatchTook(piece, o)

---------------------------------------------------------------------------
\* The calls.

FileInit ==
    /\ task \in Tasks /\ files = task.files /\ faults = 0
    /\ \E o \in {FileScanned(task.prog, task.args)} :
        /\ p = [Fresh(o) EXCEPT !.code = IF o.code >= 0 THEN o.code
                                         ELSE IF task.prog = "ln" /\ {"-s", "-sf"} \cap o.set = {} THEN 1 ELSE 0]
        /\ calls = IF o.code >= 0 THEN <<>> ELSE Planned(task.prog, o)

Op(op) == calls # <<>> /\ Head(calls).op = op
This == Head(calls)
IsDir(name) == name \in DOMAIN files /\ files[name].kind = "dir"

\* What a failed call makes of the program.
Failed(c) ==
    /\ p' = [p EXCEPT !.code = CASE c.fail \in {"stop", "mark", "undo"} -> 1 [] c.fail = "quit" -> 2 [] OTHER -> @,
                      !.in = IF c.fail = "none" THEN "" ELSE @]
    /\ calls' = CASE c.fail \in {"stop", "quit", "halt"} -> <<>>
                  [] c.fail \in {"mark", "skip"} -> NextFile(Tail(calls))
                  [] c.fail = "undo" -> <<Erase(p.o.names[2], "next")>>
                  [] OTHER -> Tail(calls)
    /\ UNCHANGED <<task, files>>
Fault == faults < MaxFaults /\ faults' = faults + 1
Passed(pp) == p' = pp /\ calls' = Tail(calls) /\ UNCHANGED <<task, faults>>

DoOpenIn ==
    /\ Op("in")
    /\ \/ This.name \in DOMAIN files /\ Passed([p EXCEPT !.in = This.name, !.pos = 0]) /\ UNCHANGED files
       \/ This.name \notin DOMAIN files /\ Failed(This) /\ UNCHANGED faults
       \/ Fault /\ Failed(This)

\* Opening for writing finds the file or makes it, and empties it if asked.
CanOpen(c) ==
    IF c.name \in DOMAIN files THEN ~IsDir(c.name) ELSE "create" \in c.set /\ c.name # "none/f"
AfterOpen(c) ==
    IF c.name \notin DOMAIN files \/ "trunc" \in c.set THEN (c.name :> Regular(<<>>)) @@ files ELSE files
DoOpenOut ==
    /\ Op("out")
    /\ \/ /\ CanOpen(This) /\ files' = AfterOpen(This)
          /\ Passed([p EXCEPT !.out = This.name,
                              !.at = IF "end" \in This.set /\ This.name \in DOMAIN files THEN Len(files[This.name].data) ELSE 0,
                              !.in = IF "rw" \in This.set THEN This.name ELSE @,
                              !.pos = IF "rw" \in This.set THEN 0 ELSE @, !.n = IF task.prog = "truncate" THEN 0 ELSE @])
       \/ ~CanOpen(This) /\ Failed(This) /\ UNCHANGED faults
       \/ Fault /\ Failed(This)

DoMakeDir ==
    /\ Op("mkdir")
    /\ \/ This.name \notin DOMAIN files /\ files' = (This.name :> Folder) @@ files /\ Passed(p)
       \/ This.name \in DOMAIN files /\ Failed(This) /\ UNCHANGED faults
       \/ Fault /\ Failed(This)

\* A directory is never empty here, so it is not removed.
DoErase ==
    /\ Op("erase")
    /\ \/ This.name \in DOMAIN files /\ ~IsDir(This.name) /\ files' = Restrict(files, DOMAIN files \ {This.name}) /\ Passed(p)
       \/ (This.name \notin DOMAIN files \/ IsDir(This.name)) /\ Failed(This) /\ UNCHANGED faults
       \/ Fault /\ Failed(This)

SourceText == CASE p.in = "stdin" -> task.stdin [] p.in = "" -> <<>> [] OTHER -> files[p.in].data
Ahead == Drop(SourceText, p.pos)
\* A regular file gives all it has up to n bytes, standard input any part.
Given_(n) ==
    CASE Ahead = <<>> -> {<<>>}
      [] Ahead # <<>> /\ p.in = "stdin" -> {Take(Ahead, k) : k \in 1..Min({n, Len(Ahead)})}
      [] OTHER -> {Take(Ahead, n)}
Hand(piece) ==
    \E r \in {Took(task.prog, piece, This, p.o)} :
        p' = [r.p EXCEPT !.pos = p.pos + Len(piece)] /\ calls' = r.q \o Tail(calls) /\ UNCHANGED <<task, files>>
ReadFault == IF This.fail = "eof" THEN Hand(<<>>) ELSE Failed(This)
DoRead ==
    /\ Op("read")
    /\ \/ ~IsDir(p.in) /\ (\E piece \in Given_(This.n) : Hand(piece)) /\ UNCHANGED faults
       \/ IsDir(p.in) /\ ReadFault /\ UNCHANGED faults
       \/ Fault /\ ReadFault

DoSeek ==
    \/ Op("rewind") /\ Passed([p EXCEPT !.at = This.n]) /\ UNCHANGED files
    \/ Op("skip") /\ Passed([p EXCEPT !.pos = IF p.in = "stdin" THEN @ ELSE This.n]) /\ UNCHANGED files
    \/ /\ Op("size")
       /\ \E r \in {IF task.prog = "shred" THEN ShredSized(Len(files[p.out].data), p.o) ELSE LogSized(Len(files[p.in].data), p.o)} :
            p' = r.p /\ calls' = r.q \o Tail(calls)
       /\ UNCHANGED <<task, files, faults>>

Written(data, at, bytes) ==
    [i \in 1..Max({Len(data), at + Len(bytes)}) |->
        IF i > at /\ i <= at + Len(bytes) THEN bytes[i - at] ELSE IF i <= Len(data) THEN data[i] ELSE "nul"]
DoWrite ==
    \/ Op("say") /\ Passed([p EXCEPT !.said = @ \o This.data]) /\ UNCHANGED files
    \/ /\ Op("put") /\ p.out = "stdout"
       /\ Passed([p EXCEPT !.said = @ \o This.data]) /\ UNCHANGED files
    \/ /\ Op("put") /\ p.out # "stdout"
       /\ \/ /\ files' = [files EXCEPT ![p.out].data = IF This.data = <<>> THEN @ ELSE Written(@, p.at, This.data)]
             /\ Passed([p EXCEPT !.at = @ + Len(This.data)])
          \/ Fault /\ Failed(This)

FileNext == DoOpenIn \/ DoOpenOut \/ DoMakeDir \/ DoErase \/ DoRead \/ DoSeek \/ DoWrite

---------------------------------------------------------------------------
\* Properties.

Ended(prog) == calls = <<>> /\ task.prog = prog /\ p.o.code < 0
NameOf(i) == p.o.names[i]
Data(fs, name) == IF name \in DOMAIN fs THEN fs[name].data ELSE <<>>

FileTypeOK ==
    /\ p.code \in 0..2 /\ faults \in 0..MaxFaults
    /\ \A f \in DOMAIN files : files[f].kind = "dir" => files[f].data = <<>>
    /\ Len(p.line) <= IF task.prog = "patch" THEN ALL ELSE LONG

\* cp does not report success for a copy that is not one: with status 0 the
\* destination is the source, whatever call failed on the way.
CpHonest ==
    Ended("cp") /\ p.code = 0 /\ NameOf(1) # NameOf(2) => files[NameOf(2)].data = Data(task.files, NameOf(1))

\* mv loses nothing of the file it moves: at every step, so also when it is
\* killed there or a call fails, the source is whole, or the destination
\* begins with all of it.
MvKeepsSource ==
    task.prog = "mv" /\ p.o.code < 0 /\ NameOf(1) \in DOMAIN task.files =>
        \E old \in {Data(task.files, NameOf(1))} :
            \/ NameOf(1) \in DOMAIN files /\ files[NameOf(1)].data = old
            \/ NameOf(2) \in DOMAIN files /\ IsPrefix(old, files[NameOf(2)].data)

\* dd writes the blocks it was asked for where it was asked to: the input
\* from block skip on, no more than count blocks, from block seek of the
\* output; what the output had elsewhere stays unless it was truncated.
DdWindow ==
    Ended("dd") /\ p.o.dst \in DOMAIN files /\ p.o.src \in DOMAIN task.files /\ p.code = 0 /\ faults = 0
        /\ task.files[p.o.src].kind = "file" =>
        \E d \in {p.o.dd} :
        \E in \in {Drop(Data(task.files, p.o.src), d.skip * d.ibs)},
           old \in {IF "conv=notrunc" \in p.o.set \/ d.seek > 0 THEN Data(task.files, p.o.dst) ELSE <<>>} :
        \E bytes \in {IF d.count >= 0 THEN Take(in, d.count * d.ibs) ELSE in} :
            files[p.o.dst].data = IF bytes = <<>> THEN old ELSE Written(old, d.seek * d.obs, bytes)

\* truncate loses no byte of a file it is to make longer, killed at any step,
\* and the file ends as long as asked for, or as it was if that is longer.
\* Only a failed read, which it takes for the end, makes it write over data.
TruncateGrows ==
    task.prog = "truncate" /\ p.o.code < 0 /\ p.o.n > 0 /\ faults = 0 =>
        \A f \in Range(p.o.names) \cap DOMAIN files : files[f].kind = "file" =>
            /\ IsPrefix(Data(task.files, f), files[f].data)
            /\ calls = <<>> => Len(files[f].data) = Max({p.o.n, Len(Data(task.files, f))})

\* shred leaves no byte of a file it reports shredded, and the size as it was.
ShredOverwrites ==
    Ended("shred") /\ p.code = 0 /\ faults = 0 /\ (p.o.n # 0 \/ "-z" \in p.o.set) =>
        \A f \in Range(p.o.names) :
            IF "-u" \in p.o.set THEN f \notin DOMAIN files
            ELSE /\ Len(files[f].data) = Len(task.files[f].data)
                 /\ Range(files[f].data) \subseteq {"rnd", "nul"}

\* Rotating a log that fits one read loses no entry: at every step its
\* contents are in the log or in the backup, if no call fails.
LogKept ==
    task.prog = "logrotate" /\ p.o.code < 0 /\ faults = 0 =>
        \E log \in {LastOr(p.o.names, "log")} :
        \E old \in {Take(Data(task.files, log), ALL)} :
            IsPrefix(old, Data(files, log)) \/ Data(files, log \o ".1") = old

\* The pieces split and csplit make, in order, are the text they read: by
\* bytes exactly, by lines with a newline at the end of every one, as long
\* as there are names for them; csplit's, but for the ends of long lines.
PiecesJoin ==
    /\ Ended("split") /\ faults = 0 /\ NameOf(1) \in DOMAIN task.files =>
        \E text \in {Take(Data(task.files, NameOf(1)), ALL)}, got \in {Concat([k \in 1..NAMES |-> Data(files, PieceName(p.o, k - 1))])} :
            /\ SplitSize(p.o) > 0 /\ Len(text) <= NAMES * SplitSize(p.o) => got = text
            /\ SplitSize(p.o) = 0 /\ IsUtf8(text) /\ Len(Lines(text)) < NAMES => got = Printed(Lines(text))
    /\ Ended("csplit") /\ faults = 0 /\ p.code = 0 =>
        \E parts \in {Split(Data(task.files, NameOf(1)), {NL})} :
        \E ends \in {[i \in DOMAIN parts |-> IF i < Len(parts) THEN Append(parts[i], NL) ELSE parts[i]]} :
            Data(files, PartName(p.o, 0)) \o Data(files, PartName(p.o, 1)) = Concat([i \in DOMAIN ends |-> Take(ends[i], LONG)])

\* patch undoes nothing diff said: applied to the first of two files with no
\* more lines than the second, what diff printed makes it the second.
PatchMakesNew ==
    Ended("patch") /\ p.code = 0 /\ faults = 0 /\ "g" \in DOMAIN task.files /\ p.name = "f"
        /\ Len(Lines(Data(task.files, "f"))) <= Len(Lines(Data(task.files, "g"))) =>
        files["f"].data = Printed(Lines(Data(task.files, "g")))

\* A program changes no file but the ones it is to write, whatever fails:
\* mv's source goes only when the copy is complete, see MvKeepsSource.
MayChange ==
    CASE task.prog \in {"cp", "ln"} -> {NameOf(2)}
      [] task.prog = "mv" -> {NameOf(1), NameOf(2)}
      [] task.prog = "tee" -> {NameOf(1)}
      [] task.prog = "dd" -> {p.o.dst}
      [] task.prog \in {"rm", "touch", "truncate", "shred"} -> Range(p.o.names)
      [] task.prog = "mktemp" -> {task.rand}
      [] task.prog = "logger" -> {"log"}
      [] task.prog = "logrotate" -> {LastOr(p.o.names, "log"), LastOr(p.o.names, "log") \o ".1"}
      [] task.prog = "split" -> {PieceName(p.o, k) : k \in 0..(NAMES - 1)}
      [] task.prog = "csplit" -> {PartName(p.o, 0), PartName(p.o, 1)}
      [] task.prog = "patch" -> {p.name}
OthersKept ==
    p.o.code < 0 =>
        \A f \in DOMAIN files \cup DOMAIN task.files :
            f \notin MayChange => f \in DOMAIN files \cap DOMAIN task.files /\ files[f] = task.files[f]

\* A program that changes files leaves them as it promises at its exit, with
\* a call failing anywhere, and says so when it could not; no other file is
\* touched.
FilesKept ==
    /\ FileTypeOK /\ CpHonest /\ MvKeepsSource /\ DdWindow /\ TruncateGrows
    /\ ShredOverwrites /\ LogKept /\ PiecesJoin /\ PatchMakesNew /\ OthersKept
=============================================================================
