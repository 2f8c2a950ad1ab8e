------------------------------ MODULE Filters ------------------------------
(***************************************************************************)
(* The text programs of userland/apps that read their input in a loop:     *)
(* cat, wc, head, tail, grep, look, uniq, cut, tr, strings, sort, fmt, tac.*)
(* One run of one program: its arguments, then every input in turn, read   *)
(* in pieces.  A read from standard input returns what a pipe or the       *)
(* console happens to hold; a regular file fills the buffer.  All of them  *)
(* keep state from one piece to the next, and all of them cut lines to the *)
(* buffer they have.                                                       *)
(* A definition named after the one that follows it is a mutant, wrong on  *)
(* purpose; nothing uses it.                                               *)
(***************************************************************************)
EXTENDS Text

CONSTANTS LINE_BUF,      \* bytes of a line kept (96 to 256 in the programs)
          MAX_LINES,     \* lines tail, sort and tac keep (32 and 128)
          MAX_BUF,       \* bytes tac keeps (8192)
          CHUNK,         \* bytes a read asks for (128 to 512)
          I32_MAX,       \* where sort's numbers saturate
          Jobs           \* records prog, args, fs: the runs to look at

ASSUME FiltersAssumption == {LINE_BUF, MAX_LINES, MAX_BUF, CHUNK, I32_MAX} \subseteq Nat \ {0}

VARIABLES job, todo, left, s, phase
vars == <<job, todo, left, s, phase>>

---------------------------------------------------------------------------
\* Arguments.  What a scan makes of them: the option record of the program,
\* `files' to read (none: standard input), and `exit' for a run that ends
\* at once.

ArgNum == ("" :> 0) @@ ("0" :> 0) @@ ("1" :> 1) @@ ("2" :> 2) @@ ("3" :> 3)
GluedCount == ("-n1" :> 1) @@ ("-n2" :> 2)
GluedField == ("-f2" :> 2) @@ ("-f0" :> 0)
GluedDelim == "-d-" :> "-"
GluedWidth == ("-w3" :> 3) @@ ("-3" :> 3)
Patterns == ("" :> <<>>) @@ ("a" :> <<"a">>) @@ ("ab" :> <<"a", "b">>)
Dash(a) ==
    a \in DOMAIN GluedCount \cup DOMAIN GluedField \cup DOMAIN GluedDelim \cup DOMAIN GluedWidth
          \cup {"-", "-n", "-r", "-rn", "-c", "-d", "-cd", "-f", "-s", "-w", "-h", "-z"}

Options(prog) ==
    [prog |-> prog, files |-> <<>>, exit |-> -1, want |-> "", set |-> {}, n |-> 10, pat |-> "", delim |-> TAB,
     start |-> 1]
Named(a) == IF a = "-" THEN "stdin" ELSE a
Help(o) == [o EXCEPT !.exit = 0]

\* head and tail look for -n in the first argument only, and take it for a
\* file name when no number follows.
CountArgs(o, args) ==
    CASE Len(args) > 0 /\ args[1] \in DOMAIN GluedCount ->
            [o EXCEPT !.n = GluedCount[args[1]], !.files = Tail(args)]
      [] Len(args) > 1 /\ args[1] = "-n" /\ args[2] \in DOMAIN ArgNum ->
            [o EXCEPT !.n = ArgNum[args[2]], !.files = Drop(args, 2)]
      [] OTHER -> [o EXCEPT !.files = args]

FirstFile(o, a) == IF Dash(a) \/ o.files # <<>> THEN o ELSE [o EXCEPT !.files = <<a>>]

\* uniq and sort: flags anywhere, the first other argument is the file.
FlagScan(o, a) ==
    CASE o.exit >= 0 -> o
      [] o.exit < 0 /\ a = "-h" -> Help(o)
      [] o.exit < 0 /\ a \in {"-c", "-d", "-r", "-n"} -> [o EXCEPT !.set = @ \cup {a}]
      [] o.exit < 0 /\ a = "-cd" -> [o EXCEPT !.set = @ \cup {"-c", "-d"}]
      [] o.exit < 0 /\ a = "-rn" -> [o EXCEPT !.set = @ \cup {"-r", "-n"}]
      [] OTHER -> FirstFile(o, a)

Positive(n, default) == IF n > 0 THEN n ELSE default

CutScan(o, a) ==
    CASE o.exit >= 0 -> o
      [] o.exit < 0 /\ o.want = "-d" -> [o EXCEPT !.want = "", !.delim = a]
      [] o.exit < 0 /\ o.want = "-f" -> [o EXCEPT !.want = "", !.n = Positive(ArgNum[a], @)]
      [] o.exit < 0 /\ o.want = "" /\ a \in {"-d", "-f"} -> [o EXCEPT !.want = a]
      [] o.exit < 0 /\ o.want = "" /\ a \in DOMAIN GluedField -> [o EXCEPT !.n = Positive(GluedField[a], @)]
      [] o.exit < 0 /\ o.want = "" /\ a \in DOMAIN GluedDelim -> [o EXCEPT !.delim = GluedDelim[a]]
      [] o.exit < 0 /\ o.want = "" /\ a = "-h" -> Help(o)
      [] OTHER -> FirstFile(o, a)

\* strings -n N: at least one; what is no number leaves the default.
StringsScan(o, a) ==
    CASE o.want = "-n" -> [o EXCEPT !.want = "", !.n = IF a \in DOMAIN ArgNum THEN Max({1, ArgNum[a]}) ELSE @]
      [] o.want = "" /\ a = "-n" -> [o EXCEPT !.want = a]
      [] OTHER -> FirstFile(o, a)

\* fmt: the files start after the last option it knows, or at the first
\* argument that is none; an option it does not know is taken for a file
\* when nothing it knows follows.
FmtScan(args, o, i) ==
    LET a == args[i]
        known(p) == [p EXCEPT !.start = i + 1]
    IN  CASE o.exit >= 0 \/ o.want = "files" -> o
          [] o.want = "-w" /\ a \in DOMAIN ArgNum \ {""} -> known([o EXCEPT !.want = "", !.n = Positive(ArgNum[a], 75)])
          [] o.want # "files" /\ a = "-h" -> Help(o)
          [] o.want # "files" /\ a = "-s" -> known([o EXCEPT !.want = "", !.set = {"-s"}])
          [] o.want # "files" /\ a = "-w" -> [o EXCEPT !.want = "-w"]
          [] o.want # "files" /\ a \in DOMAIN GluedWidth -> known([o EXCEPT !.want = "", !.n = GluedWidth[a]])
          [] ~Dash(a) /\ ~(o.want = "-w" /\ a \in DOMAIN ArgNum \ {""}) -> [o EXCEPT !.want = "files", !.start = i]
          [] OTHER -> [o EXCEPT !.want = ""]     \* "-", or an option it does not know
FmtArgs(o, args) ==
    LET r == FoldLeft(LAMBDA p, i : FmtScan(args, p, i), [o EXCEPT !.n = 75], [i \in DOMAIN args |-> i])
        rest == Drop(args, r.start - 1)
    IN  [r EXCEPT !.files = [i \in DOMAIN rest |-> Named(rest[i])]]

\* look STRING [FILE]; the dictionary is /etc/passwd.
LookScan(o, a) ==
    CASE o.exit >= 0 -> o
      [] o.exit < 0 /\ a = "-h" -> Help(o)
      [] o.exit < 0 /\ a = "-f" -> [o EXCEPT !.set = {"-f"}]
      [] o.exit < 0 /\ a \notin {"-h", "-f"} /\ o.want = "" -> [o EXCEPT !.want = "file", !.pat = a]
      [] OTHER -> [o EXCEPT !.files = IF @ = <<>> THEN <<a>> ELSE @]
LookArgs(o, args) ==
    LET r == FoldLeft(LookScan, o, args)
    IN  CASE r.exit >= 0 -> r
          [] r.exit < 0 /\ r.want = "" -> [r EXCEPT !.exit = 1]
          [] OTHER -> [r EXCEPT !.files = IF @ = <<>> THEN <<"/etc/passwd">> ELSE @]

TacScan(o, a) ==
    CASE a = "-h" -> Help(o)
      [] a # "-h" /\ (~Dash(a) \/ a = "-") -> [o EXCEPT !.files = Append(@, Named(a))]
      [] OTHER -> o

GrepArgs(o, args) ==
    IF args = <<>> THEN [o EXCEPT !.exit = 2] ELSE [o EXCEPT !.pat = args[1], !.files = Tail(args)]

\* tr -d SET1, or tr SET1 SET2; it reads standard input only.
TrArgs(o, args) ==
    CASE args = <<>> \/ args = <<"-d">> -> [o EXCEPT !.exit = 1]
      [] args # <<>> /\ args[1] = "-h" -> Help(o)
      [] Len(args) > 1 /\ args[1] = "-d" -> [o EXCEPT !.set = {"-d"}, !.pat = args[2]]
      [] OTHER -> [o EXCEPT !.pat = args[1], !.want = IF Len(args) > 1 THEN args[2] ELSE ""]

Scanned(prog, args) ==
    LET o == Options(prog)
    IN  CASE prog \in {"cat", "wc"} -> [o EXCEPT !.files = args]
          [] prog \in {"head", "tail"} -> CountArgs(o, args)
          [] prog \in {"uniq", "sort"} -> FoldLeft(FlagScan, o, args)
          [] prog = "cut" -> FoldLeft(CutScan, [o EXCEPT !.n = 1], args)
          [] prog = "strings" -> FoldLeft(StringsScan, [o EXCEPT !.n = 4], args)
          [] prog = "fmt" -> FmtArgs(o, args)
          [] prog = "tac" -> FoldLeft(TacScan, o, args)
          [] prog = "grep" -> GrepArgs(o, args)
          [] prog = "look" -> LookArgs(o, args)
          [] prog = "tr" -> TrArgs(o, args)

---------------------------------------------------------------------------
\* The programs.  `s' holds what a run keeps: out, what it has written;
\* code, its exit status; line, the line it is collecting; the rest is the
\* program's own.

Start(o) ==
    [o |-> o, out |-> <<>>, code |-> Max({0, o.exit}), line |-> <<>>, stop |-> FALSE, in_word |-> FALSE,
     lines |-> 0, words |-> 0, bytes |-> 0, prev |-> <<>>, count |-> 0,
     kept |-> <<>>, cur |-> <<>>, own |-> <<>>, any |-> FALSE, nums |-> <<>>, tot |-> <<0, 0, 0>>, seen |-> <<>>]

\* What the function that reads one input has in its locals.
Locals(t) ==
    [t EXCEPT !.line = <<>>, !.stop = FALSE, !.in_word = FALSE, !.lines = 0, !.words = 0, !.bytes = 0,
              !.prev = <<>>, !.count = 0, !.kept = <<>>]

Out(t, bytes) == [t EXCEPT !.out = @ \o bytes]
Println(t, line) == Out(t, Append(line, NL))
Keep(line, b) == IF Len(line) < LINE_BUF THEN Append(line, b) ELSE line

WcByte(t, b) ==
    [t EXCEPT !.lines = IF b = NL THEN @ + 1 ELSE @,
              !.words = IF b \notin Blank /\ ~t.in_word THEN @ + 1 ELSE @,
              !.bytes = @ + 1,
              !.in_word = b \notin Blank]
WcEnd(t) ==
    LET c == <<t.lines, t.words, t.bytes>>
    IN  [t EXCEPT !.nums = Append(@, c), !.tot = [k \in 1..3 |-> @[k] + c[k]]]

\* head writes up to the newline that completes the count, and returns.
HeadByte(t, b) ==
    CASE t.stop -> t
      [] ~t.stop /\ b = NL -> [Out(t, <<b>>) EXCEPT !.lines = @ + 1, !.stop = t.lines + 1 >= t.o.n]
      [] OTHER -> Out(t, <<b>>)

\* tr: a set is bytes, ranges x-y and escapes.
TrSet == ("a-b" :> <<"a", "-", "b">>) @@ ("\\na" :> <<"\\", "n", "a">>) @@ ("a-" :> <<"a", "-">>)
Unescape(b) == CASE b = "n" -> NL [] b = "r" -> CR [] b = "t" -> TAB [] OTHER -> b

InSet(b, set) ==
    LET N == Len(set)
        From[i \in 1..(N + 3)] ==
            CASE i > N -> FALSE
              [] i + 2 <= N /\ set[i + 1] = "-" ->
                    (Rank(set[i]) <= Rank(b) /\ Rank(b) <= Rank(set[i + 2])) \/ From[i + 3]
              [] i < N /\ set[i + 1] # "-" /\ set[i] = "\\" -> b = Unescape(set[i + 1]) \/ From[i + 2]
              [] OTHER -> b = set[i] \/ From[i + 1]
    IN  From[1]

\* Only the two case ranges are translated; any other pair copies.
Upper == ("a" :> "A") @@ ("b" :> "B")
Lower == ("A" :> "a") @@ ("B" :> "b")
Translate(b, set1, set2) ==
    CASE set1 = "a-z" /\ set2 = "A-Z" /\ b \in DOMAIN Upper -> Upper[b]
      [] set1 = "A-Z" /\ set2 = "a-z" /\ b \in DOMAIN Lower -> Lower[b]
      [] OTHER -> b

TrByte(t, b) ==
    CASE "-d" \notin t.o.set -> Out(t, <<Translate(b, t.o.pat, t.o.want)>>)
      [] "-d" \in t.o.set /\ ~InSet(b, TrSet[t.o.pat]) -> Out(t, <<b>>)
      [] OTHER -> t

\* strings: runs of printable bytes, at least n of them kept.
Printable(b) == b \notin {NL, CR, "c3", "a9"}
StringsEnd(t) == IF Len(t.line) >= t.o.n THEN Println(t, t.line) ELSE t
StringsByte(t, b) ==
    IF Printable(b) THEN [t EXCEPT !.line = Keep(@, b)] ELSE [StringsEnd(t) EXCEPT !.line = <<>>]

---------------------------------------------------------------------------
\* Programs that work line by line

GrepLine(t, line) ==
    LET prefix == IF Len(t.o.files) > 1 THEN <<Last(t.seen), ":">> ELSE <<>>
    IN  IF Has(line, Patterns[t.o.pat]) THEN [Println(t, prefix \o line) EXCEPT !.any = TRUE] ELSE t

\* look: lines that start with the string.
ToLower(text) == [i \in DOMAIN text |-> IF text[i] \in DOMAIN Lower THEN Lower[text[i]] ELSE text[i]]
LookLine(t, line) ==
    LET key(x) == IF "-f" \in t.o.set THEN ToLower(x) ELSE x
    IN  IF line # <<>> /\ IsUtf8(line) /\ IsPrefix(key(Patterns[t.o.pat]), key(line))
        THEN [Println(t, line) EXCEPT !.any = TRUE] ELSE t

\* tail: a ring of the last MAX_LINES lines.
TailLine(t, line) ==
    [t EXCEPT !.kept = [k \in DOMAIN @ \cup {t.count % MAX_LINES} |-> IF k = t.count % MAX_LINES THEN line ELSE @[k]],
              !.count = @ + 1]
TailEnd(t) ==
    LET take == Min({t.o.n, t.count, MAX_LINES})
    IN  Out(t, Printed([i \in 1..take |-> t.kept[(t.count - take + i - 1) % MAX_LINES]]))

\* uniq: count repetitions of the line before.
EmitLine(t) ==
    CASE t.count = 0 \/ ("-d" \in t.o.set /\ t.count < 2) -> t
      [] OTHER -> Println(t, (IF "-c" \in t.o.set THEN <<ToString(t.count), SP>> ELSE <<>>) \o OrEmpty(t.prev))
UniqLine(t, line) ==
    IF t.count > 0 /\ line = t.prev
    THEN [t EXCEPT !.count = @ + 1]
    ELSE [EmitLine(t) EXCEPT !.prev = line, !.count = 1]

CutLine(t, line) ==
    LET parts == Split(OrEmpty(line), {t.o.delim})
    IN  Println(t, IF t.o.n <= Len(parts) THEN parts[t.o.n] ELSE <<>>)

\* sort keeps the first MAX_LINES lines and sorts them by exchanging
\* neighbours.
SortLine(t, line) == IF Len(t.kept) < MAX_LINES THEN [t EXCEPT !.kept = Append(@, line)] ELSE t
ParseNum(line) ==
    LET u == TrimStart(OrEmpty(line))
        neg == u # <<>> /\ u[1] = "-"
        v == IF neg THEN Tail(u) ELSE u
        digits == Take(v, Max({i \in 0..Len(v) : \A j \in 1..i : v[j] \in DOMAIN Digit}))
        val == FoldLeft(LAMBDA n, b : Min({I32_MAX, Min({I32_MAX, n * 10}) + Digit[b]}), 0, digits)
    IN  IF neg THEN -val ELSE val
LineLess(a, b, numeric) == IF numeric THEN ParseNum(a) < ParseNum(b) ELSE Less(OrEmpty(a), OrEmpty(b))
ShouldSwap(a, b, set) == IF "-r" \in set THEN LineLess(a, b, "-n" \in set) ELSE LineLess(b, a, "-n" \in set)
Pass(lines, n, set) ==
    FoldLeft(LAMBDA ls, j : IF ShouldSwap(ls[j], ls[j + 1], set)
                            THEN [ls EXCEPT ![j] = ls[j + 1], ![j + 1] = ls[j]] ELSE ls,
             lines, [j \in 1..n |-> j])
BubbleSort(lines, set) ==
    FoldLeft(LAMBDA ls, i : Pass(ls, Len(ls) - i, set), lines, [i \in 1..(Len(lines) - 1) |-> i])
SortEnd(t) == LET ls == BubbleSort(t.kept, t.o.set) IN Out(t, Printed([i \in DOMAIN ls |-> OrEmpty(ls[i])]))

\* fmt: cur is the line under construction; it outlives the input.
FlushLine(t) == IF t.cur # <<>> THEN [Println(t, t.cur) EXCEPT !.cur = <<>>] ELSE t
AddWord(t, w) ==
    CASE t.cur = <<>> -> [t EXCEPT !.cur = Take(w, LINE_BUF)]
      [] t.cur # <<>> /\ Len(t.cur) + 1 + Len(w) <= Min({t.o.n, LINE_BUF}) -> [t EXCEPT !.cur = @ \o <<SP>> \o w]
      [] OTHER -> [FlushLine(t) EXCEPT !.cur = Take(w, LINE_BUF)]
FmtLine(t, line) ==
    CASE Words(line) = <<>> -> Println(FlushLine(t), <<>>)
      [] Words(line) # <<>> /\ "-s" \in t.o.set ->
            IF Len(line) <= t.o.n THEN Println(t, line) ELSE FlushLine(FoldLeft(AddWord, t, Words(line)))
      [] OTHER -> FoldLeft(AddWord, t, Words(line))

OnLine(t, line) ==
    CASE t.o.prog = "grep" -> GrepLine(t, line)
      [] t.o.prog = "look" -> LookLine(t, line)
      [] t.o.prog = "tail" -> TailLine(t, line)
      [] t.o.prog = "uniq" -> UniqLine(t, line)
      [] t.o.prog = "cut"  -> CutLine(t, line)
      [] t.o.prog = "sort" -> SortLine(t, line)
      [] t.o.prog = "fmt"  -> FmtLine(t, line)
ByLine == {"grep", "look", "tail", "uniq", "cut", "sort", "fmt"}

LineByte(t, b) ==
    CASE b = NL -> [OnLine(t, t.line) EXCEPT !.line = <<>>]
      [] b = CR /\ t.o.prog \in {"cut", "fmt"} -> t
      [] OTHER -> [t EXCEPT !.line = Keep(@, b)]
LastLine(t) == IF t.line # <<>> THEN OnLine(t, t.line) ELSE t

\* tac: the lines of what it could keep, last first, each ended.
TacEnd(t) ==
    LET parts == Split(t.prev, {NL})
        lines == Take(IF Last(parts) = <<>> THEN Front(parts) ELSE parts, MAX_LINES)
    IN  Out(t, Printed(Reverse(lines)))

Byte(t, b) ==
    CASE t.o.prog = "wc" -> WcByte(t, b)
      [] t.o.prog = "head" -> HeadByte(t, b)
      [] t.o.prog = "tr" -> TrByte(t, b)
      [] t.o.prog = "strings" -> StringsByte(t, b)
      [] t.o.prog = "tac" -> [t EXCEPT !.prev = Append(@, b)]
      [] t.o.prog \in ByLine -> LineByte(t, b)

AtEof(t) ==
    CASE t.o.prog = "wc" -> WcEnd(t)
      [] t.o.prog = "tail" -> TailEnd(LastLine(t))
      [] t.o.prog = "uniq" -> EmitLine(LastLine(t))
      [] t.o.prog = "sort" -> SortEnd(LastLine(t))
      [] t.o.prog = "strings" -> StringsEnd(t)
      [] t.o.prog = "tac" -> TacEnd(t)
      [] t.o.prog \in {"grep", "look", "cut", "fmt"} -> LastLine(t)
      [] OTHER -> t

---------------------------------------------------------------------------
\* One run.  A name without a text is a file that cannot be opened; "d" is
\* a directory, which opens and cannot be read.

Filter == {"cat", "wc", "head", "tr", "strings", "tac"} \cup ByLine
SingleFile == {"uniq", "sort", "cut", "strings", "look", "base64", "base32", "tsort"}
Source == Head(todo)
TextOf(name) == job.fs[name]

Begin(o) ==
    /\ s = Start(o)
    /\ todo = IF o.exit >= 0 THEN <<>> ELSE IF o.files = <<>> THEN <<"stdin">> ELSE o.files
    /\ left = <<>>
    /\ phase = IF o.exit >= 0 THEN "exit" ELSE "next"
Init == job \in Jobs /\ Begin(Scanned(job.prog, job.args))

\* The next input opens, its reader's locals are fresh.  Standard input is
\* at its end when it is named a second time.
Open ==
    /\ phase = "next" /\ todo # <<>> /\ Source \in DOMAIN job.fs \cup {"d"}
    /\ left' = IF Source = "d" \/ (Source = "stdin" /\ "stdin" \in Range(s.seen)) THEN <<>> ELSE TextOf(Source)
    /\ s' = [Locals(s) EXCEPT !.seen = Append(@, Source)]
    /\ phase' = "read"
    /\ UNCHANGED <<job, todo>>

\* It does not: a message, and the next one, or the end.
Missing(prog) == CASE prog \in {"sort", "look"} -> 2 [] prog \in {"head", "tail", "fmt", "grep", "column"} -> 0 [] OTHER -> 1
OpenFails ==
    /\ phase = "next" /\ todo # <<>> /\ Source \notin DOMAIN job.fs \cup {"d"}
    /\ s' = [Out(s, <<MSG>>) EXCEPT !.code = Max({@, Missing(job.prog)})]
    /\ todo' = Tail(todo)
    /\ phase' = IF job.prog \in SingleFile THEN "exit" ELSE "next"
    /\ UNCHANGED <<job, left>>

\* A read returns some bytes, and the program works on this piece.
Room == IF job.prog = "tac" THEN MAX_BUF - Len(s.prev) ELSE CHUNK
Full(n) == n = Min({Len(left), Room})
ReadWith(n, work(_, _)) ==
    /\ phase = "read" /\ left # <<>> /\ ~s.stop
    /\ n <= Min({Len(left), Room})
    /\ Source = "stdin" \/ Full(n)
    /\ s' = work(s, Take(left, n))
    /\ left' = Drop(left, n)
    /\ phase' = IF job.prog = "cat" THEN "write" ELSE "read"
    /\ UNCHANGED <<job, todo>>
PieceFresh(t, piece) ==
    IF job.prog = "cat" THEN [t EXCEPT !.line = piece] ELSE FoldLeft(Byte, [t EXCEPT !.in_word = FALSE], piece)
Piece(t, piece) == IF job.prog = "cat" THEN [t EXCEPT !.line = piece] ELSE FoldLeft(Byte, t, piece)
Read(n) == job.prog \in Filter /\ ReadWith(n, Piece)

\* cat repeats a write until all of the piece is taken: a pipe takes what it
\* has room for.
Write(n) ==
    /\ phase = "write" /\ n <= Len(s.line) /\ ~s.any
    /\ job.sink = "pipe" \/ n = Len(s.line)
    /\ s' = [Out(s, Take(s.line, n)) EXCEPT !.line = Drop(@, n)]
    /\ phase' = IF n = Len(s.line) THEN "read" ELSE "write"
    /\ UNCHANGED <<job, todo, left>>

\* A read returns 0, or the program reads no more.  cat and wc tell an error
\* from the end of the input.
Close(t) ==
    /\ s' = t
    /\ todo' = Tail(todo)
    /\ left' = <<>>
    /\ phase' = "next"
    /\ UNCHANGED job
EndWith(end(_)) ==
    /\ phase = "read"
    /\ left = <<>> \/ s.stop \/ Room = 0
    /\ Close(end(s))
ReadEnds == phase = "read" /\ job.prog \in Filter /\ Source # "d" /\ EndWith(AtEof)
ReadFails ==
    /\ phase = "read" /\ Source = "d" /\ job.prog \in Filter
    /\ Close(IF job.prog \in {"cat", "wc"} THEN [Out(s, <<MSG>>) EXCEPT !.code = 1] ELSE AtEof(s))

\* The reader of the pipe is gone, for this write and for those after it;
\* the message goes the same way.
WriteFails ==
    /\ phase = "write" /\ job.sink = "pipe"
    /\ Close([s EXCEPT !.code = 1, !.any = TRUE])

\* No input is left.
Finish ==
    /\ phase = "next" /\ todo = <<>>
    /\ s' = CASE job.prog = "fmt" -> FlushLine(s)
              [] job.prog = "wc" -> IF Len(job.args) > 1 THEN [s EXCEPT !.nums = Append(@, s.tot)] ELSE s
              [] job.prog \in {"grep", "look"} -> [s EXCEPT !.code = IF s.any THEN 0 ELSE 1]
              [] OTHER -> s
    /\ phase' = "exit"
    /\ UNCHANGED <<job, todo, left>>

Exited == phase = "exit" /\ UNCHANGED vars

Next == Open \/ OpenFails
        \/ (\E n \in 1..Max({CHUNK, MAX_BUF}) : Read(n) \/ Write(n)) \/ WriteFails
        \/ ReadEnds \/ ReadFails \/ Finish \/ Exited
Spec == Init /\ [][Next]_vars

---------------------------------------------------------------------------
\* What the programs promise, said of the whole text at once: how the input
\* was cut into pieces, and which input came first, may not show.

TypeOK ==
    /\ phase \in {"next", "read", "write", "args", "open", "page", "exit"}
    /\ s.code \in -1..2
    /\ job.prog \in Filter => Len(s.line) <= Max({LINE_BUF, CHUNK})
    /\ Cardinality(DOMAIN s.kept) <= MAX_LINES

Ran(prog) == job.prog = prog /\ phase = "exit" /\ s.o.exit < 0
Readable(name) == name \in DOMAIN job.fs
Inputs == IF s.o.files = <<>> THEN <<"stdin">> ELSE s.o.files

\* The inputs one after the other, each through f; a message for one that
\* cannot be opened.
ForEach(f(_)) ==
    Concat([i \in DOMAIN Inputs |-> CASE Readable(Inputs[i]) -> f(TextOf(Inputs[i]))
                                      [] Inputs[i] = "d" -> f(<<>>)
                                      [] OTHER -> <<MSG>>])
LinesOf(text) ==
    LET parts == Split(text, {NL})
        lines == IF Last(parts) = <<>> THEN Front(parts) ELSE parts
    IN  [i \in DOMAIN lines |-> Take(lines[i], LINE_BUF)]
Without(text, b) == SelectSeq(text, LAMBDA c : c # b)
Newlines(text) == Cardinality({i \in DOMAIN text : text[i] = NL})

\* cat copies its inputs in order whatever a pipe takes at a time; it loses
\* a byte only when the reader is gone, and then its status says so.
CatCopies ==
    Ran("cat") => /\ ~s.any => Without(s.out, MSG) = Without(ForEach(LAMBDA text : text), MSG)
                  /\ s.code = 0 <=> /\ \A i \in DOMAIN Inputs : Readable(Inputs[i])
                                    /\ s.out = ForEach(LAMBDA text : text)

\* wc counts a word once when a read cuts it in two, and the totals are the
\* sums of the files it could read.
WcCounts ==
    Ran("wc") =>
        LET texts == SelectSeq(Inputs, Readable)
            count(text) == <<Newlines(text), Len(Words(text)), Len(text)>>
            each == [i \in DOMAIN texts |-> count(TextOf(texts[i]))]
            total == [k \in 1..3 |-> FoldLeft(LAMBDA n, c : n + c[k], 0, each)]
        IN  s.nums = IF Len(job.args) > 1 THEN Append(each, total) ELSE each

\* head prints each input up to and with its n-th newline (the first one
\* for n = 0), and all of an input that has fewer.
HeadPrefix ==
    Ran("head") =>
        s.out = ForEach(LAMBDA text : LET nth == {i \in DOMAIN text : Newlines(Take(text, i)) = Max({1, s.o.n})}
                                      IN  IF nth = {} THEN text ELSE Take(text, Min(nth)))

\* tail prints the last n lines of each input, at most MAX_LINES of them,
\* and the ring never gives an older line for a newer one.
TailLast ==
    Ran("tail") =>
        s.out = ForEach(LAMBDA text : LET lines == LinesOf(text)
                                          n == Min({s.o.n, MAX_LINES, Len(lines)})
                                      IN  Printed(Drop(lines, Len(lines) - n)))

\* grep prints exactly the lines that hold the pattern, under the name of
\* their file when there are several, and its status says whether any did.
GrepSelects ==
    Ran("grep") =>
        LET lines(i) == IF Readable(Inputs[i]) THEN LinesOf(TextOf(Inputs[i])) ELSE <<>>
            hits(i) == SelectSeq(lines(i), LAMBDA line : Has(line, Patterns[s.o.pat]))
            name(i) == IF Len(Inputs) > 1 THEN <<Inputs[i], ":">> ELSE <<>>
        IN  /\ Without(s.out, MSG) = Concat([i \in DOMAIN Inputs |->
                                        Printed([k \in DOMAIN hits(i) |-> name(i) \o hits(i)[k]])])
            /\ s.code = 0 <=> \E i \in DOMAIN Inputs : hits(i) # <<>>

\* look prints exactly the lines that start with the string, in either case
\* under -f, and its status says whether there was one.
LookSelects ==
    Ran("look") =>
        LET pat == Patterns[s.o.pat]
            same(b, c) == b = c \/ ("-f" \in s.o.set /\ {b, c} \in {{"a", "A"}, {"b", "B"}})
            hit(line) == /\ line # <<>> /\ Len(line) >= Len(pat)
                         /\ \A i \in DOMAIN pat : same(line[i], pat[i])
            hits == IF Readable(Inputs[1]) THEN SelectSeq(LinesOf(TextOf(Inputs[1])), hit) ELSE <<>>
        IN  /\ Without(s.out, MSG) = Printed(hits)
            /\ s.code = IF ~Readable(Inputs[1]) THEN 2 ELSE IF hits = <<>> THEN 1 ELSE 0

\* uniq prints one line for each maximal run of equal lines, with the length
\* of the run under -c, and only runs of two or more under -d.
UniqRuns ==
    Ran("uniq") =>
        s.out = ForEach(LAMBDA text :
            LET lines == LinesOf(text)
                starts == {i \in DOMAIN lines : i = 1 \/ lines[i] # lines[i - 1]}
                size(i) == Min({j \in starts : j > i} \cup {Len(lines) + 1}) - i
                shown == {i \in starts : "-d" \in s.o.set => size(i) > 1}
                count(i) == IF "-c" \in s.o.set THEN <<ToString(size(i)), SP>> ELSE <<>>
                order == SetToSortSeq(shown, <)
            IN  Printed([k \in DOMAIN order |-> count(order[k]) \o OrEmpty(lines[order[k]])]))

\* cut prints the n-th field of every line: what lies between the n-1st
\* delimiter and the next one, and an empty line where there is none.
CutField ==
    Ran("cut") =>
        s.out = ForEach(LAMBDA text :
            LET lines == LinesOf(Without(text, CR))
                before(line, k) == Cardinality({j \in 1..(k - 1) : line[j] = s.o.delim})
                field(line) == {k \in DOMAIN line : line[k] # s.o.delim /\ before(line, k) = s.o.n - 1}
                part(line) == IF field(line) = {} THEN <<>> ELSE SubSeq(line, Min(field(line)), Max(field(line)))
            IN  Printed([i \in DOMAIN lines |-> part(OrEmpty(lines[i]))]))

\* tr -d deletes exactly the bytes of its set, ranges and escapes included;
\* without -d it changes the case of letters and nothing else.
Members == ("a-b" :> {"a", "b"}) @@ ("\\na" :> {NL, "a"}) @@ ("a-" :> {"a", "-"})
TrDeletes ==
    Ran("tr") =>
        IF "-d" \in s.o.set
        THEN s.out = SelectSeq(TextOf("stdin"), LAMBDA b : b \notin Members[s.o.pat])
        ELSE /\ Len(s.out) = Len(TextOf("stdin"))
             /\ \A i \in DOMAIN s.out : s.out[i] \in {TextOf("stdin")[i]} \cup {"A", "B"}

\* strings prints every maximal run of at least n printable bytes, also one
\* that a read cut in two.
StringsRuns ==
    Ran("strings") =>
        s.out = ForEach(LAMBDA text :
            LET runs == Split(text, {NL, CR, "c3", "a9"})
            IN  Printed(SelectSeq([i \in DOMAIN runs |-> Take(runs[i], LINE_BUF)],
                                  LAMBDA r : Len(r) >= s.o.n)))

\* sort prints the lines it kept in order of their keys, and lines with
\* equal keys in the order of the input.
SortStable ==
    Ran("sort") =>
        s.out = ForEach(LAMBDA text :
            LET lines == Take(LinesOf(text), MAX_LINES)
                less(i, j) == IF "-r" \in s.o.set THEN LineLess(lines[j], lines[i], "-n" \in s.o.set)
                              ELSE LineLess(lines[i], lines[j], "-n" \in s.o.set)
                above(i, j) == less(i, j) \/ (i < j /\ ~less(j, i))
                place(i) == 1 + Cardinality({j \in DOMAIN lines : j # i /\ above(j, i)})
            IN  Printed([k \in DOMAIN lines |-> OrEmpty(lines[CHOOSE i \in DOMAIN lines : place(i) = k])]))

\* tac prints the lines of each input last first; what it has no room for
\* is the end of the input.
TacReverses ==
    Ran("tac") => s.out = ForEach(LAMBDA text :
                      LET parts == Split(Take(text, MAX_BUF), {NL})
                          lines == IF Last(parts) = <<>> THEN Front(parts) ELSE parts
                          n == Min({Len(lines), MAX_LINES})
                      IN  Printed([i \in 1..n |-> lines[n + 1 - i]]))

\* fmt keeps every word, in order, over the ends of lines and files; no
\* line of several words is wider than asked for; empty lines stay.
FmtKeepsWords ==
    Ran("fmt") =>
        LET out == Split(Without(s.out, MSG), {NL})
            lines == Concat([i \in DOMAIN Inputs |->
                        IF Readable(Inputs[i]) THEN LinesOf(Without(TextOf(Inputs[i]), CR)) ELSE <<>>])
            words(ls) == Concat([i \in DOMAIN ls |-> Words(ls[i])])
            blank(ls) == Len(SelectSeq(ls, LAMBDA line : Words(line) = <<>>))
        IN  /\ words(out) = words(lines)
            /\ \A i \in DOMAIN out : Len(Words(out[i])) > 1 => Len(out[i]) <= s.o.n
            /\ blank(out) = blank(lines) + 1

\* Whatever pieces the input comes in and however it fits the buffers, each
\* filter has printed at its exit what it promises of the whole input.
FiltersPrint ==
    /\ TypeOK /\ CatCopies /\ WcCounts /\ HeadPrefix /\ TailLast
    /\ GrepSelects /\ LookSelects /\ UniqRuns /\ CutField /\ TrDeletes
    /\ StringsRuns /\ SortStable /\ TacReverses /\ FmtKeepsWords
============================================================================
