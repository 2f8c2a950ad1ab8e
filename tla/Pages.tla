------------------------------- MODULE Pages -------------------------------
(***************************************************************************)
(* The programs of userland/apps that take each input in one piece: rev,   *)
(* fold, expand, unexpand, nl read once and print what they make of what   *)
(* that read returned; paste, comm and diff read two files once each; cmp  *)
(* reads both in step, and join line by line through a buffer of its own.  *)
(*                                                                         *)
(* A run is a job as in Filters.  Its one action opens the inputs, and the *)
(* reads follow one by one; what is printed is a function of what they     *)
(* returned.  A definition named after the one that follows it is a        *)
(* mutant, wrong on purpose; nothing uses it.                              *)
(***************************************************************************)
EXTENDS Filters

CONSTANTS PageJobs,   \* the jobs checked
          PAGE        \* bytes one read asks for (2048, 1024 in diff)
ASSUME PageAssumption == PAGE \in Nat \ {0}

Single == {"rev", "fold", "expand", "unexpand", "nl"}
Paired == {"paste", "comm", "diff", "cmp", "join"}

---------------------------------------------------------------------------
\* Command lines.

Quits(o, code) == [o EXCEPT !.exit = code]
Given == ("0" :> 0) @@ ("1" :> 1) @@ ("2" :> 2) @@ ("3" :> 3)
Flags(prog) ==
    CASE prog = "fold" -> {"-s"}
      [] prog = "nl" -> {"-ba", "-bt"}
      [] OTHER -> {}
Valued(prog) ==
    CASE prog \in {"fold", "nl"} -> {"-w"}
      [] prog \in {"expand", "unexpand"} -> {"-t"}
      [] prog = "paste" -> {"-d"}
      [] OTHER -> {}
Hyphen(a) == a \in {"-h", "-s", "-ba", "-bt", "-w", "-t", "-d", "-x", "-"}
Usual(prog) == CASE prog = "nl" -> 6 [] prog = "fold" -> 80 [] OTHER -> 8

\* A width of 0 is the usual one, but for nl.
Width_(prog, a, old) ==
    CASE a \notin DOMAIN Given -> old
      [] a \in DOMAIN Given /\ Given[a] = 0 /\ prog # "nl" -> Usual(prog)
      [] OTHER -> Given[a]
PageOption(o, a) ==
    CASE o.exit >= 0 -> o
      [] o.exit < 0 /\ o.want = "-d" -> [o EXCEPT !.want = "", !.delim = a]
      [] o.exit < 0 /\ o.want \in {"-w", "-t"} -> [o EXCEPT !.want = "", !.n = Width_(o.prog, a, @)]
      [] o.exit < 0 /\ o.want = "" /\ a = "-h" -> Quits(o, 0)
      [] o.exit < 0 /\ o.want = "" /\ a \in Flags(o.prog) -> [o EXCEPT !.set = (@ \ {"-ba", "-bt"}) \cup {a}]
      [] o.exit < 0 /\ o.want = "" /\ a \in Valued(o.prog) -> [o EXCEPT !.want = a]
      [] o.exit < 0 /\ o.want = "" /\ ~Hyphen(a) ->
            [o EXCEPT !.files = IF o.prog \in Single THEN <<a>> ELSE IF Len(@) < 2 THEN Append(@, a) ELSE @]
      [] OTHER -> o

\* paste and comm want two names; comm's columns are the digits of -123.
TwoNames(o, code) == IF o.exit < 0 /\ Len(o.files) < 2 THEN Quits(o, code) ELSE o
Columns == ("-1" :> {1}) @@ ("-2" :> {2}) @@ ("-3" :> {3}) @@ ("-12" :> {1, 2}) @@ ("-23" :> {2, 3})
CommOption(o, a) ==
    CASE a \in DOMAIN Columns -> [o EXCEPT !.set = @ \cup Columns[a]]
      [] a \notin DOMAIN Columns /\ ~Hyphen(a) /\ Len(o.files) < 2 -> [o EXCEPT !.files = Append(@, a)]
      [] OTHER -> o

\* join stops at its first operand and refuses an option it does not know;
\* its second operand alone can be "-", standard input.
RECURSIVE JoinOption(_, _)
AtLeastOne(a, old) == IF a \in DOMAIN Given THEN Max({1, Given[a]}) ELSE old
JoinOption(o, args) ==
    CASE args = <<>> -> Quits(o, 1)
      [] args # <<>> /\ Head(args) = "-h" -> Quits(o, 0)
      [] args # <<>> /\ Head(args) \in {"-1", "-2", "-j", "-t", "-v"} ->
            IF Len(args) = 1 THEN Quits(o, 1)
            ELSE JoinOption([o EXCEPT !.n = IF Head(args) \in {"-1", "-j"} THEN AtLeastOne(args[2], @) ELSE @,
                                      !.start = IF Head(args) \in {"-2", "-j"} THEN AtLeastOne(args[2], @) ELSE @,
                                      !.delim = IF Head(args) = "-t" THEN args[2] ELSE @,
                                      !.set = IF Head(args) = "-v" THEN @ \cup {args[2]} ELSE @], Drop(args, 2))
      [] args # <<>> /\ Hyphen(Head(args)) -> Quits(o, 1)
      [] OTHER -> IF Len(args) < 2 THEN Quits(o, 1)
                  ELSE [o EXCEPT !.files = <<args[1], IF args[2] = "-" THEN "stdin" ELSE args[2]>>]

PageScanned(prog, args) ==
    LET o == [Options(prog) EXCEPT !.delim = ""]
    IN  CASE prog \in Single -> FoldLeft(PageOption, [o EXCEPT !.n = Usual(prog)], args)
          [] prog \in Paired \ {"join"} /\ Len(args) < 2 -> Quits(o, IF prog = "paste" THEN 1 ELSE 2)
          [] prog = "paste" /\ Len(args) >= 2 -> TwoNames(FoldLeft(PageOption, [o EXCEPT !.delim = TAB], args), 1)
          [] prog = "comm" /\ Len(args) >= 2 -> TwoNames(FoldLeft(CommOption, o, args), 2)
          [] prog = "cmp" /\ Len(args) >= 2 /\ args[1] = "-h" -> Quits(o, 0)
          [] prog = "join" -> JoinOption([o EXCEPT !.n = 1, !.start = 1], args)
          [] OTHER -> [o EXCEPT !.files = Take(args, 2)]

---------------------------------------------------------------------------
\* What they print.  A result is what is written and the exit status; a
\* panic ends the program with -1 after what was written before it.

Said(out, code) == [out |-> out, code |-> code]

\* rev: a byte that is no character by itself is not printed.
RevLine(line) == SelectSeq(Reverse(line), LAMBDA b : b \notin {"c3", "a9"})
RevPage(lines) == Printed([i \in DOMAIN lines |-> RevLine(lines[i])])

\* fold: the slice must end between two characters.
Panics(rem, n) == n < Len(rem) /\ rem[n + 1] = "a9"
SplitAt(o, rem) ==
    LET gaps == {i \in 2..o.n : rem[i] = SP}
    IN  IF "-s" \in o.set /\ gaps # {} THEN Max(gaps) - 1 ELSE o.n
RECURSIVE FoldLine(_, _, _)
FoldLine(o, rem, out) ==
    CASE rem = <<>> -> Said(out, 0)
      [] rem # <<>> /\ Len(rem) <= o.n -> Said(out \o Append(rem, NL), 0)
      [] Len(rem) > o.n /\ Panics(rem, o.n) -> Said(out, -1)
      [] OTHER -> FoldLine(o, TrimStart(Drop(rem, SplitAt(o, rem))), out \o Append(Take(rem, SplitAt(o, rem)), NL))
FoldPage(o, lines) ==
    FoldLeft(LAMBDA t, line : CASE t.code # 0 -> t
                                [] t.code = 0 /\ line = <<>> -> Said(Append(t.out, NL), 0)
                                [] OTHER -> FoldLine(o, line, t.out), Said(<<>>, 0), lines)

\* expand and unexpand count characters, not bytes.
Spaces(n) == [i \in 1..n |-> SP]
Cols(b) == IF b = "a9" THEN 0 ELSE 1
ExpandByte(o, t, b) ==
    IF b = TAB THEN [out |-> t.out \o Spaces(o.n - (t.col % o.n)), col |-> t.col + o.n - (t.col % o.n)]
    ELSE [out |-> Append(t.out, b), col |-> t.col + Cols(b)]
ExpandLine(o, line) == FoldLeft(LAMBDA t, b : ExpandByte(o, t, b), [out |-> <<>>, col |-> 0], line).out
ExpandPage(o, lines) == Printed([i \in DOMAIN lines |-> ExpandLine(o, lines[i])])
UnexpandByte(o, t, b) ==
    CASE b = SP /\ (t.col + 1) % o.n = 0 -> [out |-> Append(t.out, TAB), col |-> t.col + 1, pending |-> 0]
      [] b = SP /\ (t.col + 1) % o.n # 0 -> [t EXCEPT !.col = @ + 1, !.pending = @ + 1]
      [] OTHER -> [out |-> Append(t.out \o Spaces(t.pending), b), col |-> t.col + Cols(b), pending |-> 0]
Unexpanded(t) == t.out \o Spaces(t.pending)
UnexpandLine(o, line) ==
    Unexpanded(FoldLeft(LAMBDA t, b : UnexpandByte(o, t, b), [out |-> <<>>, col |-> 0, pending |-> 0], line))
UnexpandPage(o, lines) == Printed([i \in DOMAIN lines |-> UnexpandLine(o, lines[i])])

\* nl: the number, right-aligned, then a tab; print_num for one digit.
DigitOf(k) == CHOOSE b \in DOMAIN Digit : Digit[b] = k
Numbered(o, k) == Append(Spaces(IF o.n > 1 THEN o.n - 1 ELSE 0), DigitOf(k))
NlLine(o, t, line) ==
    IF line = <<>> /\ "-ba" \notin o.set THEN [t EXCEPT !.out = Append(@, NL)]
    ELSE [out |-> t.out \o Numbered(o, t.no) \o <<TAB>> \o Append(line, NL), no |-> t.no + 1]
NlPage(o, lines) == FoldLeft(LAMBDA t, line : NlLine(o, t, line), [out |-> <<>>, no |-> 1], lines).out

SinglePage(o, lines) ==
    CASE o.prog = "rev" -> Said(RevPage(lines), 0)
      [] o.prog = "fold" -> FoldPage(o, lines)
      [] o.prog = "expand" -> Said(ExpandPage(o, lines), 0)
      [] o.prog = "unexpand" -> Said(UnexpandPage(o, lines), 0)
      [] o.prog = "nl" -> Said(NlPage(o, lines), 0)
\* Nothing read is nothing to do; a text that is not UTF-8 is an error.
SingleText(o, text) == IF IsUtf8(text) THEN SinglePage(o, Lines(text)) ELSE Said(<<>>, 1)

---------------------------------------------------------------------------
\* Two texts.

LineAt(lines, i) == IF i <= Len(lines) THEN lines[i] ELSE <<>>
PastePage(o, l1, l2) ==
    Printed([i \in 1..Max({Len(l1), Len(l2)}) |-> LineAt(l1, i) \o <<o.delim>> \o LineAt(l2, i)])

\* comm: the two lists are merged; column k is indented by the columns
\* before it that are printed.
Indent(o, k) == [i \in 1..Cardinality((1..(k - 1)) \ o.set) |-> TAB]
Column(o, k, line) == IF k \in o.set THEN <<>> ELSE Indent(o, k) \o Append(line, NL)
RECURSIVE CommMerge(_, _, _)
CommMerge(o, l1, l2) ==
    CASE l1 = <<>> /\ l2 = <<>> -> <<>>
      [] l1 # <<>> /\ (l2 = <<>> \/ Less(Head(l1), Head(l2))) -> Column(o, 1, Head(l1)) \o CommMerge(o, Tail(l1), l2)
      [] l2 # <<>> /\ (l1 = <<>> \/ Less(Head(l2), Head(l1))) -> Column(o, 2, Head(l2)) \o CommMerge(o, l1, Tail(l2))
      [] OTHER -> Column(o, 3, Head(l1)) \o CommMerge(o, Tail(l1), Tail(l2))

\* diff compares the lines of one number.  A marker and its blank are one
\* byte; the two lines that name the files come before the first difference.
DiffAt(l1, l2, i) ==
    IF i <= Len(l1) /\ i <= Len(l2) /\ l1[i] = l2[i] THEN <<>>
    ELSE <<"@@", DigitOf(i), NL>>
         \o (IF i <= Len(l1) THEN <<"- ">> \o Append(l1[i], NL) ELSE <<>>)
         \o (IF i <= Len(l2) THEN <<"+ ">> \o Append(l2[i], NL) ELSE <<>>)
DiffLines(o, l1, l2) ==
    LET hunks == Concat([i \in 1..Max({Len(l1), Len(l2)}) |-> DiffAt(l1, l2, i)])
    IN  IF hunks = <<>> THEN Said(<<>>, 0)
        ELSE Said(<<"---", o.files[1], NL, "+++", o.files[2], NL>> \o hunks, 1)

\* cmp: the first byte that differs and the line it is on, or the file that
\* ends first.
CmpPage(o, t1, t2) ==
    LET both == 1..Min({Len(t1), Len(t2)})
        off == {i \in both : t1[i] # t2[i]}
        at == Min(off \cup {Len(t1) + 1})
        line == 1 + Cardinality({i \in 1..(at - 1) : t1[i] = NL})
    IN  CASE t1 = t2 -> Said(<<>>, 0)
          [] t1 # t2 /\ off # {} -> Said(<<o.files[1], at, line>>, 1)
          [] OTHER -> Said(<<"EOF on", o.files[IF Len(t1) < Len(t2) THEN 1 ELSE 2]>>, 1)

\* join: read_line ends at the first line that is not UTF-8, as at the end.
JoinLines(text) ==
    LET parts == Split(text, {NL})
        all == IF Last(parts) = <<>> THEN Front(parts) ELSE parts
        cut == [i \in DOMAIN all |-> Chomp(Take(all[i], LINE_BUF))]
        bad == {i \in DOMAIN cut : ~IsUtf8(cut[i])}
    IN  Take(cut, Min(bad \cup {Len(cut) + 1}) - 1)
Fields_(o, line) == IF o.delim = "" THEN Words(line) ELSE Split(line, {o.delim})
GetField(o, line, k) == IF k <= Len(Fields_(o, line)) THEN Fields_(o, line)[k] ELSE <<>>
Separator(o) == IF o.delim = "" THEN SP ELSE o.delim
Others(o, line, k) ==
    LET f == Fields_(o, line) IN Concat([i \in DOMAIN f |-> IF i = k THEN <<>> ELSE <<Separator(o)>> \o f[i]])
PrintJoined(o, a, b) == GetField(o, a, o.n) \o Others(o, a, o.n) \o Append(Others(o, b, o.start), NL)
Alone(o, who, line) == IF who \in o.set THEN Append(line, NL) ELSE <<>>
RECURSIVE JoinMergeStays(_, _, _), JoinMerge(_, _, _)
JoinMergeStays(o, a, b) ==
    CASE a = <<>> \/ b = <<>> ->
            (IF "1" \in o.set THEN Printed(a) ELSE <<>>) \o (IF "2" \in o.set THEN Printed(b) ELSE <<>>)
      [] a # <<>> /\ b # <<>> /\ GetField(o, Head(a), o.n) = GetField(o, Head(b), o.start) ->
            PrintJoined(o, Head(a), Head(b)) \o JoinMergeStays(o, Tail(a), b)
      [] a # <<>> /\ b # <<>> /\ Less(GetField(o, Head(a), o.n), GetField(o, Head(b), o.start)) ->
            Alone(o, "1", Head(a)) \o JoinMergeStays(o, Tail(a), b)
      [] OTHER -> Alone(o, "2", Head(b)) \o JoinMergeStays(o, a, Tail(b))
\* Equal keys take both lines, so a key pairs once.
JoinMerge(o, a, b) ==
    CASE a = <<>> \/ b = <<>> ->
            (IF "1" \in o.set THEN Printed(a) ELSE <<>>) \o (IF "2" \in o.set THEN Printed(b) ELSE <<>>)
      [] a # <<>> /\ b # <<>> /\ GetField(o, Head(a), o.n) = GetField(o, Head(b), o.start) ->
            PrintJoined(o, Head(a), Head(b)) \o JoinMerge(o, Tail(a), Tail(b))
      [] a # <<>> /\ b # <<>> /\ Less(GetField(o, Head(a), o.n), GetField(o, Head(b), o.start)) ->
            Alone(o, "1", Head(a)) \o JoinMerge(o, Tail(a), b)
      [] OTHER -> Alone(o, "2", Head(b)) \o JoinMerge(o, a, Tail(b))

PairPage(o, t1, t2) ==
    CASE o.prog = "paste" -> Said(PastePage(o, Lines(OrEmpty(t1)), Lines(OrEmpty(t2))), 0)
      [] o.prog = "comm" -> Said(CommMerge(o, Lines(OrEmpty(t1)), Lines(OrEmpty(t2))), 0)
      [] o.prog = "diff" -> DiffLines(o, Lines(OrEmpty(t1)), Lines(OrEmpty(t2)))
      [] o.prog = "cmp" -> CmpPage(o, t1, t2)
      [] o.prog = "join" -> Said(JoinMerge(o, JoinLines(t1), JoinLines(t2)), 0)

---------------------------------------------------------------------------
\* The run.

PageBegin(o) ==
    /\ s = Start(o) /\ left = <<>>
    /\ todo = IF o.exit >= 0 THEN <<>> ELSE IF o.files = <<>> THEN <<"stdin">> ELSE o.files
    /\ phase = IF o.exit >= 0 THEN "exit" ELSE "open"
PageInit == job \in PageJobs /\ PageBegin(PageScanned(job.prog, job.args))

Missing_(prog) == IF prog \in {"comm", "diff", "cmp"} THEN 2 ELSE 1
Present == \A i \in DOMAIN todo : todo[i] \in DOMAIN job.fs \cup {"d"}
\* Every input is opened before any is read; one that is not there ends the
\* program.
PageOpen ==
    /\ phase = "open"
    /\ phase' = IF Present THEN "page" ELSE "exit"
    /\ s' = IF Present THEN s ELSE [Out(s, <<MSG>>) EXCEPT !.code = Missing_(job.prog)]
    /\ UNCHANGED <<job, todo, left>>

\* One read of one input: a file fills the buffer, standard input gives what
\* has arrived, a directory fails, which only cmp tells from an empty file.
\* cmp and join go on reading; their reads of a file are one step here.
Pieces(name, all) ==
    CASE name = "d" -> {<<>>}
      [] name = "stdin" /\ ~all /\ TextOf(name) # <<>> -> {Take(TextOf(name), n) : n \in 1..Min({PAGE, Len(TextOf(name))})}
      [] name # "d" /\ all -> {TextOf(name)}
      [] OTHER -> {Take(TextOf(name), PAGE)}
PageRead ==
    /\ phase = "page" /\ todo # <<>>
    /\ \E piece \in Pieces(Head(todo), job.prog \in {"cmp", "join"}) : s' = [s EXCEPT !.kept = Append(@, piece)]
    /\ todo' = Tail(todo)
    /\ UNCHANGED <<job, left, phase>>

Result(o, kept) ==
    CASE o.prog \in Single -> SingleText(o, kept[1])
      [] o.prog = "cmp" /\ "d" \in Range(o.files) -> Said(<<MSG>>, 2)
      [] OTHER -> PairPage(o, kept[1], kept[2])
PagePrint ==
    /\ phase = "page" /\ todo = <<>>
    /\ \E r \in {Result(s.o, s.kept)} : s' = [Out(s, r.out) EXCEPT !.code = r.code]
    /\ phase' = "exit"
    /\ UNCHANGED <<job, todo, left>>

PageNext == PageOpen \/ PageRead \/ PagePrint

---------------------------------------------------------------------------
\* Properties.

Paged(prog) == phase = "exit" /\ job.prog = prog /\ s.o.exit < 0 /\ s.kept # <<>>
PageLines(k) == Lines(OrEmpty(s.kept[k]))

\* fold keeps the text: the lines printed for a line are no wider than the
\* width, and put end to end they are the line, blanks at the breaks apart.
\* Only a break inside a character, which ends the program, is left out.
FoldFits ==
    Paged("fold") /\ s.code = 0 =>
        /\ \A i \in DOMAIN Lines(s.out) : Len(Lines(s.out)[i]) <= s.o.n
        /\ SelectSeq(s.out, LAMBDA b : b \notin Blank)
              = SelectSeq(Concat(PageLines(1)), LAMBDA b : b \notin Blank)

\* Unexpand is undone by expand with the same tab stop: for a text without
\* tabs, expanding the lines printed gives the lines read.
UnexpandUndone ==
    Paged("unexpand") /\ s.code = 0 /\ TAB \notin Range(s.kept[1]) =>
        [i \in DOMAIN Lines(s.out) |-> ExpandLine(s.o, Lines(s.out)[i])] = PageLines(1)

\* nl numbers the lines it numbers 1, 2, 3..., empty lines taking no number
\* unless asked to, and changes nothing else.
NlConsecutive ==
    Paged("nl") /\ s.code = 0 =>
        LET out == Lines(s.out)
            told == {i \in DOMAIN out : TAB \in Range(out[i])}
            tab(i) == Min({j \in DOMAIN out[i] : out[i][j] = TAB})
        IN  /\ Len(out) = Len(PageLines(1))
            /\ told = {i \in DOMAIN out : PageLines(1)[i] # <<>> \/ "-ba" \in s.o.set}
            /\ \A i \in told : /\ Drop(out[i], tab(i)) = PageLines(1)[i]
                               /\ Digit[out[i][tab(i) - 1]] = Cardinality({j \in told : j <= i})

\* Of two sorted files comm prints every line in its column: a line that is
\* m times in the first and n times in the second is min(m, n) times in the
\* third column and the rest of the times in its own.
Sorted(lines) == \A i \in 1..(Len(lines) - 1) : ~Less(lines[i + 1], lines[i])
Times(lines, line) == Cardinality({i \in DOMAIN lines : lines[i] = line})
CommPartitions ==
    Paged("comm") /\ s.o.set = {} /\ Sorted(PageLines(1)) /\ Sorted(PageLines(2)) =>
        \A line \in Range(PageLines(1)) \cup Range(PageLines(2)) :
            TAB \notin Range(line) =>
            \E m \in {Times(PageLines(1), line)}, n \in {Times(PageLines(2), line)} :
                /\ Times(Lines(s.out), line) = m - Min({m, n})
                /\ Times(Lines(s.out), <<TAB>> \o line) = n - Min({m, n})
                /\ Times(Lines(s.out), <<TAB, TAB>> \o line) = Min({m, n})

\* Of two files sorted on the join field, with no key twice, join prints one
\* line for every key of both, and with -v every line without a partner.
Keys(k, f) == [i \in DOMAIN JoinLines(s.kept[k]) |-> GetField(s.o, JoinLines(s.kept[k])[i], f)]
Unique(keys) == \A i, j \in DOMAIN keys : i < j => Less(keys[i], keys[j])
JoinRelates ==
    Paged("join") /\ Unique(Keys(1, s.o.n)) /\ Unique(Keys(2, s.o.start)) =>
        \E a \in {JoinLines(s.kept[1])}, b \in {JoinLines(s.kept[2])} :
        \E ka \in {Keys(1, s.o.n)}, kb \in {Keys(2, s.o.start)} :
            Range(Lines(s.out)) =
                  {Front(PrintJoined(s.o, a[p[1]], b[p[2]])) :
                      p \in {q \in (DOMAIN a) \X (DOMAIN b) : ka[q[1]] = kb[q[2]]}}
                  \cup {a[i] : i \in {j \in DOMAIN a : "1" \in s.o.set /\ ka[j] \notin Range(kb)}}
                  \cup {b[i] : i \in {j \in DOMAIN b : "2" \in s.o.set /\ kb[j] \notin Range(ka)}}

\* The programs that take a page at a time print what relates to their input
\* as they promise, up to the widths, tab stops and fields they were given.
PagesPrint ==
    FoldFits /\ UnexpandUndone /\ NlConsecutive /\ CommPartitions /\ JoinRelates
=============================================================================
