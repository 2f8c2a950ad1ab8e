---------------------------- MODULE CommandLine ----------------------------
(***************************************************************************)
(* The two command languages: the line editor and the parser of the user   *)
(* shell (userland/apps/src/bin/sh.rs), which works in place on the line   *)
(* buffer, and the tokenizer and parser of the kernel shell                *)
(* (shell/parser.rs), which copies.  A range <<a, b>> of a buffer is the   *)
(* positions a .. b - 1.  A builtin's name ("cd", "exit") is one symbol.   *)
(* A definition named after the one that follows it is a mutant, wrong on  *)
(* purpose; nothing uses it.                                               *)
(***************************************************************************)
EXTENDS Text

CONSTANTS LINE,          \* longest line of the user shell (64)
          MAX_ARGV,      \* slots of its argv (16)
          MAX_STAGES,    \* stages of its pipelines (8)
          MAX_LINE,      \* longest line of the kernel shell (256)
          Bin, Dir       \* names in /bin; names in the working directory, and which are directories

ASSUME CommandLineAssumption == {LINE, MAX_ARGV, MAX_STAGES, MAX_LINE} \subseteq Nat \ {0}

NUL == "nul"
Quotes == {"'", "\""}
Builtins == {"help", "clear", "exit", "cd", "pwd", "sudo"}

---------------------------------------------------------------------------
\* The editor of the user shell: the line, the cursor, and how much of an
\* escape sequence has been read.

Blanked == [buf |-> <<>>, pos |-> 0, esc |-> "no", done |-> "no"]

Cut(e, from, to) == [e EXCEPT !.buf = Take(@, from) \o Drop(@, to), !.pos = from]
InsertText(e, text) ==
    IF Len(e.buf) + Len(text) <= LINE
    THEN [e EXCEPT !.buf = Take(@, e.pos) \o text \o Drop(@, e.pos), !.pos = @ + Len(text)] ELSE e
Delete(e) == IF e.pos < Len(e.buf) THEN Cut(e, e.pos, e.pos + 1) ELSE e

\* Ctrl+W: back over blanks, then over what is none.
WordStart(buf, pos) == Max({0} \cup {i \in 1..pos : buf[i] = SP})
BackWord(e) ==
    LET word == {i \in 1..e.pos : e.buf[i] # SP}
    IN  Cut(e, IF word = {} THEN 0 ELSE WordStart(e.buf, Max(word)), e.pos)

\* Tab: a first word without "/" is completed from the builtins and /bin,
\* any other from a directory (here always the same one).  Only one match is
\* inserted.
Complete(e) ==
    LET start == WordStart(e.buf, e.pos)
        prefix == SubSeq(e.buf, start + 1, e.pos)
        slash == Max({0} \cup {i \in DOMAIN prefix : prefix[i] = "/"})
        command == start = 0 /\ slash = 0
        names == IF command THEN [n \in {<<b>> : b \in Builtins} \cup Bin |-> SP] ELSE Dir
        matches == {n \in DOMAIN names : IsPrefix(Drop(prefix, slash), n)}
        typed == IF start # 0 THEN Len(prefix) - slash ELSE Len(prefix)
        name == CHOOSE n \in matches : TRUE
    IN  IF Cardinality(matches) = 1 /\ Len(name) >= typed
        THEN InsertText(e, Append(Drop(name, typed), names[name])) ELSE e

\* The codes of an escape sequence; up and down find no history, since none
\* is ever stored.
Escape(e, code) ==
    CASE code = "C" -> [e EXCEPT !.pos = Min({@ + 1, Len(e.buf)})]
      [] code = "D" -> [e EXCEPT !.pos = Max({@ - 1, 0})]
      [] code \in {"H", "1"} -> [e EXCEPT !.pos = 0]
      [] code \in {"F", "4"} -> [e EXCEPT !.pos = Len(e.buf)]
      [] code = "3" -> Delete(e)
      [] OTHER -> e

Control(e, key) ==
    CASE key = NL -> [e EXCEPT !.done = "line"]
      [] key = "BS" -> IF e.pos > 0 THEN Cut(e, e.pos - 1, e.pos) ELSE e
      [] key = TAB -> Complete(e)
      [] key = "^A" -> [e EXCEPT !.pos = 0]
      [] key = "^E" -> [e EXCEPT !.pos = Len(e.buf)]
      [] key = "^U" -> Cut(e, 0, e.pos)
      [] key = "^K" -> [e EXCEPT !.buf = Take(@, e.pos)]
      [] key = "^W" -> BackWord(e)
      [] key = "^D" -> IF e.buf = <<>> THEN [e EXCEPT !.done = "panic"] ELSE Delete(e)
      [] key = "^C" -> Blanked
      [] key = "ESC" -> [e EXCEPT !.esc = "esc"]
      [] OTHER -> e
Controls == {NL, "BS", TAB, "^A", "^E", "^U", "^K", "^W", "^D", "^C", "^L", "ESC"}

\* One byte of input; "late" is a byte of an escape sequence that does not
\* come within 20 ms.
Key(e, key) ==
    CASE e.esc = "no" /\ key \in Controls -> Control(e, key)
      [] e.esc = "no" /\ key \notin Controls -> InsertText(e, <<key>>)
      [] e.esc = "esc" -> [e EXCEPT !.esc = IF key = "[" THEN "code" ELSE "no"]
      [] e.esc = "code" /\ key \in {"1", "3", "4"} -> [e EXCEPT !.esc = key]
      [] e.esc = "code" /\ key \notin {"1", "3", "4"} -> [Escape(e, key) EXCEPT !.esc = "no"]
      [] OTHER -> [Escape(e, e.esc) EXCEPT !.esc = "no"]

---------------------------------------------------------------------------
\* The parser of the user shell

Trimmed(buf, a, b) ==
    LET solid == {i \in a..(b - 1) : buf[i] \notin {SP, TAB}}
    IN  IF solid = {} THEN <<b, b>> ELSE <<Min(solid), Max(solid) + 1>>

\* The positions outside quotes that are no quotes.
Outside(buf, a, b) ==
    FoldLeft(LAMBDA st, i : CASE st.q # "" -> [st EXCEPT !.q = IF buf[i] = @ THEN "" ELSE @]
                              [] st.q = "" /\ buf[i] \in Quotes -> [st EXCEPT !.q = buf[i]]
                              [] OTHER -> [st EXCEPT !.at = @ \cup {i}],
             [q |-> "", at |-> {}], [k \in 1..(b - a) |-> a + k - 1]).at
FindTop(buf, a, b, delims) ==
    LET at == {i \in Outside(buf, a, b) : buf[i] \in delims} IN IF at = {} THEN b ELSE Min(at)

\* exec_line: the stages between "|".
Stages(buf, a, b) ==
    LET bars == SetToSortSeq({i \in Outside(buf, a, b) : buf[i] = "|"}, <)
    IN  [k \in 1..(Len(bars) + 1) |-> <<IF k = 1 THEN a ELSE bars[k - 1] + 1, IF k > Len(bars) THEN b ELSE bars[k]>>]

\* parse_redirect and redir_open: the command ends at ">", the target at the
\* next blank; a quoted target loses its quotes.
Unquoted(w) == IF Len(w) > 1 /\ w[1] \in Quotes /\ Last(w) = w[1] THEN SubSeq(w, 2, Len(w) - 1) ELSE w
Redirect(buf, a, b) ==
    LET i == FindTop(buf, a, b, {">"})
        append == i + 1 < b /\ buf[i + 1] = ">"
        target == Trimmed(buf, IF append THEN i + 2 ELSE i + 1, b)
        end == FindTop(buf, target[1], target[2], {SP})
    IN  IF i = b THEN [cmd |-> <<a, b>>, to |-> {}, append |-> FALSE]
        ELSE [cmd |-> <<a, i>>, to |-> {Unquoted(SubSeq(buf, target[1], end - 1))}, append |-> append]

\* tokenize: blanks become the NULs that end the words, quotes are squeezed
\* out; `to' never overtakes the position being read.
Put(t, c) == [t EXCEPT !.buf[t.to] = c, !.to = @ + 1]
StartWord(t) ==
    CASE t.word -> t
      [] ~t.word /\ Len(t.offs) + 1 >= MAX_ARGV -> [t EXCEPT !.many = TRUE]
      [] OTHER -> [t EXCEPT !.word = TRUE, !.offs = Append(@, t.to)]
WordByte(t, c) ==
    CASE t.many -> t
      [] ~t.many /\ t.q # "" -> IF c = t.q THEN [t EXCEPT !.q = ""] ELSE Put(t, c)
      [] ~t.many /\ t.q = "" /\ c \in Quotes -> [t EXCEPT !.q = c]
      [] ~t.many /\ t.q = "" /\ c = SP -> [Put(t, NUL) EXCEPT !.word = FALSE]
      [] OTHER -> Put(t, c)
TokenByte(t, i) == IF t.many \/ (~t.word /\ t.buf[i] = SP) THEN t ELSE WordByte(StartWord(t), t.buf[i])
TokenizeLong(buf, a, b) ==
    LET t == FoldLeft(TokenByte, [buf |-> buf, to |-> a, q |-> "", word |-> FALSE, offs |-> <<>>, many |-> FALSE],
                      [k \in 1..(b - a + 1) |-> a + k - 1])
    IN  IF t.word /\ ~t.many THEN Put(t, NUL) ELSE t
Tokenize(buf, a, b) ==
    LET t == FoldLeft(TokenByte, [buf |-> buf, to |-> a, q |-> "", word |-> FALSE, offs |-> <<>>, many |-> FALSE],
                      [k \in 1..(b - a) |-> a + k - 1])
    IN  IF t.word /\ ~t.many THEN Put(t, NUL) ELSE t
WordAt(buf, o) == SubSeq(buf, o, Min({i \in o..Len(buf) : buf[i] = NUL}) - 1)

\* prepare: the words, or none when there are too many, none at all, or the
\* command is blank.
Prepare(t) ==
    LET argv == [k \in DOMAIN t.offs |-> WordAt(t.buf, t.offs[k])]
    IN  IF t.many \/ argv = <<>> THEN {} ELSE IF TrimStart(argv[1]) = <<>> THEN {} ELSE {argv}

---------------------------------------------------------------------------
\* read_line of the kernel shell; ^C gives an empty line at once.

KKey(line, key) ==
    CASE key = "BS" -> Take(line, Len(line) - 1)
      [] key = "^C" -> <<>>
      [] OTHER -> IF Len(line) < MAX_LINE THEN Append(line, key) ELSE line
KReadLine(typed) == FoldLeft(KKey, <<>>, typed)

\* The parser of the kernel shell: tokens, then pipelines.  An error is the
\* empty set.

Word(w) == [kind |-> "word", text |-> w]
Mark(kind) == [kind |-> kind, text |-> <<>>]
EndWord(t) == IF t.word THEN [t EXCEPT !.toks = Append(@, Word(t.cur)), !.cur = <<>>, !.word = FALSE] ELSE t
Emitted(t, kind) == LET u == EndWord(t) IN [u EXCEPT !.toks = Append(@, Mark(kind))]
Push(t, c) == [t EXCEPT !.cur = Append(@, c), !.word = TRUE]

\* skip: this character was taken together with the one before it.
KTokenChar(line, t, i) ==
    LET c == line[i]
        next == IF i < Len(line) THEN line[i + 1] ELSE NUL
    IN  CASE t.skip -> [t EXCEPT !.skip = FALSE]
          [] ~t.skip /\ t.q # "" /\ c = t.q -> [t EXCEPT !.q = "", !.word = TRUE]
          [] ~t.skip /\ t.q = "\"" /\ c = "\\" /\ next \in {"\"", "\\"} -> [Push(t, next) EXCEPT !.skip = TRUE]
          [] ~t.skip /\ t.q # "" /\ c # t.q /\ ~(t.q = "\"" /\ c = "\\" /\ next \in {"\"", "\\"}) -> Push(t, c)
          [] ~t.skip /\ t.q = "" /\ c \in Blank -> EndWord(t)
          [] ~t.skip /\ t.q = "" /\ c \in Quotes -> [t EXCEPT !.q = c, !.word = TRUE]
          [] ~t.skip /\ t.q = "" /\ c = "\\" -> [Push(t, IF next = NUL THEN c ELSE next) EXCEPT !.skip = TRUE]
          [] ~t.skip /\ t.q = "" /\ c \in {"|", ";"} -> Emitted(t, c)
          [] ~t.skip /\ t.q = "" /\ c = ">" /\ next = ">" -> [Emitted(t, ">>") EXCEPT !.skip = TRUE]
          [] ~t.skip /\ t.q = "" /\ c = ">" /\ next # ">" -> Emitted(t, ">")
          [] OTHER -> Push(t, c)
KTokenize(line) ==
    LET t == FoldLeft(LAMBDA u, i : KTokenChar(line, u, i),
                      [toks |-> <<>>, cur |-> <<>>, word |-> FALSE, q |-> "", skip |-> FALSE], [i \in DOMAIN line |-> i])
    IN  IF t.q # "" THEN {} ELSE {EndWord(t).toks}

\* build_command and pipeline_from_tokens.  open: the operator whose target
\* has to follow.
Unset == [to |-> {}, append |-> FALSE]
Built(p) ==
    IF p.words = <<>> THEN [p EXCEPT !.bad = TRUE]
    ELSE [p EXCEPT !.cmds = Append(@, [argv |-> p.words, to |-> p.redir.to, append |-> p.redir.append]),
                   !.words = <<>>, !.redir = Unset]
PipelineToken(p, tok) ==
    CASE p.bad -> p
      [] ~p.bad /\ p.open # "" /\ tok.kind = "word" ->
            [p EXCEPT !.open = "", !.redir = [to |-> {tok.text}, append |-> p.open = ">>"]]
      [] ~p.bad /\ p.open # "" /\ tok.kind # "word" -> [p EXCEPT !.bad = TRUE]
      [] ~p.bad /\ p.open = "" /\ tok.kind = "word" -> [p EXCEPT !.words = Append(@, tok.text)]
      [] ~p.bad /\ p.open = "" /\ tok.kind \in {">", ">>"} -> [p EXCEPT !.open = tok.kind]
      [] ~p.bad /\ p.open = "" /\ tok.kind = "|" -> Built(p)
      [] OTHER -> [p EXCEPT !.bad = TRUE]
PipelineOf(toks) ==
    LET p == FoldLeft(PipelineToken, [cmds |-> <<>>, words |-> <<>>, redir |-> Unset, open |-> "", bad |-> FALSE], toks)
        last == IF p.open # "" \/ p.bad THEN [p EXCEPT !.bad = TRUE] ELSE Built(p)
    IN  IF last.bad THEN {} ELSE {last.cmds}

\* parse_line: the pipelines between ";", empty ones skipped; one that is
\* wrong spoils the line.
Segments(toks) ==
    FoldLeft(LAMBDA acc, tok : IF tok.kind = ";" THEN Append(acc, <<>>) ELSE [acc EXCEPT ![Len(acc)] = Append(@, tok)],
             << <<>> >>, toks)
AllOrNone(parsed) ==
    IF \E k \in DOMAIN parsed : parsed[k] = {} THEN {} ELSE {[k \in DOMAIN parsed |-> CHOOSE p \in parsed[k] : TRUE]}
ParseSegments(segs) == AllOrNone([k \in DOMAIN segs |-> PipelineOf(segs[k])])
ParseLine(line) == UNION {ParseSegments(SelectSeq(Segments(toks), LAMBDA seg : seg # <<>>)) : toks \in KTokenize(line)}
=============================================================================
