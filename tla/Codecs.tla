------------------------------- MODULE Codecs -------------------------------
(***************************************************************************)
(* Programs that turn a stream into another one or build something from    *)
(* it: base64, base32, dos2unix, unix2dos (their filter form), tsort,      *)
(* column, bc and dc.  They run on the input loop of Filters.              *)
(* For base64 and base32 a byte of data is a number below 256; an encoded  *)
(* character is its place in the alphabet, PAD for "=", and BREAK for a    *)
(* line break or a blank.                                                  *)
(* A definition named after the one that follows it is a mutant, wrong on  *)
(* purpose; nothing uses it.                                               *)
(***************************************************************************)
EXTENDS Filters

CONSTANTS B64_LINE,      \* characters of a base64 line (64)
          MAX_NODES,     \* nodes tsort has room for (32)
          MAX_COLS,      \* columns column aligns (8)
          STACK,         \* entries of a calculator's stack (32)
          BITS,          \* width of its numbers (64 for bc, 32 for dc)
          USIZE,         \* width of what bc prints (32)
          CodeJobs

ASSUME CodecsAssumption == {B64_LINE, MAX_NODES, MAX_COLS, STACK, BITS, USIZE} \subseteq Nat \ {0}

PAD == 64
BREAK == 65
JUNK == 66

---------------------------------------------------------------------------
\* base64: three bytes to four characters.

Quad(b) ==
    LET at(i) == IF i <= Len(b) THEN b[i] ELSE 0
        all == <<at(1) \div 4, (at(1) % 4) * 16 + at(2) \div 16, (at(2) % 16) * 4 + at(3) \div 64, at(3) % 64>>
    IN  [i \in 1..4 |-> IF i <= Len(b) + 1 THEN all[i] ELSE PAD]

\* own: the characters of the line so far.
Encode64Byte(t, b) ==
    IF Len(t.line) < 2
    THEN [t EXCEPT !.line = Append(@, b)]
    ELSE LET own == t.own \o Quad(Append(t.line, b))
         IN  IF Len(own) >= B64_LINE
             THEN [Out(t, Append(own, BREAK)) EXCEPT !.line = <<>>, !.own = <<>>]
             ELSE [t EXCEPT !.line = <<>>, !.own = own]
Encode64End(t) ==
    LET own == IF t.line = <<>> THEN t.own ELSE t.own \o Quad(t.line)
    IN  IF own = <<>> THEN t ELSE Out(t, Append(own, BREAK))

\* What is no character of the alphabet counts as the first one.
Val64(c) == IF c < 64 THEN c ELSE 0
Triple(q) ==
    <<(Val64(q[1]) * 4 + Val64(q[2]) \div 16) % 256>>
    \o (IF q[3] = PAD THEN <<>> ELSE <<(Val64(q[2]) % 16) * 16 + Val64(q[3]) \div 4>>)
    \o (IF q[4] = PAD THEN <<>> ELSE <<(Val64(q[3]) % 4) * 64 + Val64(q[4])>>)
Decode64ByteAll(t, c) ==
    IF Len(t.line) < 3 THEN [t EXCEPT !.line = Append(@, c)] ELSE [Out(t, Triple(Append(t.line, c))) EXCEPT !.line = <<>>]
Decode64Byte(t, c) ==
    CASE c = BREAK -> t
      [] c # BREAK /\ Len(t.line) < 3 -> [t EXCEPT !.line = Append(@, c)]
      [] OTHER -> [Out(t, Triple(Append(t.line, c))) EXCEPT !.line = <<>>]

\* base32: five bytes to eight characters.  The bits of a group, in fives.
Octet(b) ==
    LET at(i) == IF i <= Len(b) THEN b[i] ELSE 0
        all == <<at(1) \div 8, (at(1) % 8) * 4 + at(2) \div 64, (at(2) \div 2) % 32, (at(2) % 2) * 16 + at(3) \div 16,
                 (at(3) % 16) * 2 + at(4) \div 128, (at(4) \div 4) % 32, (at(4) % 4) * 8 + at(5) \div 32, at(5) % 32>>
        chars == <<2, 4, 5, 7, 8>>[Len(b)]
    IN  [i \in 1..8 |-> IF i <= chars THEN all[i] ELSE PAD]
Encode32Byte(t, b) ==
    IF Len(t.line) < 4 THEN [t EXCEPT !.line = Append(@, b)]
                       ELSE [Out(t, Octet(Append(t.line, b))) EXCEPT !.line = <<>>]
Encode32End(t) == Out(t, Append(IF t.line = <<>> THEN <<>> ELSE Octet(t.line), BREAK))

Quintet(c) ==
    LET v == [i \in 1..8 |-> IF c[i] = PAD THEN 0 ELSE c[i]]
        pads == Cardinality({i \in 1..8 : c[i] = PAD})
        all == <<(v[1] * 8 + v[2] \div 4) % 256, ((v[2] % 4) * 64 + v[3] * 2 + v[4] \div 16) % 256,
                 ((v[4] % 16) * 16 + v[5] \div 2) % 256, ((v[5] % 2) * 128 + v[6] * 4 + v[7] \div 8) % 256,
                 ((v[7] % 8) * 32 + v[8]) % 256>>
    IN  Take(all, CASE pads = 1 -> 4 [] pads = 3 -> 3 [] pads = 4 -> 2 [] pads = 6 -> 1 [] OTHER -> 5)
Decode32Byte(t, c) ==
    CASE c \in {BREAK, JUNK} -> t
      [] c \notin {BREAK, JUNK} /\ Len(t.line) < 7 -> [t EXCEPT !.line = Append(@, c)]
      [] OTHER -> [Out(t, Quintet(Append(t.line, c))) EXCEPT !.line = <<>>]

---------------------------------------------------------------------------
\* dos2unix holds back a "\r" until it sees what follows; unix2dos looks
\* back.

DosByte(t, b) ==
    CASE t.any /\ b = NL -> [Out(t, <<NL>>) EXCEPT !.any = FALSE]
      [] t.any /\ b = CR -> Out(t, <<CR>>)
      [] t.any /\ b \notin {NL, CR} -> [Out(t, <<CR, b>>) EXCEPT !.any = FALSE]
      [] ~t.any /\ b = CR -> [t EXCEPT !.any = TRUE]
      [] OTHER -> Out(t, <<b>>)
DosEnd(t) == IF t.any THEN [Out(t, <<CR>>) EXCEPT !.any = FALSE] ELSE t
UnixByte(t, b) == [Out(t, IF b = NL /\ ~t.any THEN <<CR, NL>> ELSE <<b>>) EXCEPT !.any = (b = CR)]

---------------------------------------------------------------------------
\* tsort: kept, the names of the nodes; own, the edges; prev, the node that
\* waits for the second of a pair.

AddNode(t, name) ==
    IF name \in Range(t.kept) \/ Len(t.kept) >= MAX_NODES THEN t ELSE [t EXCEPT !.kept = Append(@, name)]
NodeOf(t, name) == {i \in DOMAIN t.kept : t.kept[i] = name}
Token(t) ==
    LET u == AddNode(t, Take(t.line, LINE_BUF))
        v == NodeOf(u, Take(t.line, LINE_BUF))
    IN  CASE t.line = <<>> -> t
          [] t.line # <<>> /\ v = {} -> [u EXCEPT !.line = <<>>]
          [] t.line # <<>> /\ v # {} /\ t.prev = <<>> -> [u EXCEPT !.line = <<>>, !.prev = <<Max(v)>>]
          [] OTHER -> [u EXCEPT !.line = <<>>, !.prev = <<>>,
                                !.own = IF t.prev[1] = Max(v) THEN @ ELSE Append(@, <<t.prev[1], Max(v)>>)]
TsortByte(t, b) == IF b \in Blank THEN Token(t) ELSE [t EXCEPT !.line = Append(@, b)]

RECURSIVE Emit(_, _, _)
Emit(nodes, edges, order) ==
    LET rest == nodes \ Range(order)
        free == {v \in rest : \A u \in rest : <<u, v>> \notin edges}
    IN  CASE rest = {} -> [order |-> order, code |-> 0]
          [] rest # {} /\ free = {} -> [order |-> order \o SetToSortSeq(rest, <), code |-> 1]
          [] OTHER -> Emit(nodes, edges, Append(order, Min(free)))
TsortEnd(t) ==
    LET u == Token(t)
        r == Emit(DOMAIN u.kept, Range(u.own), <<>>)
    IN  IF u.prev # <<>>
        THEN [u EXCEPT !.code = 1]
        ELSE [Out(u, Printed([i \in DOMAIN r.order |-> u.kept[r.order[i]]])) EXCEPT !.code = r.code]

---------------------------------------------------------------------------
\* column: kept, the lines of the batch.  A field is followed by blanks when
\* a separator followed it.

Custom(t) == "-s" \in t.o.set
Fields(t, line) == IF Custom(t) THEN Split(line, {t.o.delim}) ELSE Words(line)
Width(t, k) ==
    Max({0} \cup {Len(Fields(t, t.kept[i])[k]) : i \in {j \in DOMAIN t.kept : k <= Len(Fields(t, t.kept[j]))}})
Blanks(n) == [i \in 1..n |-> SP]
Row(t, line) ==
    LET f == Fields(t, line)
        followed(k) == k < Len(f) \/ (~Custom(t) /\ Last(line) \in {SP, TAB})
        pad(k) == IF followed(k) /\ k <= MAX_COLS THEN Blanks(Width(t, k) + 2 - Len(f[k])) ELSE <<>>
    IN  Concat([k \in DOMAIN f |-> f[k] \o pad(k)])
ColumnFlush(t) == [Out(t, Printed([i \in DOMAIN t.kept |-> Row(t, t.kept[i])])) EXCEPT !.kept = <<>>]
AddLine(t, line) ==
    LET u == IF Len(t.kept) >= MAX_LINES THEN ColumnFlush(t) ELSE t
    IN  [u EXCEPT !.kept = Append(@, line)]
ColumnByte(t, b) ==
    CASE b = NL -> [AddLine(t, t.line) EXCEPT !.line = <<>>]
      [] b = CR -> t
      [] OTHER -> [t EXCEPT !.line = Keep(@, b)]
ColumnEnd(t) == ColumnFlush(IF t.line # <<>> THEN AddLine(t, t.line) ELSE t)

---------------------------------------------------------------------------
\* The calculators.  nums: the numbers printed.

Wrap(v) == ((v + 2 ^ (BITS - 1)) % (2 ^ BITS)) - 2 ^ (BITS - 1)
Abs(v) == IF v < 0 THEN -v ELSE v
Quotient(a, b) == LET q == Abs(a) \div Abs(b) IN IF (a < 0) = (b < 0) THEN q ELSE -q
Remainder(a, b) == a - b * Quotient(a, b)
Overflows(a, b) == b = -1 /\ a = -(2 ^ (BITS - 1))      \* a panic: the program exits with -1

RECURSIVE IPow(_, _, _)
IPow(base, exp, res) ==
    CASE exp < 0 -> 0
      [] exp = 0 -> res
      [] OTHER -> IPow(Wrap(base * base), exp \div 2, IF exp % 2 = 1 THEN Wrap(res * base) ELSE res)

Arith(a, op, b) ==
    CASE op = "+" -> Wrap(a + b)
      [] op = "-" -> Wrap(a - b)
      [] op = "*" -> Wrap(a * b)
      [] op = "/" -> Quotient(a, b)
      [] op = "%" -> Remainder(a, b)
      [] op = "^" -> IPow(a, b, 1)

\* bc: two stacks; e.ok says why an evaluation was given up.
Precedence(op) == CASE op \in {"+", "-"} -> 1 [] op \in {"*", "/", "%"} -> 2 [] op = "^" -> 3 [] OTHER -> 0
ApplyOp(e) ==
    LET n == Len(e.vals)
        op == Last(e.ops)
        f == [e EXCEPT !.ops = Front(@)]
    IN  CASE n < 2 -> [f EXCEPT !.ok = "stack"]
          [] n >= 2 /\ op \in {"/", "%"} /\ e.vals[n] = 0 -> [f EXCEPT !.ok = "zero"]
          [] n >= 2 /\ op \in {"/", "%"} /\ Overflows(e.vals[n - 1], e.vals[n]) -> [f EXCEPT !.ok = "panic"]
          [] OTHER -> [f EXCEPT !.vals = Append(Take(@, n - 2), Arith(@[n - 1], op, @[n]))]
RECURSIVE Reduce(_, _)
Reduce(e, prec) ==
    IF e.ok = "ok" /\ e.ops # <<>> /\ Last(e.ops) # "(" /\ Precedence(Last(e.ops)) >= prec
    THEN Reduce(ApplyOp(e), prec) ELSE e
PushOp(e, op) == [e EXCEPT !.ops = IF Len(@) < STACK THEN Append(@, op) ELSE @, !.unary = TRUE]
PushNum(e) ==
    IF e.num = <<>> THEN e
    ELSE [e EXCEPT !.vals = IF Len(@) < STACK THEN Append(@, IF e.neg THEN Wrap(-e.num[1]) ELSE e.num[1]) ELSE @,
                   !.num = <<>>, !.neg = FALSE, !.unary = FALSE]
CloseParen(e) == [e EXCEPT !.ops = IF @ # <<>> /\ Last(@) = "(" THEN Front(@) ELSE @, !.unary = FALSE]

DigitAt(x, k) == k <= Len(x) /\ x[k] \in DOMAIN Digit
Grow(num, b) == <<Wrap(Wrap(num * 10) + Digit[b])>>
EvalStep(x, e, k) ==
    LET f == PushNum(e)
        b == x[k]
    IN  CASE e.ok # "ok" -> e
          [] e.ok = "ok" /\ DigitAt(x, k) -> [e EXCEPT !.num = Grow(IF @ = <<>> THEN 0 ELSE @[1], b)]
          [] e.ok = "ok" /\ b = "-" /\ f.unary /\ DigitAt(x, k + 1) -> [f EXCEPT !.num = <<0>>, !.neg = TRUE]
          [] e.ok = "ok" /\ b = "(" -> PushOp(f, b)
          [] e.ok = "ok" /\ b = ")" -> LET g == Reduce(f, 0) IN IF g.ok = "ok" THEN CloseParen(g) ELSE g
          [] e.ok = "ok" /\ Precedence(b) > 0 /\ ~(b = "-" /\ f.unary /\ DigitAt(x, k + 1)) ->
                LET g == Reduce(f, Precedence(b)) IN IF g.ok = "ok" THEN PushOp(g, b) ELSE g
          [] OTHER -> f
RECURSIVE Drain(_)
Drain(e) ==
    CASE e.ok # "ok" \/ e.ops = <<>> -> e
      [] e.ok = "ok" /\ e.ops # <<>> /\ Last(e.ops) = "(" -> Drain([e EXCEPT !.ops = Front(@)])
      [] OTHER -> Drain(ApplyOp(e))
Eval(x) ==
    LET start == [vals |-> <<>>, ops |-> <<>>, num |-> <<>>, neg |-> FALSE, unary |-> TRUE, ok |-> "ok"]
    IN  Drain(PushNum(FoldLeft(LAMBDA e, k : EvalStep(x, e, k), start, [k \in 1..Len(x) |-> k])))

\* The sign and the magnitude; bc cuts it to a usize.
Shown(v, width) == <<v < 0, Abs(v) % (2 ^ width)>>
BcLine(t, x) ==
    LET e == Eval(x)
    IN  CASE x = <<>> \/ t.stop -> t
          [] x # <<>> /\ ~t.stop /\ e.ok = "panic" -> [t EXCEPT !.code = -1, !.stop = TRUE]
          [] x # <<>> /\ ~t.stop /\ e.ok = "zero" -> Out(t, <<MSG>>)
          [] x # <<>> /\ ~t.stop /\ e.ok = "ok" /\ e.vals # <<>> -> [t EXCEPT !.nums = Append(@, Shown(Last(e.vals), USIZE))]
          [] OTHER -> t
Trim(x) == Reverse(TrimStart(Reverse(TrimStart(x))))
BcByte(t, b) ==
    IF b = NL THEN [BcLine(t, Trim(OrEmpty(t.line))) EXCEPT !.line = <<>>] ELSE [t EXCEPT !.line = Keep(@, b)]
BcEnd(t) == BcLine(t, Trim(OrEmpty(t.line)))

\* dc: own is the stack, any says that it was told to quit.
DcPush(t, v) == IF Len(t.own) < STACK THEN [t EXCEPT !.own = Append(@, v)] ELSE Out(t, <<MSG>>)
DcTwo(t, f(_, _, _)) ==
    LET n == Len(t.own)
        u == [t EXCEPT !.own = IF n >= 2 THEN Take(@, n - 2) ELSE <<>>]
    IN  IF n >= 2 THEN f(u, t.own[n - 1], t.own[n]) ELSE Out(u, [i \in 1..(2 - n) |-> MSG])
DcArith(t, op) ==
    DcTwo(t, LAMBDA u, a, b : CASE op \in {"/", "%"} /\ b = 0 -> Out(u, <<MSG>>)
                                [] op \in {"/", "%"} /\ b # 0 /\ Overflows(a, b) -> [u EXCEPT !.code = -1, !.any = TRUE]
                                [] OTHER -> DcPush(u, Arith(a, op, b)))
DcSwap(t) == DcTwo(t, LAMBDA u, a, b : DcPush(DcPush(u, b), a))
DcTop(t, f(_, _)) == IF t.own = <<>> THEN Out(t, <<MSG>>) ELSE f(t, Last(t.own))
DcCommand(t, b) ==
    CASE b \in {"+", "-", "*", "/", "%"} -> DcArith(t, b)
      [] b = "p" -> DcTop(t, LAMBDA u, v : [u EXCEPT !.nums = Append(@, Shown(v, BITS))])
      [] b = "n" -> DcTop(t, LAMBDA u, v : [u EXCEPT !.nums = Append(@, Shown(v, BITS)), !.own = Front(@)])
      [] b = "f" -> [t EXCEPT !.nums = @ \o Reverse([i \in DOMAIN t.own |-> Shown(t.own[i], BITS)])]
      [] b = "c" -> [t EXCEPT !.own = <<>>]
      [] b = "d" -> DcTop(t, DcPush)
      [] b = "r" -> DcSwap(t)
      [] b = "q" -> [t EXCEPT !.any = TRUE]
      [] OTHER -> t

\* One call of process_tokens: a number ends where its input ends.
DcNum(t) ==
    IF t.cur = <<>> THEN t
    ELSE DcPush([t EXCEPT !.cur = <<>>, !.in_word = FALSE], IF t.in_word THEN Wrap(-t.cur[1]) ELSE t.cur[1])
DcStep(x, t, k) ==
    LET b == x[k]
    IN  CASE t.any -> t
          [] ~t.any /\ DigitAt(x, k) -> [t EXCEPT !.cur = Grow(IF @ = <<>> THEN 0 ELSE @[1], b)]
          [] ~t.any /\ b = "_" /\ DigitAt(x, k + 1) -> [DcNum(t) EXCEPT !.cur = <<0>>, !.in_word = TRUE]
          [] OTHER -> DcCommand(DcNum(t), b)
DcTokens(t, x) ==
    LET u == DcNum(FoldLeft(LAMBDA v, k : DcStep(x, v, k), t, [k \in 1..Len(x) |-> k]))
    IN  IF IsUtf8(x) THEN [u EXCEPT !.stop = u.any] ELSE t

---------------------------------------------------------------------------
\* Arguments

Base64Scan(o, a) ==
    CASE o.exit >= 0 -> o
      [] o.exit < 0 /\ a = "-h" -> Help(o)
      [] o.exit < 0 /\ a = "-d" -> [o EXCEPT !.set = {"-d"}]
      [] OTHER -> FirstFile(o, a)

\* base32: the file is what follows -d, or the first argument without dash.
Base32Scan(args, o, i) ==
    CASE o.exit >= 0 \/ o.want = "file" -> o
      [] o.exit < 0 /\ o.want = "" /\ args[i] = "-h" -> Help(o)
      [] o.exit < 0 /\ o.want = "" /\ args[i] = "-d" -> [o EXCEPT !.set = {"-d"}, !.start = i + 1]
      [] o.exit < 0 /\ o.want = "" /\ ~Dash(args[i]) -> [o EXCEPT !.want = "file", !.start = i]
      [] OTHER -> o
Base32Args(o, args) ==
    LET r == FoldLeft(LAMBDA p, i : Base32Scan(args, p, i), o, [i \in DOMAIN args |-> i])
    IN  IF r.start <= Len(args) THEN [r EXCEPT !.files = <<Named(args[r.start])>>] ELSE r

TsortArgs(o, args) ==
    CASE args = <<>> -> o
      [] args # <<>> /\ args[1] = "-h" -> Help(o)
      [] OTHER -> [o EXCEPT !.files = <<Named(args[1])>>]

\* column, dos2unix, unix2dos: options, then files.
GluedSep == "-s-" :> "-"
ColumnScan(o, a) ==
    CASE o.exit >= 0 \/ o.want = "files" -> [o EXCEPT !.files = Append(@, Named(a))]
      [] o.exit < 0 /\ o.want = "-s" -> [o EXCEPT !.want = "", !.set = {"-s"}, !.delim = a]
      [] o.exit < 0 /\ o.want = "" /\ a = "-h" -> Help(o)
      [] o.exit < 0 /\ o.want = "" /\ a = "-s" -> [o EXCEPT !.want = "-s"]
      [] o.exit < 0 /\ o.want = "" /\ a \in DOMAIN GluedSep -> [o EXCEPT !.set = {"-s"}, !.delim = GluedSep[a]]
      [] o.exit < 0 /\ o.want = "" /\ a = "-t" -> o
      [] OTHER -> [o EXCEPT !.want = "files", !.files = <<Named(a)>>]
ColumnArgs(o, args) ==
    LET r == FoldLeft(ColumnScan, o, args) IN IF r.want = "-s" THEN [r EXCEPT !.exit = 1] ELSE r
DosScan(o, a) ==
    CASE o.exit >= 0 \/ o.want = "files" -> [o EXCEPT !.files = Append(@, Named(a))]
      [] o.exit < 0 /\ o.want = "" /\ a = "-h" -> Help(o)
      [] o.exit < 0 /\ o.want = "" /\ a = "-q" -> o
      [] OTHER -> [o EXCEPT !.want = "files", !.files = <<Named(a)>>]

\* bc and dc evaluate an argument when they come to it; so they do -h.
CalcScan(o, a) ==
    CASE o.want = "-e" -> [o EXCEPT !.want = "", !.files = Append(@, a)]
      [] o.want = "" /\ a = "-e" -> [o EXCEPT !.want = "-e"]
      [] o.want = "" /\ (a = "-h" \/ ~Dash(a)) /\ a # "-e" -> [o EXCEPT !.files = Append(@, a)]
      [] OTHER -> o

Calc == {"bc", "dc"}
Coder == {"base64", "base32", "dos2unix", "unix2dos", "tsort", "column"} \cup Calc
CodeScanned(prog, args) ==
    LET o == Options(prog)
    IN  CASE prog = "base64" -> FoldLeft(Base64Scan, o, args)
          [] prog = "base32" -> Base32Args(o, args)
          [] prog = "tsort" -> TsortArgs(o, args)
          [] prog = "column" -> ColumnArgs(o, args)
          [] prog \in {"dos2unix", "unix2dos"} -> FoldLeft(DosScan, o, args)
          [] prog \in Calc -> FoldLeft(CalcScan, o, args)

---------------------------------------------------------------------------
\* One run

CodeByte(t, b) ==
    CASE t.o.prog = "base64" -> IF "-d" \in t.o.set THEN Decode64Byte(t, b) ELSE Encode64Byte(t, b)
      [] t.o.prog = "base32" -> IF "-d" \in t.o.set THEN Decode32Byte(t, b) ELSE Encode32Byte(t, b)
      [] t.o.prog = "dos2unix" -> DosByte(t, b)
      [] t.o.prog = "unix2dos" -> UnixByte(t, b)
      [] t.o.prog = "tsort" -> TsortByte(t, b)
      [] t.o.prog = "column" -> ColumnByte(t, b)
      [] t.o.prog = "bc" -> BcByte(t, b)
CodePiece(t, piece) == IF t.o.prog = "dc" THEN DcTokens(t, piece) ELSE FoldLeft(CodeByte, t, piece)
CodeEof(t) ==
    CASE t.o.prog = "base64" /\ "-d" \notin t.o.set -> Encode64End(t)
      [] t.o.prog = "base32" /\ "-d" \notin t.o.set -> Encode32End(t)
      [] t.o.prog = "dos2unix" -> DosEnd(t)
      [] t.o.prog = "tsort" -> TsortEnd(t)
      [] t.o.prog = "column" -> ColumnEnd(t)
      [] t.o.prog = "bc" -> BcEnd(t)
      [] OTHER -> t

CodeBegin(o) ==
    IF o.prog \in Calc /\ o.files # <<>>
    THEN s = Start(o) /\ todo = o.files /\ left = <<>> /\ phase = "args"
    ELSE Begin(o)
CodeInit == job \in CodeJobs /\ CodeBegin(CodeScanned(job.prog, job.args))

EvalArg ==
    /\ phase = "args" /\ todo # <<>>
    /\ s' = CASE Source = "-h" -> [s EXCEPT !.stop = TRUE]
              [] Source # "-h" /\ job.prog = "bc" -> BcLine(s, TextOf(Source))
              [] OTHER -> DcTokens(s, TextOf(Source))
    /\ todo' = Tail(todo)
    /\ phase' = IF s'.stop \/ todo' = <<>> THEN "exit" ELSE "args"
    /\ UNCHANGED <<job, left>>
CodeRead(n) == job.prog \in Coder /\ ReadWith(n, CodePiece)
CodeEnds == job.prog \in Coder /\ EndWith(CodeEof)

CodeNext == (\E n \in 1..CHUNK : CodeRead(n)) \/ CodeEnds \/ EvalArg

---------------------------------------------------------------------------
\* What the programs promise

BitsOf(x, w) == Concat([i \in DOMAIN x |-> [k \in 1..w |-> (x[i] \div 2 ^ (w - k)) % 2]])

\* base64 and base32 write the bits of their input, six or five to a
\* character, filled up with zero bits and then with pad characters to a
\* whole group, wherever the reads cut the input.
EncodesBits ==
    \A prog \in {"base64", "base32"} :
        Ran(prog) /\ "-d" \notin s.o.set /\ Readable(Inputs[1]) =>
            LET w == IF prog = "base64" THEN 6 ELSE 5
                text == Without(s.out, BREAK)
                bits == BitsOf(TextOf(Inputs[1]), 8)
                coded == BitsOf(Without(text, PAD), w)
            IN  /\ IsPrefix(bits, coded) /\ Len(coded) - Len(bits) < w
                /\ \A i \in (Len(bits) + 1)..Len(coded) : coded[i] = 0
                /\ Len(text) % (IF prog = "base64" THEN 4 ELSE 8) = 0
                /\ \A i \in DOMAIN text : text[i] = PAD => i = Len(text) \/ text[i + 1] = PAD

\* -d gives back what was encoded, also when its input has line breaks or a
\* read ends inside a group.
DecodesBack == \A prog \in {"base64", "base32"} : Ran(prog) /\ "-d" \in s.o.set => s.out = job.plain

\* dos2unix drops the "\r" of every "\r\n" and no other, also when a read
\* ends between the two; unix2dos adds one where it is missing, so a second
\* run changes nothing.
LineEnds ==
    LET text == Concat([i \in DOMAIN Inputs |-> IF Readable(Inputs[i]) /\ i = 1 THEN TextOf(Inputs[i]) ELSE <<>>])
        ends(x, i) == x[i] = NL /\ i > 1 /\ x[i - 1] = CR
        unix == Concat([i \in DOMAIN text |-> IF i < Len(text) /\ ends(text, i + 1) THEN <<>> ELSE <<text[i]>>])
        dos == Concat([i \in DOMAIN text |-> IF text[i] = NL /\ ~ends(text, i) THEN <<CR, NL>> ELSE <<text[i]>>])
    IN  /\ Ran("dos2unix") => s.out = unix
        /\ Ran("unix2dos") => s.out = dos

\* tsort prints every name once.  Its status is 0 exactly when the tokens
\* pair up and no name comes before itself, and then every pair is in order.
TsortOrders ==
    Ran("tsort") /\ Readable(Inputs[1]) =>
        LET w == Words(TextOf(Inputs[1]))
            names == Range(w)
            edges == {e \in {<<w[i], w[i + 1]>> : i \in {j \in 1..(Len(w) - 1) : j % 2 = 1}} : e[1] # e[2]}
            out == Words(s.out)
            \* a set of names each of which must follow another of the set
            knot == \E N \in SUBSET names \ {{}} : \A v \in N : \E u \in N : <<u, v>> \in edges
        IN  Cardinality(names) <= MAX_NODES =>
                /\ s.code = 0 <=> (Len(w) % 2 = 0 /\ ~knot)
                /\ Len(w) % 2 = 0 => Range(out) = names /\ Len(out) = Cardinality(names)
                /\ s.code = 0 => \A e \in edges : \E i, j \in DOMAIN out : i < j /\ out[i] = e[1] /\ out[j] = e[2]

\* column puts the k-th field of every line of a batch in the same column,
\* two blanks after the widest (k-1)-th field of the batch, and loses none.
ColumnAligned ==
    Ran("column") =>
        LET all == ForEach(LAMBDA text : LET lines == LinesOf(Without(text, CR))
                                         IN  Printed([i \in DOMAIN lines |-> Concat(Fields(s, lines[i]))]))
            lines == IF Readable(Inputs[1]) THEN LinesOf(Without(TextOf(Inputs[1]), CR)) ELSE <<>>
            out == Split(s.out, {NL})
            batch(i) == {j \in DOMAIN lines : (j - 1) \div MAX_LINES = (i - 1) \div MAX_LINES}
            field(i, k) == Fields(s, lines[i])[k]
            has(i, k) == k <= Len(Fields(s, lines[i]))
            wide(i, k) == Max({Len(field(j, k)) : j \in {m \in batch(i) : has(m, k)}})
            col(i, k) == FoldLeft(LAMBDA n, m : n + wide(i, m) + 2, 0, [m \in 1..(k - 1) |-> m])
        IN  /\ Without(s.out, SP) = Without(all, SP)
            /\ \A i \in DOMAIN lines : \A k \in 1..(MAX_COLS + 1) :
                   has(i, k) => /\ Len(out[i]) >= col(i, k) + Len(field(i, k))
                                /\ SubSeq(out[i], col(i, k) + 1, col(i, k) + Len(field(i, k))) = field(i, k)

\* The value of an infix expression by its grammar: the operator that binds
\* least, the last of its kind, is the one applied last.  None for a text
\* that is no expression, or divides by zero.
Operators == {"+", "-", "*", "/", "%"}
RECURSIVE ValueOf(_)
ValueOf(x) ==
    LET depth(i) == Cardinality({j \in 1..i : x[j] = "("}) - Cardinality({j \in 1..i : x[j] = ")"})
        binary == {i \in 2..(Len(x) - 1) : x[i] \in Operators /\ depth(i) = 0 /\ x[i - 1] \notin Operators \cup {"("}}
        least == {i \in binary : \A j \in binary : Precedence(x[i]) <= Precedence(x[j])}
        at == Max(least)
    IN  CASE IsNum(x) -> {NumOf(x)}
          [] Len(x) > 1 /\ x[1] = "-" /\ IsNum(Tail(x)) -> {-NumOf(Tail(x))}
          [] ~IsNum(x) /\ binary # {} ->
                {Arith(p[1], x[at], p[2]) : p \in {q \in ValueOf(Take(x, at - 1)) \X ValueOf(Drop(x, at)) :
                                                      x[at] \in {"/", "%"} => q[2] # 0}}
          [] binary = {} /\ Len(x) > 2 /\ x[1] = "(" /\ Last(x) = ")" -> ValueOf(SubSeq(x, 2, Len(x) - 1))
          [] OTHER -> {}

\* bc prints the value of an expression that needs no more than its stacks
\* and its numbers hold, with + - * / % and parentheses binding as usual.
BcValue ==
    Ran("bc") /\ Len(Inputs) = 1 =>
        LET lines == IF Inputs[1] = "stdin" THEN LinesOf(TextOf("stdin")) ELSE <<TextOf(Inputs[1])>>
            value(x) == {v \in ValueOf(x) : Len(x) <= STACK /\ Abs(v) < 2 ^ USIZE}
        IN  (\A i \in DOMAIN lines : value(lines[i]) # {})
                => /\ Len(s.nums) = Len(lines)
                   /\ \A i \in DOMAIN lines : \A v \in value(lines[i]) : s.nums[i] = <<v < 0, Abs(v)>>

\* dc with two numbers and an operator prints what bc does for the same two
\* in infix; the operands come off the stack in the right order.
DcValue ==
    Ran("dc") /\ job.plain # <<>> => \A v \in ValueOf(job.plain) : s.nums = <<<<v < 0, Abs(v)>>>>

\* The encoders, tsort, column and the calculators give the result that the
\* whole input has, wherever a read cuts it and whatever their tables hold.
CodecsPrint ==
    /\ EncodesBits /\ DecodesBack /\ LineEnds
    /\ TsortOrders /\ ColumnAligned /\ BcValue /\ DcValue
=============================================================================
