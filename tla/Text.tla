-------------------------------- MODULE Text --------------------------------
(***************************************************************************)
(* Text as the programs of userland/apps see it: a text is the sequence of *)
(* its bytes, a byte is a short string.  "c3" and "a9" are the two bytes   *)
(* of one character, "msg" stands for a message of the program itself      *)
(* (they go to standard output too) and a number that is printed is        *)
(* printed as the bytes of Digits.  The operators are the functions of     *)
(* Rust's core library that the programs call.                             *)
(***************************************************************************)
EXTENDS Integers, Sequences, SequencesExt, FiniteSetsExt, Functions

NL == "\n"
CR == "\r"
TAB == "\t"
SP == " "
MSG == "msg"
Blank == {SP, TAB, NL, CR}

\* The bytes used, in the order of their values.
Bytes == <<TAB, NL, CR, SP, "-", "0", "1", "2", "3", "9", "A", "B", "a", "b", "a9", "c3", MSG>>
Rank(b) == CHOOSE i \in DOMAIN Bytes : Bytes[i] = b

\* Ord for [u8] and str.
Less(s, t) ==
    \E k \in 1..Len(t) :
        /\ \A j \in 1..(k - 1) : j <= Len(s) /\ s[j] = t[j]
        /\ k > Len(s) \/ Rank(s[k]) < Rank(t[k])

Take(s, n) == SubSeq(s, 1, IF n < Len(s) THEN n ELSE Len(s))
Drop(s, n) == SubSeq(s, n + 1, Len(s))

\* str::from_utf8: an accented letter must be whole.
IsUtf8(s) == \A i \in DOMAIN s : /\ s[i] = "c3" => i < Len(s) /\ s[i + 1] = "a9"
                                 /\ s[i] = "a9" => i > 1 /\ s[i - 1] = "c3"
OrEmpty(s) == IF IsUtf8(s) THEN s ELSE <<>>

\* split: the pieces between the bytes of D, empty ones included.
Split(s, D) ==
    FoldLeft(LAMBDA acc, b : IF b \in D THEN Append(acc, <<>>) ELSE [acc EXCEPT ![Len(acc)] = Append(@, b)],
             << <<>> >>, s)
Words(s) == SelectSeq(Split(s, Blank), LAMBDA w : w # <<>>)

\* str::lines: a line's "\n" and a "\r" before it are not part of it.
Chomp(line) == IF line # <<>> /\ Last(line) = CR THEN Front(line) ELSE line
Lines(s) ==
    LET parts == Split(s, {NL})
        whole == [i \in 1..(Len(parts) - 1) |-> Chomp(parts[i])]
    IN  IF Last(parts) = <<>> THEN whole ELSE Append(whole, Last(parts))

Has(s, t) == \E i \in 0..(Len(s) - Len(t)) : SubSeq(s, i + 1, i + Len(t)) = t
TrimStart(s) == LET n == {i \in 0..Len(s) : \A j \in 1..i : s[j] \in Blank} IN Drop(s, Max(n))

Concat(seqs) == FoldLeft(LAMBDA a, b : a \o b, <<>>, seqs)
Printed(lines) == Concat([i \in DOMAIN lines |-> Append(lines[i], NL)])

\* usize::from_str, and the decimal digits of a number, for numbers below 40.
Digit == ("0" :> 0) @@ ("1" :> 1) @@ ("2" :> 2) @@ ("3" :> 3) @@ ("9" :> 9)
IsNum(s) == s # <<>> /\ \A i \in DOMAIN s : s[i] \in DOMAIN Digit
NumOf(s) == FoldLeft(LAMBDA v, b : v * 10 + Digit[b], 0, s)
=============================================================================
